------------------------------- MODULE GameStream -------------------------------
(***************************************************************************)
(* What one player's client is told of a live match: the moves committed by *)
(* either side, the broadcast of each with its replay buffer, the gateway's *)
(* read loop with `room.join`, `game.resume` and `game.move.submit`, and    *)
(* the reducer of the web client, across lost connections.                  *)
(*                                                                         *)
(* A dispatch changes the state of the board at once, the page later: React *)
(* renders several dispatches together, and an effect runs after a render,  *)
(* if what it depends on is not what it was in the render before.  A change *)
(* of the connection status is rendered at once (useSyncExternalStore).     *)
(*                                                                         *)
(* A frame written to a socket is reduced at once: what delays it on the    *)
(* way delays the write just as well, and nothing overtakes on a socket.    *)
(* A ply stands for its move, fingerprint and clock.                        *)
(***************************************************************************)
EXTENDS Integers, Sequences, FiniteSets

CONSTANTS
  MaxPly,        \* bound: moves of the match
  Mine,          \* the plies the player of this client moves
  BufferLength,  \* GATEWAY_EVENT_BUFFER_LENGTH
  MaxFaults      \* bound: failures of Redis, of a delivery, of a request

ASSUME StreamAssumption ==
  /\ MaxPly \in Nat /\ BufferLength \in Nat \ {0} /\ MaxFaults \in Nat
  /\ Mine \subseteq 1..MaxPly

Plies == 1..MaxPly

VARIABLES
  ply,        \* moves committed, the `sequence` of a snapshot
  over,       \* how the match ended: by its last move, a command, or outside
  stage,      \* stage[p]: how far the handler of ply p is with its broadcast
  pushes,     \* `game.completed` frames sent
  buffer,     \* gwevent: the plies in the replay buffer
  connected,  \* the socket is open and registered
  member,     \* gwroom: this connection is attached to the room
  inbox,      \* requests the read loop has yet to take
  serving,    \* the request it is serving, and what that has read
  orphan,     \* a move whose connection closed before it was served
  client,     \* GameState of the web client, what `enter` and `submit` wait for
  page,       \* what of it is rendered, and whether the resync effect is due
  stale,      \* history: the last snapshot was older than a frame before it
  unseen,     \* history: `resyncing` came, or went, between two renders
  faults      \* failures so far

serverVars == <<ply, over, stage, pushes, buffer>>
linkVars == <<connected, member, inbox, serving, orphan>>
clientVars == <<client, page, unseen>>
vars == <<serverVars, linkVars, clientVars, stale, faults>>

Idle == [kind |-> "none", known |-> 0, snap |-> 0, over |-> FALSE]
Join == [kind |-> "join", known |-> 0]
Resume(known) == [kind |-> "resume", known |-> known]
Resync == [kind |-> "resync", known |-> 0]
Move == [kind |-> "move", known |-> 0]

Phase == {"loading", "joining", "active", "submitting", "reconnecting",
          "resyncing", "completed", "unavailable"}

\* The only type invariant: every variable keeps its type, and the buffer its
\* length.
TypeOK ==
  /\ ply \in 0..MaxPly
  /\ over \in {"no", "move", "command", "outside"}
  /\ stage \in [Plies -> {"none", "committed", "buffered", "done"}]
  /\ pushes \in 0..2
  /\ buffer \in SUBSET Plies /\ Cardinality(buffer) <= BufferLength
  /\ connected \in BOOLEAN /\ member \in BOOLEAN
  /\ inbox \in Seq([kind : {"join", "resume", "resync", "move"}, known : 0..MaxPly])
  /\ serving \in [kind : {"none", "resume", "resync", "move"}, known : 0..MaxPly,
                  snap : 0..MaxPly, over : BOOLEAN]
  /\ orphan \in BOOLEAN
  /\ client \in [phase : Phase, seq : -1..MaxPly, knows : BOOLEAN,
                 entering : {"no", "join", "resume"}, moving : BOOLEAN]
  /\ page \in [phase : {"active", "resyncing", "other"}, seq : -1..MaxPly, due : BOOLEAN]
  /\ stale \in BOOLEAN /\ unseen \in BOOLEAN
  /\ faults \in 0..MaxFaults

\* What effects and controls depend on in a rendered state.
Shown(c) ==
  [phase |-> IF c.phase \in {"active", "resyncing"} THEN c.phase ELSE "other",
   seq |-> c.seq, due |-> FALSE]

Init ==
  /\ ply = 0 /\ over = "no" /\ pushes = 0
  /\ stage = [p \in Plies |-> "none"]
  /\ buffer = {}
  /\ connected = FALSE /\ member = FALSE
  /\ inbox = <<>> /\ serving = Idle /\ orphan = FALSE
  /\ client = [phase |-> "loading", seq |-> -1, knows |-> FALSE, entering |-> "no",
               moving |-> FALSE]
  /\ page = Shown(client)
  /\ stale = FALSE /\ unseen = FALSE
  /\ faults = 0

Fault == faults < MaxFaults /\ faults' = faults + 1

\* The frame of the move that ended the match carries its result.
EndsWith(p) == over = "move" /\ p = ply

-----------------------------------------------------------------------------
(* The reducer of the client *)

\* Mutant of Applied: a frame from beyond a gap is dropped.
AppliedOrDropped(c, p, ends) ==
  IF p # c.seq + 1 THEN c
  ELSE [c EXCEPT !.phase = IF ends THEN "completed" ELSE "active",
                 !.seq = p, !.knows = @ \/ ends]

\* A duplicate or a stale frame is ignored; a frame beyond a gap resyncs.
Applied(c, p, ends) ==
  IF p <= c.seq THEN c
  ELSE IF p > c.seq + 1 THEN [c EXCEPT !.phase = "resyncing"]
  ELSE [c EXCEPT !.phase = IF ends THEN "completed" ELSE "active",
                 !.seq = p, !.knows = @ \/ ends]

\* A snapshot replaces what the client holds, whatever that was.
Snapshot(c, p, ended) ==
  [c EXCEPT !.phase = IF ended THEN "completed" ELSE "active",
            !.seq = p, !.knows = ended]

\* Mutant of Resumed: the frame falls to the default of the handler's switch.
ResumedIgnored(c, p) == c

Resumed(c, p) ==
  IF c.phase # "joining" THEN c
  ELSE IF p > c.seq THEN [c EXCEPT !.phase = "resyncing"]
  ELSE [c EXCEPT !.phase = IF c.knows THEN "completed" ELSE "active"]

\* Where Applied stands after the frames of `plies`, in order.
Reach(p, plies) ==
  CHOOSE n \in p..MaxPly : (p + 1)..n \subseteq plies /\ n + 1 \notin plies

\* Mutant of Replayed: nothing unwraps `game.events`.
ReplayDropped(c, plies) == c

\* `game.events`: the frames of `plies`, each through Applied, in order.
Replayed(c, plies) ==
  LET n == Reach(c.seq, plies)
  IN  [c EXCEPT !.seq = n,
                !.knows = @ \/ (n > c.seq /\ EndsWith(n)),
                !.phase = IF \E p \in plies : p > n THEN "resyncing"
                          ELSE IF n = c.seq THEN @
                          ELSE IF EndsWith(n) THEN "completed" ELSE "active"]

\* Mutant of Completed: only the board of a player at rest takes the result.
CompletedAtRest(c) ==
  IF c.phase = "active" THEN [c EXCEPT !.phase = "completed", !.knows = TRUE] ELSE c

Completed(c) == [c EXCEPT !.phase = "completed", !.knows = TRUE]

Rejected(c) == [c EXCEPT !.phase = "active"]

Resyncing(c) == [c EXCEPT !.phase = "resyncing"]

\* A page that never held a snapshot keeps saying why.
Disconnected(c) ==
  IF c.phase = "completed" \/ (c.phase = "unavailable" /\ c.seq < 0)
  THEN [c EXCEPT !.entering = "no"]
  ELSE [c EXCEPT !.phase = "reconnecting", !.entering = "no"]

\* A dispatch that takes `resyncing` back to what is rendered hides its change.
Hides(c) ==
  \/ client.phase = "resyncing" /\ c.phase # "resyncing" /\ page.phase # "resyncing"
  \/ client.phase # "resyncing" /\ c.phase = "resyncing" /\ page.phase = "resyncing"

\* A dispatch: the new state, which nothing has rendered yet.
Reduce(c) ==
  /\ client' = c
  /\ unseen' = (unseen \/ Hides(c))
  /\ UNCHANGED page

\* Mutant of Asks: a snapshot is asked for only by a board that was live.
AsksLive(c) == c.phase = "resyncing" /\ page.phase = "active"

\* The dependency of the effect, `state.phase === "resyncing"`, became true.
Asks(c) == c.phase = "resyncing" /\ page.phase # "resyncing"

\* React renders what was dispatched, effects of the render before first.
Render ==
  /\ ~page.due
  /\ page # Shown(client)
  /\ page' = [Shown(client) EXCEPT !.due = Asks(client)]
  /\ UNCHANGED <<serverVars, linkVars, client, stale, unseen, faults>>

\* `resync`: "this is what actually asks".
Resynchronise ==
  /\ page.due
  /\ page' = [page EXCEPT !.due = FALSE]
  /\ client' = Resyncing(client)
  /\ inbox' = Append(inbox, Resync)
  /\ unseen' = FALSE
  /\ UNCHANGED <<serverVars, connected, member, serving, orphan, stale, faults>>

-----------------------------------------------------------------------------
(* The match and its broadcasts *)

Commit(ends) ==
  /\ over = "no" /\ ply < MaxPly
  /\ ply' = ply + 1
  /\ over' = IF ends THEN "move" ELSE over
  /\ stage' = [stage EXCEPT ![ply + 1] = "committed"]
  /\ UNCHANGED <<pushes, buffer>>

OpponentMoves ==
  /\ ply + 1 \notin Mine
  /\ \E ends \in BOOLEAN : Commit(ends)
  /\ UNCHANGED <<linkVars, clientVars, stale, faults>>

\* A resignation or an agreed draw; a flag or an abort, outside the commands.
Finish ==
  /\ over = "no"
  /\ over' \in {"command", "outside"}
  /\ UNCHANGED <<ply, stage, pushes, buffer, linkVars, clientVars, stale, faults>>

\* Mutant of Newest: one entry too many is kept.
NewestAndOne(plies) ==
  {p \in plies : Cardinality({q \in plies : q > p}) <= BufferLength}

\* _APPEND: the entries of the highest rank.
Newest(plies) == {p \in plies : Cardinality({q \in plies : q > p}) < BufferLength}

\* "Buffered before it is delivered."
Buffer(p) ==
  /\ stage[p] = "committed"
  /\ stage' = [stage EXCEPT ![p] = "buffered"]
  /\ buffer' = Newest(buffer \cup {p})
  /\ UNCHANGED <<ply, over, pushes, linkVars, clientVars, stale, faults>>

\* `append` never raises.
BufferFails(p) ==
  /\ Fault
  /\ stage[p] = "committed"
  /\ stage' = [stage EXCEPT ![p] = "buffered"]
  /\ UNCHANGED <<ply, over, pushes, buffer, linkVars, clientVars, stale>>

Deliver(p) ==
  /\ stage[p] = "buffered"
  /\ stage' = [stage EXCEPT ![p] = "done"]
  /\ IF connected THEN Reduce(Applied(client, p, EndsWith(p))) ELSE UNCHANGED clientVars
  /\ UNCHANGED <<ply, over, pushes, buffer, linkVars, stale, faults>>

\* The route, the socket or the node is gone, and nobody sends the frame again.
DeliveryFails(p) ==
  /\ Fault
  /\ stage[p] = "buffered"
  /\ stage' = [stage EXCEPT ![p] = "done"]
  /\ UNCHANGED <<ply, over, pushes, buffer, linkVars, clientVars, stale>>

\* A command's own broadcast, and the push of the outbox consumer.
Pushes == CASE over = "no" -> 0 [] over = "command" -> 2 [] OTHER -> 1

Announce ==
  /\ pushes < Pushes
  /\ pushes' = pushes + 1
  /\ IF connected THEN Reduce(Completed(client)) ELSE UNCHANGED clientVars
  /\ UNCHANGED <<ply, over, stage, buffer, linkVars, stale, faults>>

AnnounceFails ==
  /\ Fault
  /\ pushes < Pushes
  /\ pushes' = pushes + 1
  /\ UNCHANGED <<ply, over, stage, buffer, linkVars, clientVars, stale>>

\* The key expired, or Redis was flushed.
LoseBuffer ==
  /\ Fault
  /\ buffer' = {}
  /\ UNCHANGED <<ply, over, stage, pushes, linkVars, clientVars, stale>>

-----------------------------------------------------------------------------
(* The connection *)

Queued == {inbox[i] : i \in DOMAIN inbox}

\* `connection.ready`, rendered at once, and the effect that enters the room.
Connect ==
  /\ ~connected
  /\ connected' = TRUE /\ member' = FALSE
  /\ inbox' = <<Join>> /\ serving' = Idle
  /\ client' = [client EXCEPT !.phase = "joining", !.entering = "join"]
  /\ stale' = FALSE /\ unseen' = FALSE
  /\ UNCHANGED <<serverVars, orphan, page, faults>>

\* The requests in flight fail: the status effect's dispatch, and that of a
\* `submit` whose move was among them, in either order.  No frame comes
\* without a connection, and all is rendered before there is a new one.
Closed ==
  LET settled == [client EXCEPT !.moving = FALSE]
  IN  /\ connected' = FALSE /\ member' = FALSE
      /\ inbox' = <<>> /\ serving' = Idle
      /\ client' \in IF client.moving
                     THEN {Disconnected(Resyncing(settled)), Resyncing(Disconnected(settled))}
                     ELSE {Disconnected(settled)}
      /\ page' = Shown(client')
      /\ stale' = FALSE /\ unseen' = FALSE

\* A move among the requests may still be served.
Drop ==
  /\ connected
  /\ Closed
  /\ orphan' \in IF Move \in Queued THEN BOOLEAN ELSE {orphan}
  /\ UNCHANGED <<serverVars, faults>>

OrphanMoves ==
  /\ orphan /\ ply + 1 \in Mine
  /\ \E ends \in BOOLEAN : Commit(ends)
  /\ orphan' = FALSE
  /\ UNCHANGED <<connected, member, inbox, serving, clientVars, stale, faults>>

\* The room of the match cannot be read: the handler raises before it buffers
\* or sends anything, which closes the connection it serves.
BroadcastFails(p) ==
  /\ Fault
  /\ stage[p] = "committed"
  /\ stage' = [stage EXCEPT ![p] = "done"]
  /\ IF serving.kind = "move" /\ serving.snap = p
     THEN Closed
     ELSE UNCHANGED <<connected, member, inbox, serving, clientVars, stale>>
  /\ UNCHANGED <<ply, over, pushes, buffer, orphan>>

\* The membership outlived its hour.
LoseRoom ==
  /\ Fault
  /\ member' = FALSE
  /\ UNCHANGED <<serverVars, connected, inbox, serving, orphan, clientVars, stale>>

Takes(kind) == connected /\ serving = Idle /\ inbox # <<>> /\ Head(inbox).kind = kind

\* `room.join`, then the page's `game.resume` with what it had rendered.
JoinRoom ==
  /\ Takes("join")
  /\ over = "no"
  /\ member' = TRUE
  /\ IF client.entering = "join"
     THEN /\ inbox' = Append(Tail(inbox), Resume(IF page.seq < 0 THEN 0 ELSE page.seq))
          /\ client' = [client EXCEPT !.entering = "resume"]
     ELSE inbox' = Tail(inbox) /\ UNCHANGED client
  /\ UNCHANGED <<serverVars, connected, serving, orphan, page, unseen, stale, faults>>

RefuseJoin ==
  /\ Takes("join")
  /\ over # "no"
  /\ inbox' = Tail(inbox)
  /\ Reduce([client EXCEPT !.phase = "unavailable", !.entering = "no"])
  /\ UNCHANGED <<serverVars, connected, member, serving, orphan, stale, faults>>

\* The snapshot is read first, before the room and the buffer.
BeginResume ==
  /\ Takes("resume") \/ Takes("resync")
  /\ serving' = [kind |-> Head(inbox).kind, known |-> Head(inbox).known, snap |-> ply,
                 over |-> over # "no"]
  /\ inbox' = Tail(inbox)
  /\ UNCHANGED <<serverVars, connected, member, orphan, clientVars, stale, faults>>

Since == {p \in buffer : p > serving.known}

IsContiguous == \E p \in buffer : p <= serving.known + 1

Resuming == serving.kind \in {"resume", "resync"}

\* Whatever the answer, it ends the entering of the page that waits for it.
Entered(c) == IF serving.kind = "resume" THEN [c EXCEPT !.entering = "no"] ELSE c

Rejoined ==
  /\ Resuming
  /\ serving' = Idle
  /\ member' = (member \/ over = "no")
  /\ UNCHANGED <<serverVars, connected, inbox, orphan>>

Answer(c) == Rejoined /\ Reduce(Entered(c))

AskedAnew == \E request \in Queued : request \in {Resume(0), Resync}

\* "Start me over", checked first.
AnswerSnapshot ==
  /\ serving.known = 0
  /\ Rejoined
  /\ client' = Entered(Snapshot(client, serving.snap, serving.over))
  /\ unseen' = FALSE
  /\ stale' = (~AskedAnew /\ ((client.knows /\ ~serving.over)
                              \/ \E p \in (serving.snap + 1)..ply : stage[p] = "done"))
  /\ UNCHANGED <<page, faults>>

AnswerCurrent ==
  /\ serving.known # 0 /\ serving.known >= serving.snap
  /\ Answer(Resumed(client, serving.snap))
  /\ UNCHANGED <<stale, faults>>

Missed == serving.known # 0 /\ serving.known < serving.snap

AnswerEvents ==
  /\ Missed /\ IsContiguous
  /\ Answer(Replayed(client, Since))
  /\ UNCHANGED <<stale, faults>>

\* Not proven to be complete, or not read at all.
AnswerResync ==
  /\ Missed
  /\ Answer(Resyncing(client))
  /\ IF IsContiguous THEN Fault ELSE UNCHANGED faults
  /\ UNCHANGED stale

-----------------------------------------------------------------------------
(* The player's own moves *)

\* Offered by what is rendered; a click is rendered before the next event.
Submit ==
  /\ connected
  /\ page.phase = "active" /\ page.seq + 1 \in Mine
  /\ client' = [client EXCEPT !.phase = "submitting", !.moving = TRUE]
  /\ page' = Shown(client')
  /\ unseen' = (unseen \/ client.phase = "resyncing")
  /\ inbox' = Append(inbox, Move)
  /\ UNCHANGED <<serverVars, connected, member, serving, orphan, stale, faults>>

AcceptMove ==
  /\ Takes("move")
  /\ member /\ ply + 1 \in Mine
  /\ \E ends \in BOOLEAN : Commit(ends)
  /\ serving' = [Idle EXCEPT !.kind = "move", !.snap = ply + 1]
  /\ inbox' = Tail(inbox)
  /\ UNCHANGED <<connected, member, orphan, clientVars, stale, faults>>

\* The promise of `submit` is settled, unless a later move is still in flight.
Settled(c, requests) ==
  [c EXCEPT !.moving = @ /\ \E i \in DOMAIN requests : requests[i] = Move]

\* Not in the room, not the player's turn, illegal by now, over, or too many.
RejectMove ==
  /\ Takes("move")
  /\ Reduce(Settled(Rejected(client), Tail(inbox)))
  /\ inbox' = Tail(inbox)
  /\ UNCHANGED <<serverVars, connected, member, serving, orphan, stale, faults>>

\* `game.move.accepted` follows the broadcast.
AnswerMove ==
  /\ serving.kind = "move" /\ stage[serving.snap] = "done"
  /\ serving' = Idle
  /\ Reduce(Settled(Applied(client, serving.snap, EndsWith(serving.snap)), inbox))
  /\ UNCHANGED <<serverVars, connected, member, inbox, orphan, stale, faults>>

\* REQUEST_TIMEOUT_MS over a socket that stays open.
EnterTimesOut ==
  /\ Fault
  /\ connected /\ client.entering # "no"
  /\ Reduce(Disconnected(client))
  /\ UNCHANGED <<serverVars, linkVars, stale>>

SubmitTimesOut ==
  /\ Fault
  /\ connected /\ client.moving
  /\ Reduce([Resyncing(client) EXCEPT !.moving = FALSE])
  /\ UNCHANGED <<serverVars, linkVars, stale>>

-----------------------------------------------------------------------------

Serve ==
  \/ JoinRoom \/ RefuseJoin
  \/ BeginResume \/ AnswerSnapshot \/ AnswerCurrent \/ AnswerEvents \/ AnswerResync
  \/ AcceptMove \/ RejectMove \/ AnswerMove

Next ==
  \/ OpponentMoves \/ OrphanMoves \/ Finish
  \/ \E p \in Plies : Buffer(p) \/ Deliver(p)
  \/ \E p \in Plies : BufferFails(p) \/ DeliveryFails(p) \/ BroadcastFails(p)
  \/ Announce \/ AnnounceFails
  \/ Connect \/ Drop
  \/ LoseBuffer \/ LoseRoom
  \/ Submit \/ EnterTimesOut \/ SubmitTimesOut
  \/ Render \/ Resynchronise
  \/ Serve

Spec == Init /\ [][Next]_vars

\* Fairness: handlers that were not cut off get on, and the read loop serves
\* what it has received; the browser renders, and runs the effects of it.  No
\* player has to move, connect or stay.
Fairness ==
  /\ \A p \in Plies : WF_vars(Buffer(p)) /\ WF_vars(Deliver(p))
  /\ WF_vars(Announce)
  /\ WF_vars(Serve)
  /\ WF_vars(Render) /\ WF_vars(Resynchronise)

FairSpec == Spec /\ Fairness

-----------------------------------------------------------------------------
(* Properties *)

Requested == Resuming \/ \E request \in Queued : request.kind \in {"resume", "resync"}

\* The effect is due, or will be with the next render.
WillAsk == page.due \/ Asks(client)

\* A board that knows it missed something has asked: however frames, answers
\* and refusals interleave with renders, a resyncing client has a request for a
\* whole snapshot on its way, or the effect that sends one; nothing else would
\* ever end that phase.  Exempt is a gap that no render saw.
ResyncIsAsked ==
  connected /\ client.phase = "resyncing" /\ ~unseen =>
    (Resuming /\ serving.known = 0) \/ AskedAnew \/ WillAsk

\* "No silent partial recovery": once a client has entered, every move it has not
\* seen is still to be delivered to it, or a resume that will show it is on its
\* way.  Exempt are a failed append or delivery, a snapshot that was read before a
\* frame and answered after it, and a gap that no render saw: there nobody asks.
NothingMissedSilently ==
  connected /\ client.entering = "no" /\ over = "no" /\ faults = 0 /\ ~stale /\ ~unseen =>
    Requested \/ WillAsk \/ \A p \in 1..ply : stage[p] = "done" => p <= client.seq

Undisturbed == connected /\ faults = 0 /\ ~stale

\* Entering ends: a page that says "joining" leaves it, also when the resume
\* found nothing to replay yet.  (What is so again and again is a state that
\* nothing stays out of for ever.)
EntryEnds ==
  []<>(Undisturbed => client.phase # "joining")

\* A connected client sees every move of a match that goes on, if its gaps were
\* rendered.
CatchesUp ==
  \A p \in Plies :
    []<>(Undisturbed /\ ~unseen /\ over = "no" /\ ply >= p => client.seq >= p)

\* A client that was in the room when the match ended learns that it did.  One
\* that connects afterwards is refused the room, and never asks.
EndIsLearnt ==
  []<>(Undisturbed /\ ~unseen /\ member /\ over # "no" => client.knows)
=============================================================================
