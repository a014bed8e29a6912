------------------------------- MODULE LiveMatch -------------------------------
(***************************************************************************)
(* One match of `game`, from its creation to its result: the acceptance     *)
(* handshake, moves and participant commands of several API requests in     *)
(* flight, the clock, the deadline kept in Redis and the periodic tasks     *)
(* that adjudicate, reconcile and expire.                                   *)
(*                                                                         *)
(* A move or a command writes Redis before its transaction commits, so it   *)
(* is two steps: the transaction's own view of the row is `draft` while     *)
(* `holder` has the row lock.  Every other transaction is one step.         *)
(* Instants are counted from the match's creation.                          *)
(***************************************************************************)
EXTENDS Integers

CONSTANTS
  Handler,      \* API requests that can be in flight at once
  Adjudicator, Reconciler, Sweeper,  \* instances of each periodic task
  NoHandler,
  Timings,      \* which of {TRUE, FALSE} a created match may be timed
  Initial, Increment,   \* the time control
  Window,       \* acceptance_deadline, counted from the creation
  Requests,     \* bound: what players ask for
  MaxPly,       \* bound: plies of a game
  MaxNow,       \* bound: how long the match is observed
  MaxFaults     \* bound: lost transactions, tokens, Redis writes and data

Side == {"light", "dark"}
Nobody == "nobody"
Opponent(s) == IF s = "light" THEN "dark" ELSE "light"

Answers == {"accept", "decline"}
Commands == {"resign", "offer_draw", "accept_draw", "decline_draw"}

ASSUME MatchAssumption ==
  /\ NoHandler \notin Handler
  /\ Timings \subseteq BOOLEAN
  /\ Initial \in Nat \ {0} /\ Increment \in Nat /\ Window \in Nat \ {0}
  /\ Requests \subseteq Answers \cup Commands \cup {"move"}
  /\ MaxPly \in Nat /\ MaxNow \in Nat /\ MaxFaults \in Nat

VARIABLES
  now,
  row,        \* game.match, as committed
  holder,     \* the request whose open transaction holds the row lock
  draft,      \* the row as that transaction has written it
  announced,  \* how often each lifecycle event was committed to the outbox
  told,       \* sides whose MatchAcceptedByPlayer was committed
  call,       \* the requests in flight
  deadline,   \* clock:v1:deadlines: the match's one member
  token,      \* the deadline an adjudicator claimed and has not settled
  reread,     \* the deadline a reconciler derived and has not written
  overdue,    \* the row a sweeper claimed and has not settled
  answeredAt, \* history: the ply at which a side's last offer was turned down
  faults

requestVars == <<holder, draft, call>>
taskVars == <<token, reread, overdue>>
vars == <<now, row, holder, draft, announced, told, call, deadline, token, reread,
          overdue, answeredAt, faults>>

Status == {"absent", "pending_acceptance", "active", "completed", "cancelled", "expired"}
Reason == {"none", "play", "draw", "resignation", "agreement", "flag", "abort"}
Offer == [by : Side \cup {Nobody}, ply : Nat]
Row == [status : Status, timed : BOOLEAN, accepted : SUBSET Side, ply : Nat,
        settled : Nat, left : [Side -> Nat], started : Nat, offer : Offer, from : [Side -> Nat],
        reason : Reason, winner : Side \cup {Nobody}]
Deadline == [side : Side \cup {Nobody}, ply : Nat, at : Nat]
Token == [stage : {"none", "claimed", "settled"}, side : Side, ply : Nat, at : Nat]
Call == [stage : {"idle", "received", "answered"},
         request : Requests \cup {"none"}, side : Side, at : Nat]
Lifecycle == {"created", "activated", "declined", "expired", "completed"}

NoOffer == [by |-> Nobody, ply |-> 0]
NoDeadline == [side |-> Nobody, ply |-> 0, at |-> 0]
NoToken == [stage |-> "none", side |-> "light", ply |-> 0, at |-> 0]
NoCall == [stage |-> "idle", request |-> "none", side |-> "light", at |-> 0]
NoMatch == [status |-> "absent", timed |-> FALSE, accepted |-> {}, ply |-> 0,
            settled |-> 0, left |-> [s \in Side |-> 0], started |-> 0, offer |-> NoOffer,
            from |-> [s \in Side |-> 0], reason |-> "none", winner |-> Nobody]
NotOverdue == [read |-> NoMatch, at |-> 0]

TypeOK ==
  /\ now \in Nat
  /\ row \in Row /\ draft \in Row
  /\ holder \in Handler \cup {NoHandler}
  /\ announced \in [Lifecycle -> Nat]
  /\ told \subseteq Side
  /\ call \in [Handler -> Call]
  /\ deadline \in Deadline
  /\ token \in [Adjudicator -> Token]
  /\ reread \in [Reconciler -> Deadline]
  /\ overdue \in [Sweeper -> [read : Row, at : Nat]]
  /\ answeredAt \in [Side -> Int]
  /\ faults \in 0..MaxFaults

Init ==
  /\ now = 0
  /\ row = NoMatch /\ draft = NoMatch
  /\ holder = NoHandler
  /\ announced = [k \in Lifecycle |-> 0]
  /\ told = {}
  /\ call = [h \in Handler |-> NoCall]
  /\ deadline = NoDeadline
  /\ token = [a \in Adjudicator |-> NoToken]
  /\ reread = [r \in Reconciler |-> NoDeadline]
  /\ overdue = [w \in Sweeper |-> NotOverdue]
  /\ answeredAt = [s \in Side |-> -1]
  /\ faults = 0

-----------------------------------------------------------------------------
(* The clock *)

\* Whose turn it is after `ply` plies: LIGHT moves on odd plies.
ActiveSide(ply) == IF ply % 2 = 0 THEN "light" ELSE "dark"
Running(r) == ActiveSide(r.ply)

FlagsAt(r) == r.started + r.left[Running(r)]
HasFlagged(r, at) == r.timed /\ at > FlagsAt(r)

ElapsedMs(r, at) == IF at > r.started THEN at - r.started ELSE 0

\* Charge, then credit: the side that moves pays what it spent, floored at
\* zero, and earns the increment.
Charged(r, at) ==
  LET kept == r.left[Running(r)] - ElapsedMs(r, at) IN
  IF ~r.timed THEN r
  ELSE [r EXCEPT
    !.left = [s \in Side |-> IF s # Running(r) THEN r.left[s]
                             ELSE Increment + IF kept > 0 THEN kept ELSE 0],
    !.started = at]

-----------------------------------------------------------------------------
(* Draw agreement *)

\* Mutant of NextPlyOf: the next ply, whoever plays it.
NextPly(s, after) == after + 1

\* The earliest ply after `after` on which s could move.
NextPlyOf(s, after) == IF ActiveSide(after) = s THEN after + 1 ELSE after + 2

MayOffer(r, s) == r.offer.by = Nobody /\ r.ply >= r.from[s]

Resolved(r, ply) ==
  [r EXCEPT
    !.offer = NoOffer,
    !.from = [s \in Side |-> IF s = r.offer.by THEN NextPlyOf(Opponent(s), ply)
                             ELSE r.from[s]]]

\* Mutant of AfterMoveBy: an offer stands until somebody answers it in words.
OfferSurvives(r, s) == r

\* Playing on answers an offer: it is the recipient's refusal.
AfterMoveBy(r, s) == IF r.offer.by = Opponent(s) THEN Resolved(r, r.ply + 1) ELSE r

-----------------------------------------------------------------------------
(* Transitions of the record *)

Started(r, at) ==
  [r EXCEPT !.status = "active",
            !.settled = at,
            !.left = [s \in Side |-> IF r.timed THEN Initial ELSE 0],
            !.started = IF r.timed THEN at ELSE 0]

AcceptedBy(r, s, at) ==
  LET accepted == [r EXCEPT !.accepted = r.accepted \cup {s}] IN
  IF accepted.accepted = Side THEN Started(accepted, at) ELSE accepted

Completed(r, reason, winner) ==
  [r EXCEPT !.status = "completed", !.reason = reason, !.winner = winner,
            !.offer = NoOffer, !.from = [s \in Side |-> 0]]

\* What a legal move by s may leave: the game goes on, the mover has won, or
\* the position is drawn.
Played(r, s, at) ==
  LET moved == [Charged(AfterMoveBy(r, s), at) EXCEPT !.ply = r.ply + 1] IN
  {moved, Completed(moved, "play", s), Completed(moved, "draw", Nobody)}

\* A request by s answers an offer its opponent made.
Answerable(r, s) == r.offer.by = Opponent(s)

Applied(r, command, s) ==
  CASE command = "resign" -> Completed(r, "resignation", Opponent(s))
    [] command = "offer_draw" -> [r EXCEPT !.offer = [by |-> s, ply |-> r.ply]]
    [] command = "accept_draw" -> Completed(r, "agreement", Nobody)
    [] command = "decline_draw" -> Resolved(r, r.ply)

Permitted(r, command, s) ==
  CASE command = "resign" -> TRUE
    [] command = "offer_draw" -> MayOffer(r, s)
    [] OTHER -> Answerable(r, s)

\* The ply at which the offer of r is turned down on the way to `next`.
TurnedDown(r, next) ==
  [s \in Side |-> IF s = r.offer.by /\ next.offer.by = Nobody THEN next.ply ELSE answeredAt[s]]

-----------------------------------------------------------------------------
(* The deadline in Redis *)

DeadlineOf(r) == [side |-> Running(r), ply |-> r.ply, at |-> FlagsAt(r)]

Fault == faults < MaxFaults /\ faults' = faults + 1

\* A write to the deadline store: never raises, so it may silently not happen.
Store(d) ==
  \/ deadline' = d /\ UNCHANGED faults
  \/ UNCHANGED deadline /\ Fault

-----------------------------------------------------------------------------
(* Creation and the acceptance handshake *)

Announce(k) == announced' = [announced EXCEPT ![k] = announced[k] + 1]

CreateMatch(timed, at) ==
  Started([NoMatch EXCEPT !.timed = timed], at)

\* AcceptancePolicy.PLAYERS: the match waits for both players.
CreatePending(timed) ==
  /\ row.status = "absent" /\ now = 0
  /\ row' = [CreateMatch(timed, now) EXCEPT !.status = "pending_acceptance", !.settled = 0]
  /\ draft' = row'
  /\ Announce("created")
  /\ UNCHANGED <<now, holder, told, call, deadline, taskVars, answeredAt, faults>>

\* AcceptancePolicy.SYSTEM: active at once, and nothing schedules a deadline.
CreateActive(timed) ==
  /\ row.status = "absent" /\ now = 0
  /\ row' = [CreateMatch(timed, now) EXCEPT !.accepted = Side]
  /\ draft' = row'
  /\ announced' = [announced EXCEPT !["created"] = @ + 1, !["activated"] = @ + 1]
  /\ UNCHANGED <<now, holder, told, call, deadline, taskVars, answeredAt, faults>>

\* A request reaches the gateway or the route, which stamps its instant
\* before anything it may have to wait for.
Receive(h, request, s) ==
  /\ row.status # "absent"
  /\ call[h].stage = "idle"
  /\ call' = [call EXCEPT ![h] =
       [stage |-> "received", request |-> request, side |-> s, at |-> now]]
  /\ UNCHANGED <<now, row, holder, draft, announced, told, deadline, taskVars,
                 answeredAt, faults>>

\* It is refused, finds nothing to do, or its process dies first.
Refuse(h) ==
  /\ call[h].stage # "idle" /\ holder # h
  /\ call' = [call EXCEPT ![h] = NoCall]
  /\ UNCHANGED <<now, row, holder, draft, announced, told, deadline, taskVars,
                 answeredAt, faults>>

Unlocked == holder = NoHandler

IsOpen(r, at) == r.status = "pending_acceptance" /\ at <= Window

\* `_respond`, accepting: one transaction, then the deadline outside it.
Accept(h) ==
  LET s == call[h].side  next == AcceptedBy(row, s, call[h].at) IN
  /\ call[h].stage = "received" /\ call[h].request = "accept"
  /\ Unlocked
  /\ IsOpen(row, call[h].at) /\ s \notin row.accepted
  /\ row' = next /\ draft' = next
  /\ IF next.status = "active" THEN Announce("activated") /\ UNCHANGED told
     ELSE told' = told \cup {s} /\ UNCHANGED announced
  /\ call' = [call EXCEPT ![h] =
       IF next.status = "active" /\ next.timed THEN [call[h] EXCEPT !.stage = "answered"]
       ELSE NoCall]
  /\ UNCHANGED <<now, holder, deadline, taskVars, answeredAt, faults>>

Decline(h) ==
  /\ call[h].stage = "received" /\ call[h].request = "decline"
  /\ Unlocked
  /\ IsOpen(row, call[h].at)
  /\ row' = [row EXCEPT !.status = "cancelled", !.settled = call[h].at] /\ draft' = row'
  /\ Announce("declined")
  /\ call' = [call EXCEPT ![h] = NoCall]
  /\ UNCHANGED <<now, holder, told, deadline, taskVars, answeredAt, faults>>

\* `_open_the_clock`, after the acceptance committed: the deadline of the
\* record it activated, whatever has been played since.
OpenTheClock(h) ==
  /\ call[h].stage = "answered"
  /\ Store([side |-> "light", ply |-> 0, at |-> call[h].at + Initial])
  /\ call' = [call EXCEPT ![h] = NoCall]
  /\ UNCHANGED <<now, row, holder, draft, announced, told, taskVars, answeredAt>>

\* Mutant of ClaimOverdue: only a match nobody answered counts as overdue.
ClaimUnanswered(w) ==
  /\ overdue[w].read.status = "absent"
  /\ Unlocked
  /\ row.status = "pending_acceptance" /\ row.accepted = {} /\ Window <= now
  /\ overdue' = [overdue EXCEPT ![w] = [read |-> row, at |-> now]]
  /\ UNCHANGED <<now, row, requestVars, announced, told, deadline, token, reread,
                 answeredAt, faults>>

\* The expiry sweep's first transaction: SKIP LOCKED, committed at once.
ClaimOverdue(w) ==
  /\ overdue[w].read.status = "absent"
  /\ Unlocked
  /\ row.status = "pending_acceptance" /\ Window <= now
  /\ overdue' = [overdue EXCEPT ![w] = [read |-> row, at |-> now]]
  /\ UNCHANGED <<now, row, requestVars, announced, told, deadline, token, reread,
                 answeredAt, faults>>

\* Mutant of Expire: the write does not ask whether the match is still pending.
ExpireRegardless(w) ==
  /\ overdue[w].read.status # "absent" /\ Unlocked
  /\ row' = [overdue[w].read EXCEPT !.status = "expired", !.settled = overdue[w].at]
  /\ draft' = row'
  /\ Announce("expired")
  /\ overdue' = [overdue EXCEPT ![w] = NotOverdue]
  /\ UNCHANGED <<now, holder, told, call, deadline, token, reread, answeredAt, faults>>

\* Its second: what was read is written back, if the row is still pending.
Expire(w) ==
  /\ overdue[w].read.status # "absent" /\ Unlocked
  /\ row.status = "pending_acceptance"
  /\ row' = [overdue[w].read EXCEPT !.status = "expired", !.settled = overdue[w].at]
  /\ draft' = row'
  /\ Announce("expired")
  /\ overdue' = [overdue EXCEPT ![w] = NotOverdue]
  /\ UNCHANGED <<now, holder, told, call, deadline, token, reread, answeredAt, faults>>

\* Somebody settled the match in between, or the batch's transaction fails.
ExpireNot(w) ==
  /\ overdue[w].read.status # "absent"
  /\ IF row.status = "pending_acceptance" THEN Fault ELSE Unlocked /\ UNCHANGED faults
  /\ overdue' = [overdue EXCEPT ![w] = NotOverdue]
  /\ UNCHANGED <<now, row, requestVars, announced, told, deadline, token, reread,
                 answeredAt>>

-----------------------------------------------------------------------------
(* Moves and commands: lock, write, touch Redis, then commit *)

\* The open transaction of h has written `next`; Redis is told before the
\* commit: a new deadline, or none once the match is over.
Write(h, next) ==
  /\ holder' = h
  /\ draft' = next
  /\ UNCHANGED <<now, row, announced, told, call, taskVars, answeredAt>>

\* Mutant of Move: the flag is not looked at.
MoveAfterFlag(h) ==
  /\ call[h].stage = "received" /\ call[h].request = "move"
  /\ Unlocked
  /\ row.status = "active" /\ row.ply < MaxPly
  /\ call[h].side = Running(row)
  /\ \E next \in Played(row, call[h].side, call[h].at) :
       /\ Write(h, next)
       /\ IF ~row.timed THEN UNCHANGED <<deadline, faults>>
          ELSE Store(IF next.status = "active" THEN DeadlineOf(next) ELSE NoDeadline)

\* `LiveMoveService.submit`.
Move(h) ==
  /\ call[h].stage = "received" /\ call[h].request = "move"
  /\ Unlocked
  /\ row.status = "active" /\ row.ply < MaxPly
  /\ call[h].side = Running(row)
  /\ ~HasFlagged(row, call[h].at)
  /\ \E next \in Played(row, call[h].side, call[h].at) :
       /\ Write(h, next)
       /\ IF ~row.timed THEN UNCHANGED <<deadline, faults>>
          ELSE Store(IF next.status = "active" THEN DeadlineOf(next) ELSE NoDeadline)

\* `GameCommandService.execute`: any participant, whoever's turn it is and
\* whatever the clock says.
Command(h) ==
  LET next == Applied(row, call[h].request, call[h].side) IN
  /\ call[h].stage = "received" /\ call[h].request \in Commands
  /\ Unlocked
  /\ row.status = "active"
  /\ Permitted(row, call[h].request, call[h].side)
  /\ Write(h, next)
  /\ IF next.status = "active" \/ ~row.timed THEN UNCHANGED <<deadline, faults>>
     ELSE Store(NoDeadline)

\* The caller commits: the row, the move and the events together.
Commit(h) ==
  /\ holder = h
  /\ row' = draft
  /\ IF draft.status = "completed" THEN Announce("completed") ELSE UNCHANGED announced
  /\ holder' = NoHandler
  /\ call' = [call EXCEPT ![h] = NoCall]
  /\ answeredAt' = TurnedDown(row, draft)
  /\ UNCHANGED <<now, draft, told, deadline, taskVars, faults>>

\* The transaction is lost between its Redis write and its commit.
Rollback(h) ==
  /\ holder = h
  /\ Fault
  /\ draft' = row
  /\ holder' = NoHandler
  /\ call' = [call EXCEPT ![h] = NoCall]
  /\ UNCHANGED <<now, row, announced, told, deadline, taskVars, answeredAt>>

\* An administrator or a tournament ends a live match; its deadline stays.
Abort ==
  /\ Unlocked
  /\ row.status = "active"
  /\ row' = Completed(row, "abort", Nobody) /\ draft' = row'
  /\ Announce("completed")
  /\ UNCHANGED <<now, holder, told, call, deadline, taskVars, answeredAt, faults>>

-----------------------------------------------------------------------------
(* The periodic tasks *)

\* Mutant of ClaimExpired: an empty set yields a token all the same.
ClaimNothing(a) ==
  /\ token[a].stage = "none"
  /\ deadline.at <= now
  /\ token' = [token EXCEPT ![a] =
       [stage |-> "claimed", side |-> deadline.side, ply |-> deadline.ply, at |-> now]]
  /\ deadline' = NoDeadline
  /\ UNCHANGED <<now, row, requestVars, announced, told, reread, overdue, answeredAt, faults>>

\* One script: range and remove together.
ClaimExpired(a) ==
  /\ token[a].stage = "none"
  /\ deadline.side # Nobody /\ deadline.at <= now
  /\ token' = [token EXCEPT ![a] =
       [stage |-> "claimed", side |-> deadline.side, ply |-> deadline.ply, at |-> now]]
  /\ deadline' = NoDeadline
  /\ UNCHANGED <<now, row, requestVars, announced, told, reread, overdue, answeredAt, faults>>

\* Mutants of IsCurrent: the token is taken to prove that a clock ran out; a
\* match that is over is settled again.
CurrentByVersion(t) ==
  row.status = "active" /\ row.ply = t.ply /\ row.timed /\ Running(row) = t.side
CurrentWhateverStatus(t) ==
  row.ply = t.ply /\ row.timed /\ Running(row) = t.side /\ HasFlagged(row, t.at)

IsCurrent(t) ==
  /\ row.status = "active"
  /\ row.ply = t.ply
  /\ row.timed
  /\ Running(row) = t.side
  /\ HasFlagged(row, t.at)

\* `_settle`: the side the token names has lost on time.
Flag(a) ==
  /\ token[a].stage = "claimed" /\ Unlocked
  /\ IsCurrent(token[a])
  /\ row' = Completed(row, "flag", Opponent(token[a].side)) /\ draft' = row'
  /\ Announce("completed")
  /\ token' = [token EXCEPT ![a].stage = "settled"]
  /\ UNCHANGED <<now, holder, told, call, deadline, reread, overdue, answeredAt, faults>>

\* `_forget`, after the commit: another member may have been written since.
Forget(a) ==
  /\ token[a].stage = "settled"
  /\ Store(NoDeadline)
  /\ token' = [token EXCEPT ![a] = NoToken]
  /\ UNCHANGED <<now, row, requestVars, announced, told, reread, overdue, answeredAt>>

\* Superseded, and dropped; a failure drops a current one just as well.
DropToken(a) ==
  /\ token[a].stage = "claimed" /\ Unlocked
  /\ IF IsCurrent(token[a]) THEN Fault ELSE UNCHANGED faults
  /\ token' = [token EXCEPT ![a] = NoToken]
  /\ UNCHANGED <<now, row, requestVars, announced, told, deadline, reread, overdue, answeredAt>>

\* Mutant of Reread: only a game in which somebody has moved is read.
RereadPlayed(r) ==
  /\ reread[r].side = Nobody
  /\ row.status = "active" /\ row.timed /\ row.ply > 0
  /\ reread' = [reread EXCEPT ![r] = DeadlineOf(row)]
  /\ UNCHANGED <<now, row, requestVars, announced, told, deadline, token, overdue,
                 answeredAt, faults>>

\* The reconciler reads the committed row without a lock ...
Reread(r) ==
  /\ reread[r].side = Nobody
  /\ row.status = "active" /\ row.timed
  /\ reread' = [reread EXCEPT ![r] = DeadlineOf(row)]
  /\ UNCHANGED <<now, row, requestVars, announced, told, deadline, token, overdue,
                 answeredAt, faults>>

\* ... and replaces whatever the store holds by then.
Reschedule(r) ==
  /\ reread[r].side # Nobody
  /\ Store(reread[r])
  /\ reread' = [reread EXCEPT ![r] = NoDeadline]
  /\ UNCHANGED <<now, row, requestVars, announced, told, token, overdue, answeredAt>>

\* Redis loses the sorted set.
LoseDeadlines ==
  /\ deadline.side # Nobody
  /\ Fault
  /\ deadline' = NoDeadline
  /\ UNCHANGED <<now, row, requestVars, announced, told, taskVars, answeredAt>>

Tick ==
  /\ row.status # "absent" /\ now < MaxNow
  /\ now' = now + 1
  /\ UNCHANGED <<row, requestVars, announced, told, deadline, taskVars, answeredAt, faults>>

Request ==
  \E h \in Handler :
    \/ \E request \in Requests, s \in Side : Receive(h, request, s)
    \/ Refuse(h)
    \/ Accept(h) \/ Decline(h) \/ OpenTheClock(h)
    \/ Move(h) \/ Command(h) \/ Commit(h) \/ Rollback(h)

Task ==
  \/ \E a \in Adjudicator : ClaimExpired(a) \/ Flag(a) \/ Forget(a) \/ DropToken(a)
  \/ \E r \in Reconciler : Reread(r) \/ Reschedule(r)
  \/ \E w \in Sweeper : ClaimOverdue(w) \/ Expire(w) \/ ExpireNot(w)

Next ==
  \/ \E timed \in Timings : CreatePending(timed) \/ CreateActive(timed)
  \/ Request
  \/ Task
  \/ Abort
  \/ LoseDeadlines
  \/ Tick

Spec == Init /\ [][Next]_vars

\* Fairness: the schedulers run every periodic task again and again and a task
\* takes its next step, an open transaction ends, and time passes.  Nothing is
\* assumed of the players, nor of the request that has a clock to open.
Fairness ==
  /\ WF_vars(Tick)
  /\ \A h \in Handler : WF_vars(Commit(h))
  /\ \A a \in Adjudicator :
       WF_vars(ClaimExpired(a)) /\ WF_vars(Flag(a)) /\ WF_vars(Forget(a)) /\ WF_vars(DropToken(a))
  /\ \A r \in Reconciler : WF_vars(Reread(r)) /\ WF_vars(Reschedule(r))
  /\ \A w \in Sweeper :
       WF_vars(ClaimOverdue(w)) /\ WF_vars(Expire(w)) /\ WF_vars(ExpireNot(w))

FairSpec == Spec /\ Fairness

-----------------------------------------------------------------------------
(* Properties *)

Reached(k) ==
  CASE k = "created"   -> Status \ {"absent"}
    [] k = "activated" -> {"active", "completed"}
    [] k = "declined"  -> {"cancelled"}
    [] k = "expired"   -> {"expired"}
    [] k = "completed" -> {"completed"}

\* Every lifecycle event is published exactly once for the state it announces
\* and never for another: two adjudicators, a resignation, an abort and a
\* winning move may race, and rating, statistics and tournaments still hear of
\* one completion.
AnnouncedAsSettled ==
  \A k \in Lifecycle : announced[k] = IF row.status \in Reached(k) THEN 1 ELSE 0

\* A flag falls only on the side to move, whose time ran out by the row it was
\* written on: a deadline may have been written by a transaction that rolled
\* back, derived from a stale read, or claimed before the move that superseded
\* it committed.  It does not say that no move of that side had been received:
\* one that was, in time, may wait for the row while the adjudicator, whose
\* instant is its own, writes the flag.
FlagFollowsTheRow ==
  row.reason = "flag" =>
    /\ row.timed
    /\ row.winner = Opponent(Running(row))
    /\ now > FlagsAt(row)

\* No order in which moves are received and committed gives the players more
\* time than their budgets and the increments they earned.
NoTimeIsCreated ==
  row.timed /\ row.status \in {"active", "completed"} =>
    row.left["light"] + row.left["dark"] + (row.started - row.settled)
      <= 2 * Initial + Increment * row.ply

\* An offer that stands was not played past: its recipient has not moved
\* since it was made, and the game is on.
OfferIsFresh ==
  row.offer.by # Nobody =>
    /\ row.status = "active"
    /\ \A p \in row.offer.ply .. row.ply - 1 : ActiveSide(p) = row.offer.by

\* A refused offer is not repeated before the opponent has completed one more
\* move, whether it was refused in words or by playing on.
NoRepeatedOffer ==
  [][\A s \in Side :
       row.offer.by # s /\ row'.offer.by = s /\ answeredAt[s] # -1 =>
         \E p \in answeredAt[s] .. row.ply - 1 : ActiveSide(p) = Opponent(s)]_vars

\* A clock that has run out ends its match, unless a move received in time was
\* still on its way: lost deadlines, lost tokens, failed writes and stale
\* rewrites only delay it.
FlaggedNow == row.status = "active" /\ HasFlagged(row, now)
EveryFlagFalls == FlaggedNow ~> ~FlaggedNow

\* No match waits for its players for ever.
EveryMatchIsAnswered ==
  row.status = "pending_acceptance" ~> row.status # "pending_acceptance"

\* "Somebody answered between the claim and this write ... their answer
\* stands": an acceptance that was announced is not taken back.
AcceptanceKept == row.status # "absent" => told \subseteq row.accepted

\* Whatever the requests, the tasks and Redis do, consumers see the life of a
\* match that MatchLife describes.
Phase ==
  CASE row.status = "absent" -> "absent"
    [] row.status = "pending_acceptance" -> "proposed"
    [] row.status = "active" -> "playing"
    [] row.status = "completed" -> "over"
    [] OTHER -> "void"

Life == INSTANCE MatchLife WITH
  Result <- (Reason \ {"none"}) \X (Side \cup {Nobody}),
  NoResult <- <<"none", Nobody>>,
  phase <- Phase,
  result <- <<row.reason, row.winner>>,
  heard <- [created |-> announced["created"], activated |-> announced["activated"],
            voided |-> announced["declined"] + announced["expired"],
            completed |-> announced["completed"]]

LifeSpec == Life!Spec
=============================================================================
