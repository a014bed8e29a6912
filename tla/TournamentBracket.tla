--------------------------- MODULE TournamentBracket ---------------------------
(***************************************************************************)
(* One tournament from its start to its champion.  Four kinds of worker     *)
(* write the bracket: whoever starts it, the consumer of MatchCompleted,    *)
(* the no-show sweep and the reconciler.  They share three routines (launch *)
(* matches, apply a result, advance a winner), and each routine is several  *)
(* transactions, between which any other worker may run and a worker may    *)
(* die.  One transaction is one action; `call[w]` is what worker w does     *)
(* next and what it remembers.                                              *)
(*                                                                         *)
(* `create_match` commits the session it shares with its caller, so what a  *)
(* caller staged before it is committed with the match, and the attempt     *)
(* that records the match only with the next commit.                        *)
(***************************************************************************)
EXTENDS Integers, FiniteSets

CONSTANTS
  Nodes,        \* the coordinates <<round, slot>> of the bracket
  Seats,        \* Seats[n]: the pair drawn into node n of the first round
  Starter, Deliverer, Reconciler, Sweeper,  \* the workers
  Fallible,     \* those of them that may die or be cancelled
  Results,      \* bound: Results[n], how the games of node n may end
  Missable,     \* bound: the nodes whose players may miss their match, which
                \* are the nodes the no-show sweep looks at
  MaxCrashes    \* bound

\* A player is known by their seed, 1 being the strongest.
Nobody == 0
Side == {"light", "dark"}
Result == {"light", "dark", "drawn"}
Number == 1..2        \* FIRST_ATTEMPT..MAX_ATTEMPTS
Attempts == Nodes \X Number
Worker == Starter \cup Deliverer \cup Reconciler \cup Sweeper

FirstRound == {n \in Nodes : n[1] = 1}
Rounds == {n[1] : n \in Nodes}
Parent(n) == <<n[1] + 1, n[2] \div 2>>
SeatOfParent(n) == IF n[2] % 2 = 0 THEN "light" ELSE "dark"
Children(n) == {c \in Nodes : Parent(c) = n}

ASSUME BracketAssumption ==
  /\ Nodes # {} /\ Nodes \subseteq (Nat \ {0}) \X Nat
  /\ \A n \in Nodes : n[1] > 1 =>
       {<<n[1] - 1, 2 * n[2]>>, <<n[1] - 1, 2 * n[2] + 1>>} \subseteq Nodes
  /\ Seats \in [FirstRound -> [Side -> Nat]]
  /\ \A n \in FirstRound : \E s \in Side : Seats[n][s] # Nobody
  /\ \A m, n \in FirstRound, s, t \in Side :
       Seats[m][s] = Seats[n][t] /\ Seats[m][s] # Nobody => m = n /\ s = t
  /\ Fallible \subseteq Worker /\ Missable \subseteq Nodes
  /\ Results \in [Nodes -> SUBSET Result]
  /\ MaxCrashes \in Nat

VARIABLES
  status,       \* tournament.status
  round,        \* round[r]: tournament.round.status
  node,         \* node[n]: tournament.pairing, its seats, winner and reason
  attempt,      \* attempt[a]: tournament.pairing_attempt, a = <<node, number>>
  game,         \* game[a]: the match of that attempt in `game`
  owed,         \* the MatchCompleted events the outbox has still to deliver
  call,
  crashes

vars == <<status, round, node, attempt, game, owed, call, crashes>>

RoundStatus == {"pending", "published", "started", "completed"}
Reason == {"none", "played", "bye", "adjudication"}
Node == [seat : [Side -> Nat], winner : Nat, reason : Reason]
Attempt == [outcome : {"absent", "open", "decisive", "draw", "no_show"}, winner : Nat,
            timed : BOOLEAN]
Game == {"none", "live", "aborted"} \cup Result

\* at: the next transaction; of: the attempt it is about; present: the
\* attendance a sweep claimed; made, plans: the match created last and those
\* still to create; records, applies: what a repair has left; was: the status
\* of the round and of the next one, as a progression read them.
Call == [at : {"idle", "record", "advance", "progress", "open", "launch", "finish",
               "handled", "repair", "claimed", "absence", "close", "walkover"},
         of : Attempts, present : SUBSET Side, made : SUBSET Attempts,
         plans : SUBSET Attempts, records : SUBSET Number, applies : SUBSET Number,
         was : [this : RoundStatus, next : RoundStatus]]

NoAttempt == [outcome |-> "absent", winner |-> Nobody, timed |-> FALSE]
Idle == [at |-> "idle", of |-> CHOOSE a \in Attempts : TRUE, present |-> {}, made |-> {},
         plans |-> {}, records |-> {}, applies |-> {},
         was |-> [this |-> "pending", next |-> "pending"]]

TypeOK ==
  /\ status \in {"registration_closed", "in_progress", "completed"}
  /\ round \in [Rounds -> RoundStatus]
  /\ node \in [Nodes -> Node]
  /\ attempt \in [Attempts -> Attempt]
  /\ game \in [Attempts -> Game]
  /\ owed \subseteq Attempts
  /\ call \in [Worker -> Call]
  /\ crashes \in 0..MaxCrashes

-----------------------------------------------------------------------------
(* The bracket *)

Participants(b) == {b.seat[s] : s \in Side} \ {Nobody}
NeedsAMatch(n) ==
  node[n].winner = Nobody /\ \A s \in Side : node[n].seat[s] # Nobody

\* Nobody else can come: each child was won, or holds no player at all.
ChildrenSettled(bracket, n) ==
  n[1] > 1 =>
    \A c \in Children(n) : bracket[c].winner # Nobody \/ Participants(bracket[c]) = {}

\* participants[0]
Sole(seat) == IF seat["light"] # Nobody THEN seat["light"] ELSE seat["dark"]

\* A bracket in which n was won by p, and the nodes `byes` were won by whoever
\* was alone in them; each winner takes the seat of the parent, if it is empty.
Advanced(n, p, why, byes) ==
  [m \in Nodes |->
     LET seat == [s \in Side |->
           IF node[m].seat[s] = Nobody /\ \E c \in Children(m) \cap (byes \cup {n}) :
                SeatOfParent(c) = s
           THEN p ELSE node[m].seat[s]]
     IN CASE m = n    -> [node[m] EXCEPT !.winner = p, !.reason = why]
          [] m \in byes \ {n} -> [seat |-> seat, winner |-> Sole(seat), reason |-> "bye"]
          [] OTHER    -> [node[m] EXCEPT !.seat = seat]]

\* The byes a scan from the first round up finds.  No transaction leaves one
\* unclaimed, so they are ancestors of n, which p goes through.
Byes(n, bracket) ==
  {m \in Nodes \ {n} : /\ node[m].winner = Nobody
                       /\ Cardinality(Participants(bracket[m])) = 1
                       /\ ChildrenSettled(bracket, m)}

\* Mutant of Unclaimed: the winner is written without comparing.
UnclaimedBy(n, p) == node[n].winner # p
Unclaimed(n, p) == node[n].winner = Nobody

ClaimWinner(n, p, why) ==
  \E byes \in SUBSET Nodes :
    /\ node' = Advanced(n, p, why, byes)
    /\ byes = Byes(n, node')

\* The seats are swapped for the rematch.
Opposite(s) == IF s = "light" THEN "dark" ELSE "light"
SeatedIn(a, s) == node[a[1]].seat[IF a[2] = 1 THEN s ELSE Opposite(s)]

HigherSeed(n) ==
  IF node[n].seat["light"] < node[n].seat["dark"] THEN node[n].seat["light"]
  ELSE node[n].seat["dark"]

\* Mutant of RematchDue: every draw is replayed.
EveryDrawIsReplayed(a) == game[a] = "drawn"

\* `decide`: a draw is replayed once, and then the higher seed goes through.
RematchDue(a) == game[a] = "drawn" /\ a[2] < 2

\* Mutant of WinnerOf: the colours of a rematch are taken for the node's seats.
WinnerAsSeated(a) ==
  IF game[a] = "drawn" THEN HigherSeed(a[1]) ELSE node[a[1]].seat[game[a]]

WinnerOf(a) == IF game[a] = "drawn" THEN HigherSeed(a[1]) ELSE SeatedIn(a, game[a])
ReasonOf(a) == IF game[a] = "drawn" THEN "adjudication" ELSE "played"

\* `adjudicate_absence`, of an attendance in which somebody is missing.
WinnerByAbsence(a, present) ==
  IF present = {} THEN HigherSeed(a[1])
  ELSE SeatedIn(a, IF "light" \in present THEN "light" ELSE "dark")

Alone(n) == n[1] = 1 /\ \E s \in Side : Seats[n][s] = Nobody

\* `materialise`: the first round as it was drawn, its byes won and seated.
Materialised(n) ==
  LET by(s) == {c \in Children(n) : SeatOfParent(c) = s /\ Alone(c)}
      seat == IF n[1] = 1 THEN Seats[n]
              ELSE [s \in Side |-> IF by(s) = {} THEN Nobody
                                   ELSE Sole(Seats[CHOOSE c \in by(s) : TRUE])]
  IN  [seat |-> seat,
       winner |-> IF Alone(n) THEN Sole(seat) ELSE Nobody,
       reason |-> IF Alone(n) THEN "bye" ELSE "none"]

Init ==
  /\ status = "registration_closed"
  /\ round = [r \in Rounds |-> IF r = 1 THEN "published" ELSE "pending"]
  /\ node = [n \in Nodes |-> Materialised(n)]
  /\ attempt = [a \in Attempts |-> NoAttempt]
  /\ game = [a \in Attempts |-> "none"]
  /\ owed = {}
  /\ call = [w \in Worker |-> Idle]
  /\ crashes = 0

-----------------------------------------------------------------------------
(* What the workers share *)

Goes(w, at) == call' = [call EXCEPT ![w].at = at]

\* An exception ends the job: a delivery is retried, a sweep runs again later.
Raise(w) == call' = [call EXCEPT ![w] = Idle]

\* The routine returns to the worker that called it.
Returned(w) ==
  IF w \in Deliverer THEN [Idle EXCEPT !.at = "handled", !.of = call[w].of]
  ELSE IF w \in Reconciler /\ call[w].applies # {}
  THEN [Idle EXCEPT !.at = "repair", !.of = call[w].of, !.applies = call[w].applies]
  ELSE Idle

Return(w) == call' = [call EXCEPT ![w] = Returned(w)]

PlansFor(nodes) == {<<n, 1>> : n \in {m \in nodes : NeedsAMatch(m)}}

\* create_match, for one of the plans: what was staged is committed with it.
\* The key of the match is its attempt, so a match that is there is returned.
Created(w, plans, a) ==
  /\ game' = [game EXCEPT ![a] = IF @ = "none" THEN "live" ELSE @]
  /\ call' = [call EXCEPT ![w].at = "launch", ![w].made = {a}, ![w].plans = plans \ {a}]

CreateFirst(w, plans) == \E a \in plans : Created(w, plans, a)

\* The attempt of the match made last is recorded with the next match, or by
\* the last commit; one that is stored already is kept.
Launch(w) ==
  /\ call[w].at = "launch"
  /\ attempt' = [a \in Attempts |->
       IF a \in call[w].made /\ attempt[a].outcome = "absent"
       THEN [NoAttempt EXCEPT !.outcome = "open", !.timed = TRUE]
       ELSE attempt[a]]
  /\ \/ call[w].plans # {} /\ CreateFirst(w, call[w].plans)
     \/ call[w].plans = {} /\ Return(w) /\ UNCHANGED game
  /\ UNCHANGED <<status, round, node, owed, crashes>>

\* `apply` has read the attempt, the node and a tournament in progress.
\* `complete` is a compare-and-set on the outcome, and its answer is not asked.
Record(w) ==
  LET a == call[w].of IN
  /\ call[w].at = "record"
  /\ attempt' = IF attempt[a].outcome # "open" THEN attempt
                ELSE [attempt EXCEPT
                        ![a].outcome = IF game[a] = "drawn" THEN "draw" ELSE "decisive",
                        ![a].winner = IF game[a] = "drawn" THEN Nobody ELSE WinnerOf(a)]
  /\ IF RematchDue(a)
     THEN call' = [call EXCEPT ![w].at = "launch", ![w].plans = {<<a[1], a[2] + 1>>}]
     ELSE Goes(w, "advance")
  /\ UNCHANGED <<status, round, node, game, owed, crashes>>

\* Mutant of Advance: a winner who is there already needs no progression.
AdvanceOnce(w) ==
  LET n == call[w].of[1]  p == WinnerOf(call[w].of) IN
  /\ call[w].at = "advance"
  /\ IF Unclaimed(n, p)
     THEN ClaimWinner(n, p, ReasonOf(call[w].of)) /\ Goes(w, "progress")
     ELSE Return(w) /\ UNCHANGED node
  /\ UNCHANGED <<status, round, attempt, game, owed, crashes>>

\* advance_winner, under the lock of the tournament; a conflict is raised.
Advance(w) ==
  LET n == call[w].of[1]  p == WinnerOf(call[w].of) IN
  /\ call[w].at = "advance"
  /\ \/ Unclaimed(n, p) /\ ClaimWinner(n, p, ReasonOf(call[w].of)) /\ Goes(w, "progress")
     \/ node[n].winner = p /\ Goes(w, "progress") /\ UNCHANGED node
     \/ ~Unclaimed(n, p) /\ node[n].winner # p /\ Raise(w) /\ UNCHANGED node
  /\ UNCHANGED <<status, round, attempt, game, owed, crashes>>

InRound(r) == {n \in Nodes : n[1] = r}

\* Mutant of RoundDecided: one decided node is enough.
RoundBegun(r) == \E n \in InRound(r) : node[n].winner # Nobody
RoundDecided(r) == \A n \in InRound(r) : node[n].winner # Nobody

\* `_progress` takes no lock: it reads the nodes and the rounds here ...
Progress(w) ==
  LET r == call[w].of[1][1] IN
  /\ call[w].at = "progress"
  /\ \/ ~RoundDecided(r) /\ Return(w)
     \/ /\ RoundDecided(r)
        /\ call' = [call EXCEPT
             ![w].at = "open",
             ![w].was = [this |-> round[r],
                         next |-> IF r + 1 \in Rounds THEN round[r + 1] ELSE "pending"],
             ![w].plans = PlansFor(InRound(r + 1))]
  /\ UNCHANGED <<status, round, node, attempt, game, owed, crashes>>

\* ... and writes what follows from them here: save compares nothing.
Open(w) ==
  LET r == call[w].of[1][1]  was == call[w].was IN
  /\ call[w].at = "open"
  /\ \/ was.this = "pending" /\ Raise(w) /\ UNCHANGED <<round, game>>
     \/ /\ was.this # "pending"
        /\ round' = [q \in Rounds |->
             CASE q = r /\ was.this # "completed" -> "completed"
               [] q = r + 1 /\ was.next = "pending" -> "started"
               [] OTHER -> round[q]]
        /\ \/ r + 1 \notin Rounds /\ Goes(w, "finish") /\ UNCHANGED game
           \/ r + 1 \in Rounds /\ call[w].plans # {} /\ CreateFirst(w, call[w].plans)
           \/ r + 1 \in Rounds /\ call[w].plans = {} /\ Return(w) /\ UNCHANGED game
  /\ UNCHANGED <<status, node, attempt, owed, crashes>>

\* `_require_decided`
Decided ==
  /\ \A n \in Nodes : ~NeedsAMatch(n)
  /\ \A n \in Nodes : Parent(n) \notin Nodes => node[n].winner # Nobody

\* complete_tournament, under the lock of the tournament.
Finish(w) ==
  /\ call[w].at = "finish"
  /\ \/ status = "completed" /\ Return(w) /\ UNCHANGED status
     \/ status = "in_progress" /\ ~Decided /\ Raise(w) /\ UNCHANGED status
     \/ status = "in_progress" /\ Decided /\ status' = "completed" /\ Return(w)
  /\ UNCHANGED <<round, node, attempt, game, owed, crashes>>

-----------------------------------------------------------------------------
(* The jobs *)

\* start_tournament; a second call launches what the first one did not, and one
\* that finds nothing missing changes nothing.
Start(w) ==
  /\ w \in Starter
  /\ call[w].at = "idle"
  /\ status \in {"registration_closed", "in_progress"}
  /\ \E a \in PlansFor(FirstRound) : attempt[a].outcome = "absent"
  /\ status' = "in_progress"
  /\ round' = IF status = "registration_closed" /\ round[1] = "published"
              THEN [round EXCEPT ![1] = "started"] ELSE round
  /\ CreateFirst(w, PlansFor(FirstRound))
  /\ UNCHANGED <<node, attempt, owed, crashes>>

\* The consumer of MatchCompleted; an entry is leased to one relay at a time.
\* A match no attempt is known for is acknowledged, like one of a tournament
\* that is not being played.
Deliver(w, a) ==
  /\ w \in Deliverer
  /\ call[w].at = "idle"
  /\ a \in owed
  /\ \A d \in Deliverer : call[d].at # "idle" => call[d].of # a
  /\ call' = [call EXCEPT ![w] =
       [Idle EXCEPT !.of = a,
                    !.at = IF attempt[a].outcome = "absent" \/ status # "in_progress"
                           THEN "handled" ELSE "record"]]
  /\ UNCHANGED <<status, round, node, attempt, game, owed, crashes>>

Acknowledge(w) ==
  /\ call[w].at = "handled"
  /\ owed' = owed \ {call[w].of}
  /\ Raise(w)
  /\ UNCHANGED <<status, round, node, attempt, game, crashes>>

\* Mutant of NeedsApplying: an attempt that is recorded was applied.
NeedsFirstApplying(a, latest) == game[a] \in Result /\ attempt[a].outcome \in {"absent", "open"}

\* What game decided and the bracket may not know, as of the latest attempt.
NeedsApplying(a, latest) ==
  /\ game[a] \in Result
  /\ attempt[a].outcome \in {"absent", "open"} \/ a[2] = latest

\* The reconciler compares a node that needs a match with the matches game has
\* of it, in whatever round the node is.
Repair(w, n) ==
  LET known == {k \in Number : attempt[<<n, k>>].outcome # "absent"}
      found == {k \in Number : game[<<n, k>>] # "none"}
      latest == IF 2 \in known \cup found THEN 2 ELSE 1
      due == {k \in found : NeedsApplying(<<n, k>>, latest)}
  IN
  /\ w \in Reconciler
  /\ call[w].at = "idle"
  /\ status = "in_progress"
  /\ NeedsAMatch(n)
  /\ \/ /\ known \cup found = {}
        /\ call' = [call EXCEPT ![w] =
             [Idle EXCEPT !.at = "launch", !.of = <<n, 1>>, !.plans = {<<n, 1>>}]]
     \/ /\ due # {} \/ found \ known # {}
        /\ call' = [call EXCEPT ![w] =
             [Idle EXCEPT !.at = "repair", !.of = <<n, 1>>,
                          !.records = found \ known, !.applies = due]]
  /\ UNCHANGED <<status, round, node, attempt, game, owed, crashes>>

\* `_record_missing`: the row it writes has no deadline for the no-show sweep.
RecordMissing(w) ==
  /\ call[w].at = "repair"
  /\ \E k \in call[w].records :
       LET a == <<call[w].of[1], k>> IN
       /\ \A j \in call[w].records : k <= j
       /\ \/ /\ attempt[a].outcome = "absent"
             /\ attempt' = [attempt EXCEPT ![a].outcome = "open"]
             /\ call' = [call EXCEPT ![w].records = @ \ {k}]
          \/ attempt[a].outcome # "absent" /\ Raise(w) /\ UNCHANGED attempt
  /\ UNCHANGED <<status, round, node, game, owed, crashes>>

\* Then each result is applied, as a delivery would.
Reapply(w) ==
  /\ call[w].at = "repair"
  /\ call[w].records = {}
  /\ \/ call[w].applies = {} /\ Raise(w)
     \/ \E k \in call[w].applies :
          /\ \A j \in call[w].applies : k <= j
          /\ call' = [call EXCEPT
               ![w].of = <<@[1], k>>, ![w].applies = @ \ {k},
               ![w].at = IF status = "in_progress" THEN "record" ELSE @]
  /\ UNCHANGED <<status, round, node, attempt, game, owed, crashes>>

\* The no-show sweep claims a row and keeps the attendance it read with it:
\* which players joined in time (`mark_present`) is any choice.
ClaimNoShow(w, a) ==
  /\ w \in Sweeper
  /\ call[w].at = "idle"
  /\ a[1] \in Missable
  /\ attempt[a].outcome = "open" /\ attempt[a].timed
  /\ \E present \in SUBSET Side :
       call' = [call EXCEPT ![w] = [Idle EXCEPT !.at = "claimed", !.of = a, !.present = present]]
  /\ UNCHANGED <<status, round, node, attempt, game, owed, crashes>>

\* `_decide`: a result of the match is preferred; players who both came play.
DecideNoShow(w) ==
  /\ call[w].at = "claimed"
  /\ IF status # "in_progress" THEN Raise(w)
     ELSE IF game[call[w].of] \in Result THEN Goes(w, "record")
     ELSE IF call[w].present = Side THEN Raise(w)
     ELSE Goes(w, "absence")
  /\ UNCHANGED <<status, round, node, attempt, game, owed, crashes>>

RecordNoShow(w) ==
  LET a == call[w].of IN
  /\ call[w].at = "absence"
  /\ attempt' = IF attempt[a].outcome # "open" THEN attempt
                ELSE [attempt EXCEPT
                        ![a].outcome = "no_show",
                        ![a].winner = WinnerByAbsence(a, call[w].present)]
  /\ Goes(w, "close")
  /\ UNCHANGED <<status, round, node, game, owed, crashes>>

\* `_close_match`: a match that was settled is left as it is.
CloseMatch(w) ==
  /\ call[w].at = "close"
  /\ game' = [game EXCEPT ![call[w].of] = IF @ = "live" THEN "aborted" ELSE @]
  /\ Goes(w, "walkover")
  /\ UNCHANGED <<status, round, node, attempt, owed, crashes>>

\* advance_winner again, and no progression after it; a conflict is logged.
WalkOver(w) ==
  LET n == call[w].of[1]  p == WinnerByAbsence(call[w].of, call[w].present) IN
  /\ call[w].at = "walkover"
  /\ IF Unclaimed(n, p) THEN ClaimWinner(n, p, "adjudication") ELSE UNCHANGED node
  /\ Raise(w)
  /\ UNCHANGED <<status, round, attempt, game, owed, crashes>>

-----------------------------------------------------------------------------
(* The players, and what fails *)

\* A game ends, and MatchCompleted is staged with its result.
GameEnds(a, result) ==
  /\ game[a] = "live"
  /\ result \in Results[a[1]]
  /\ game' = [game EXCEPT ![a] = result]
  /\ owed' = owed \cup {a}
  /\ UNCHANGED <<status, round, node, attempt, call, crashes>>

\* A worker dies, or its delivery runs out of time, between two transactions.
Crash(w) ==
  /\ w \in Fallible
  /\ call[w].at # "idle"
  /\ crashes < MaxCrashes
  /\ crashes' = crashes + 1
  /\ Raise(w)
  /\ UNCHANGED <<status, round, node, attempt, game, owed>>

\* The next transaction of a job that has begun.
Continue(w) ==
  \/ Launch(w) \/ Record(w) \/ Advance(w) \/ Progress(w) \/ Open(w) \/ Finish(w)
  \/ Acknowledge(w) \/ RecordMissing(w) \/ Reapply(w)
  \/ DecideNoShow(w) \/ RecordNoShow(w) \/ CloseMatch(w) \/ WalkOver(w)

Next ==
  \/ \E w \in Worker : Start(w) \/ Continue(w) \/ Crash(w)
  \/ \E w \in Worker, a \in Attempts : Deliver(w, a) \/ ClaimNoShow(w, a)
  \/ \E w \in Worker, n \in Nodes : Repair(w, n)
  \/ \E a \in Attempts, result \in Result : GameEnds(a, result)

Spec == Init /\ [][Next]_vars

\* Someone starts the tournament, jobs run, the relay comes back to the entries
\* of every node, and a pass of the reconciler follows another.  No sweep is
\* assumed to run, no player to come and no game to end: a tournament's match
\* has no clock and no acceptance, and a game both have left goes on for ever.
Fairness ==
  /\ \A w \in Worker : WF_vars(Continue(w))
  /\ \A w \in Starter : WF_vars(Start(w))
  /\ \A w \in Reconciler : WF_vars(\E n \in Nodes : Repair(w, n))
  /\ \A n \in Nodes : SF_vars(\E w \in Deliverer, k \in Number : Deliver(w, <<n, k>>))

FairSpec == Spec /\ Fairness

-----------------------------------------------------------------------------

\* The bracket is a knockout, whatever the workers do to each other: one winner
\* per node, once and for ever, from the children that were won, and a champion
\* only when no pair is left without a result.
Bracket == INSTANCE Knockout WITH
  Entrants <- [n \in FirstRound |-> {Seats[n][s] : s \in Side} \ {Nobody}],
  winner <- [n \in Nodes |-> node[n].winner],
  over <- status = "completed"
KnockoutSpec == Bracket!Spec

\* A node said to be won by play was won in a match of that node, and a second
\* match was created only because the first was drawn.
WonAsPlayed ==
  /\ \A n \in Nodes : node[n].reason = "played" =>
       \E k \in Number : game[<<n, k>>] \in Side
                         /\ node[n].winner = SeatedIn(<<n, k>>, game[<<n, k>>])
  /\ \A n \in Nodes : game[<<n, 2>>] # "none" => game[<<n, 1>>] = "drawn"

\* A round is over, and the next one announced, only when every node of it has
\* a winner, although nobody locks the rounds.
RoundsFollowTheBracket ==
  \A n \in Nodes :
    /\ round[n[1]] = "completed" => node[n].winner # Nobody
    /\ n[1] + 1 \in Rounds /\ round[n[1] + 1] # "pending" => node[n].winner # Nobody

\* The sweep decided an attempt, or a node (also one whose game had a result).
AbsenceDecided ==
  \/ \E a \in Attempts : attempt[a].outcome = "no_show"
  \/ \E n \in Nodes : node[n].reason = "adjudication" /\ game[<<n, 2>>] # "drawn"

\* A delivery finds no attempt of its match, so that from then on only the
\* reconciler can apply the result.
Forgets == \E w \in Deliverer : /\ call[w].at = "handled"
                                /\ attempt[call[w].of].outcome = "absent"

\* Those that lie below n.
Below(n) == {m \in Nodes : m[1] < n[1] /\ m[2] \div (2 ^ (n[1] - m[1])) = n[2]}

\* A node waits for a game only: whatever is lost, a node whose own games and
\* those below it are not being played gets its winner, since the reconciler
\* brings back what no delivery will.
EveryPairIsDecided ==
  \A n \in Nodes :
    []<>(\/ node[n].winner # Nobody
         \/ \E m \in Below(n) \cup {n}, k \in Number : game[<<m, k>>] = "live")

\* A tournament waits for a game only: it is completed once none is being played.
\* Exempt are a no-show, which advances without progressing, and a result left to
\* the reconciler, which may apply it before its round is open or die before it
\* progresses: those leave a decided bracket open.
PlayedBracketCompletes ==
  <>(AbsenceDecided \/ Forgets) \/
  []<>(status = "completed" \/ \E a \in Attempts : game[a] = "live")

\* "A semi-final holding one player because the other semi has not been played
\* is not a bye - it is waiting": nobody wins a node without playing while
\* somebody can still come to it.
ByeIsEarned ==
  \A n \in Nodes : node[n].reason = "bye" =>
    \A m \in Below(n) : node[m].winner = Nobody => Participants(node[m]) = {}
=============================================================================
