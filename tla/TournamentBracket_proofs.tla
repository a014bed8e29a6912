------------------------ MODULE TournamentBracket_proofs ------------------------
(***************************************************************************)
(* The bracket of TournamentBracket, for every size, every draw and any     *)
(* number of workers.                                                       *)
(***************************************************************************)
EXTENDS TournamentBracket, FiniteSetTheorems, WellFoundedInduction, TLAPS

\* Both players of a node are known.
Paired(n) == \A s \in Side : node[n].seat[s] # Nobody

\* A seat is what was drawn into it, or the winner of the child below it.
Seating ==
  /\ \A n \in FirstRound : node[n].seat = Seats[n]
  /\ \A c \in Nodes : Parent(c) \in Nodes =>
       node[Parent(c)].seat[SeatOfParent(c)] = node[c].winner

\* No transaction leaves a bye unclaimed.
NoByeLeft ==
  \A m \in Nodes : node[m].winner = Nobody =>
    ~(Cardinality(Participants(node[m])) = 1 /\ ChildrenSettled(node, m))

\* Matches are made for pairs, the second of a node after a draw, and an event
\* tells of a result.
GamesOfPairs ==
  /\ \A a \in Attempts :
       game[a] # "none" \/ attempt[a].outcome # "absent" => Paired(a[1])
  /\ \A n \in Nodes : game[<<n, 2>>] # "none" => game[<<n, 1>>] = "drawn"
  /\ \A a \in owed : game[a] \in Result

\* A match that may be created.
MayPlay(a) == Paired(a[1]) /\ (a[2] = 2 => game[<<a[1], 1>>] = "drawn")

\* What a worker relies on between its transactions.
CallOK(w) ==
  LET c == call[w]  n == c.of[1] IN
  /\ \A a \in c.plans : MayPlay(a)
  /\ \A a \in c.made : game[a] # "none"
  /\ \A k \in c.records : game[<<n, k>>] # "none"
  /\ \A k \in c.applies : game[<<n, k>>] \in Result
  /\ c.at \in {"record", "advance"} => game[c.of] \in Result
  /\ c.at = "open" => \A m \in Nodes :
       m[1] = n[1] \/ (m[1] + 1 = n[1] /\ c.was.this # "pending") => node[m].winner # Nobody
  /\ c.at \in {"claimed", "absence", "close", "walkover"} => Paired(n)

PlayedIsWon ==
  \A n \in Nodes : node[n].reason = "played" =>
    \E k \in Number : game[<<n, k>>] \in Side
                      /\ node[n].winner = SeatedIn(<<n, k>>, game[<<n, k>>])

\* Nothing is left to play when the tournament is over.
OverIsOver == status = "completed" => \A n \in Nodes : ~NeedsAMatch(n)

Inv ==
  /\ TypeOK
  /\ Seating /\ NoByeLeft
  /\ GamesOfPairs /\ PlayedIsWon
  /\ \A w \in Worker : CallOK(w)
  /\ RoundsFollowTheBracket
  /\ OverIsOver

-----------------------------------------------------------------------------
(* The tree *)

LEMMA NodeShape ==
  ASSUME NEW n \in Nodes
  PROVE  n[1] \in Nat \ {0} /\ n[2] \in Nat /\ n = <<n[1], n[2]>>
  BY BracketAssumption

LEMMA AttemptShape ==
  ASSUME NEW a \in Attempts
  PROVE  a[1] \in Nodes /\ a[2] \in Number /\ a = <<a[1], a[2]>>
  BY DEF Attempts

LEMMA MakeAttempt ==
  ASSUME NEW n \in Nodes, NEW k \in Number
  PROVE  <<n, k>> \in Attempts /\ <<n, k>>[1] = n /\ <<n, k>>[2] = k
  BY DEF Attempts

\* Two children of one node take different seats of it.
LEMMA OneChildPerSeat ==
  ASSUME NEW c \in Nodes, NEW d \in Nodes,
         Parent(c) = Parent(d), SeatOfParent(c) = SeatOfParent(d)
  PROVE  c = d
  <1>1. /\ c[1] \in Nat /\ c[2] \in Nat /\ c = <<c[1], c[2]>>
        /\ d[1] \in Nat /\ d[2] \in Nat /\ d = <<d[1], d[2]>>
    BY NodeShape
  <1>2. c[1] + 1 = d[1] + 1 /\ c[2] \div 2 = d[2] \div 2
    BY DEF Parent
  <1>3. c[2] % 2 = d[2] % 2
    BY <1>1 DEF SeatOfParent
  <1>4. c[1] = d[1] /\ c[2] = d[2]
    BY <1>1, <1>2, <1>3
  <1> QED BY <1>1, <1>4

\* Above the first round there is a child for every seat.
LEMMA ChildOfSeat ==
  ASSUME NEW n \in Nodes, n[1] # 1, NEW s \in Side
  PROVE  \E c \in Children(n) : SeatOfParent(c) = s
  <1> DEFINE l == <<n[1] - 1, 2 * n[2]>>
             d == <<n[1] - 1, 2 * n[2] + 1>>
  <1>1. n[1] \in Nat \ {0} /\ n[2] \in Nat /\ n = <<n[1], n[2]>>
    BY NodeShape
  <1>2. l \in Nodes /\ d \in Nodes
    <2>1. n[1] > 1
      BY <1>1
    <2> QED BY <2>1, BracketAssumption
  <1>3. /\ (n[1] - 1) + 1 = n[1]
        /\ (2 * n[2]) \div 2 = n[2] /\ (2 * n[2] + 1) \div 2 = n[2]
        /\ (2 * n[2]) % 2 = 0 /\ (2 * n[2] + 1) % 2 # 0
    BY <1>1
  <1>4. Parent(l) = n /\ Parent(d) = n
    BY <1>1, <1>3 DEF Parent
  <1>5. SeatOfParent(l) = "light" /\ SeatOfParent(d) = "dark"
    BY <1>3 DEF SeatOfParent
  <1> QED BY <1>2, <1>4, <1>5 DEF Children, Side

LEMMA ChildIsBelow ==
  ASSUME NEW n \in Nodes, NEW c \in Children(n)
  PROVE  c \in Nodes /\ Parent(c) = n /\ n[1] = c[1] + 1 /\ c # n
  <1>1. c \in Nodes /\ Parent(c) = n
    BY DEF Children
  <1>2. n[1] = c[1] + 1
    BY <1>1 DEF Parent
  <1> QED BY <1>1, <1>2, NodeShape

-----------------------------------------------------------------------------
(* Types *)

LEMMA IdleIsCall == Idle \in Call
  <1> DEFINE some == CHOOSE a \in Attempts : TRUE
  <1>1. PICK n \in Nodes : TRUE
    BY BracketAssumption
  <1>2. <<n, 1>> \in Attempts
    BY MakeAttempt, 1 \in Number DEF Number
  <1>3. some \in Attempts
    BY <1>2
  <1>4. Idle = [at |-> "idle", of |-> some, present |-> {}, made |-> {},
                plans |-> {}, records |-> {}, applies |-> {},
                was |-> [this |-> "pending", next |-> "pending"]]
    BY DEF Idle
  <1> HIDE DEF some
  <1> QED BY <1>3, <1>4 DEF Call, RoundStatus

LEMMA ReturnedIsCall ==
  ASSUME TypeOK, NEW w \in Worker
  PROVE  Returned(w) \in Call
  <1>1. Idle \in Call
    BY IdleIsCall
  <1>2. call[w] \in Call
    BY DEF TypeOK
  <1> QED BY <1>1, <1>2 DEF Returned, Call

LEMMA WinnersAreSeeds ==
  ASSUME TypeOK, NEW a \in Attempts
  PROVE  /\ \A s \in Side : SeatedIn(a, s) \in Nat
         /\ HigherSeed(a[1]) \in Nat
         /\ \A present : WinnerByAbsence(a, present) \in Nat
         /\ game[a] \in Result => WinnerOf(a) \in Nat
  <1>1. a[1] \in Nodes
    BY AttemptShape
  <1>2. \A s \in Side : node[a[1]].seat[s] \in Nat
    BY <1>1 DEF TypeOK, Node
  <1>3. \A s \in Side : SeatedIn(a, s) \in Nat
    BY <1>2 DEF SeatedIn, Opposite, Side
  <1>4. HigherSeed(a[1]) \in Nat
    BY <1>2 DEF HigherSeed, Side
  <1> QED BY <1>3, <1>4 DEF WinnerByAbsence, WinnerOf, Side, Result

LEMMA ClaimType ==
  ASSUME TypeOK, NEW n \in Nodes, NEW p \in Nat, NEW why \in Reason,
         ClaimWinner(n, p, why)
  PROVE  node' \in [Nodes -> Node]
  <1>1. PICK byes \in SUBSET Nodes : node' = Advanced(n, p, why, byes)
    BY DEF ClaimWinner
  <1> DEFINE seat(m) ==
        [s \in Side |->
           IF node[m].seat[s] = Nobody /\ \E c \in Children(m) \cap (byes \cup {n}) :
                SeatOfParent(c) = s
           THEN p ELSE node[m].seat[s]]
  <1>2. ASSUME NEW m \in Nodes
        PROVE  node[m] \in Node /\ seat(m) \in [Side -> Nat] /\ Sole(seat(m)) \in Nat
    <2>1. node[m] \in Node
      BY DEF TypeOK
    <2>2. seat(m) \in [Side -> Nat]
      BY <2>1 DEF Node
    <2>3. Sole(seat(m)) \in Nat
      <3> HIDE DEF seat
      <3> QED BY <2>2 DEF Sole, Side
    <2> QED BY <2>1, <2>2, <2>3
  <1>3. node' = [m \in Nodes |->
          CASE m = n    -> [node[m] EXCEPT !.winner = p, !.reason = why]
            [] m \in byes \ {n} -> [seat |-> seat(m), winner |-> Sole(seat(m)), reason |-> "bye"]
            [] OTHER    -> [node[m] EXCEPT !.seat = seat(m)]]
    BY <1>1 DEF Advanced
  <1> HIDE DEF seat
  <1>4. ASSUME NEW m \in Nodes
        PROVE  (CASE m = n    -> [node[m] EXCEPT !.winner = p, !.reason = why]
            [] m \in byes \ {n} -> [seat |-> seat(m), winner |-> Sole(seat(m)), reason |-> "bye"]
            [] OTHER    -> [node[m] EXCEPT !.seat = seat(m)]) \in Node
    BY <1>2 DEF Node, Reason
  <1> QED BY <1>3, <1>4

LEMMA TypeInit ==
  ASSUME Init
  PROVE  TypeOK
  <1>1. ASSUME NEW n \in Nodes
        PROVE  Materialised(n) \in Node
    <2> DEFINE by(s) == {c \in Children(n) : SeatOfParent(c) = s /\ Alone(c)}
               seat == IF n[1] = 1 THEN Seats[n]
                       ELSE [s \in Side |-> IF by(s) = {} THEN Nobody
                                            ELSE Sole(Seats[CHOOSE c \in by(s) : TRUE])]
    <2>1. ASSUME NEW m \in FirstRound
          PROVE  Seats[m] \in [Side -> Nat] /\ Sole(Seats[m]) \in Nat
      BY BracketAssumption DEF Sole, Side
    <2>2. ASSUME NEW s \in Side, by(s) # {}
          PROVE  (CHOOSE c \in by(s) : TRUE) \in FirstRound
      <3>1. (CHOOSE c \in by(s) : TRUE) \in by(s)
        BY <2>2
      <3> QED BY <3>1 DEF Alone, FirstRound, Children
    <2>3. seat \in [Side -> Nat]
      <3>1. CASE n[1] = 1
        BY <3>1, <2>1 DEF FirstRound
      <3>2. CASE n[1] # 1
        <4>1. ASSUME NEW s \in Side
              PROVE  (IF by(s) = {} THEN Nobody
                      ELSE Sole(Seats[CHOOSE c \in by(s) : TRUE])) \in Nat
          <5> HIDE DEF by
          <5> QED BY <2>1, <2>2 DEF Nobody
        <4> HIDE DEF by
        <4> QED BY <3>2, <4>1
      <3> QED BY <3>1, <3>2
    <2>4. Sole(seat) \in Nat
      <3> HIDE DEF seat
      <3> QED BY <2>3 DEF Sole, Side
    <2>5. Materialised(n) = [seat |-> seat,
                             winner |-> IF Alone(n) THEN Sole(seat) ELSE Nobody,
                             reason |-> IF Alone(n) THEN "bye" ELSE "none"]
      BY DEF Materialised
    <2> HIDE DEF seat
    <2> QED BY <2>3, <2>4, <2>5 DEF Node, Nobody, Reason
  <1>2. node \in [Nodes -> Node]
    BY <1>1 DEF Init
  <1>3. attempt \in [Attempts -> Attempt]
    BY DEF Init, NoAttempt, Attempt, Nobody
  <1>4. call \in [Worker -> Call]
    BY IdleIsCall DEF Init
  <1> QED BY <1>2, <1>3, <1>4, BracketAssumption DEF Init, TypeOK, RoundStatus, Game

\* What the workers share, and the jobs, one action at a time.
LEMMA TypeCreated ==
  ASSUME TypeOK, NEW w \in Worker, NEW plans \in SUBSET Attempts, NEW a \in plans,
         Created(w, plans, a)
  PROVE  game' \in [Attempts -> Game] /\ call' \in [Worker -> Call]
  <1>1. game' \in [Attempts -> Game]
    BY DEF TypeOK, Created, Game
  <1>2. call[w] \in Call /\ {a} \in SUBSET Attempts /\ plans \ {a} \in SUBSET Attempts
    BY DEF TypeOK
  <1>3. [call[w] EXCEPT !.at = "launch", !.made = {a}, !.plans = plans \ {a}] \in Call
    BY <1>2 DEF Call
  <1> QED BY <1>1, <1>3 DEF TypeOK, Created

LEMMA PlansAreAttempts ==
  ASSUME NEW nodes \in SUBSET Nodes
  PROVE  /\ PlansFor(nodes) \in SUBSET Attempts
         /\ \A a \in PlansFor(nodes) : a[1] \in nodes /\ NeedsAMatch(a[1]) /\ a[2] = 1
  <1>1. ASSUME NEW a \in PlansFor(nodes)
        PROVE  a \in Attempts /\ a[1] \in nodes /\ NeedsAMatch(a[1]) /\ a[2] = 1
    <2>1. PICK n \in nodes : NeedsAMatch(n) /\ a = <<n, 1>>
      BY <1>1 DEF PlansFor
    <2>2. 1 \in Number
      BY DEF Number
    <2> QED BY <2>1, <2>2, MakeAttempt
  <1> QED BY <1>1

LEMMA TypeLaunch ==
  ASSUME TypeOK, NEW w \in Worker, Launch(w)
  PROVE  TypeOK'
  <1>1. call[w].plans \in SUBSET Attempts
    BY DEF TypeOK, Call
  <1>2. game' \in [Attempts -> Game] /\ call' \in [Worker -> Call]
    BY ZenonT(60), <1>1, TypeCreated, ReturnedIsCall DEF Launch, CreateFirst, Return, TypeOK
  <1>3. attempt' \in [Attempts -> Attempt]
    BY DEF Launch, TypeOK, NoAttempt, Attempt, Nobody
  <1> QED BY <1>2, <1>3 DEF TypeOK, Launch

LEMMA TypeRaise ==
  ASSUME TypeOK, NEW w \in Worker, Raise(w)
  PROVE  call' \in [Worker -> Call]
  BY IdleIsCall DEF Raise, TypeOK

LEMMA TypeReturn ==
  ASSUME TypeOK, NEW w \in Worker, Return(w)
  PROVE  call' \in [Worker -> Call]
  BY ReturnedIsCall DEF Return, TypeOK

LEMMA TypeGoes ==
  ASSUME TypeOK, NEW w \in Worker,
         NEW at \in {"advance", "progress", "finish", "record", "absence", "close", "walkover"},
         Goes(w, at)
  PROVE  call' \in [Worker -> Call]
  <1>1. call[w] \in Call
    BY DEF TypeOK
  <1>2. [call[w] EXCEPT !.at = at] \in Call
    BY <1>1 DEF Call
  <1> QED BY <1>2 DEF Goes, TypeOK

LEMMA TypeRecord ==
  ASSUME TypeOK, NEW w \in Worker, Record(w), game[call[w].of] \in Result
  PROVE  TypeOK'
  <1> DEFINE a == call[w].of
  <1>1. a \in Attempts /\ a[1] \in Nodes /\ a[2] \in Number
    BY AttemptShape DEF TypeOK, Call
  <1>2. WinnerOf(a) \in Nat
    BY <1>1, WinnersAreSeeds
  <1>3. attempt' \in [Attempts -> Attempt]
    BY <1>1, <1>2 DEF Record, TypeOK, Attempt, Nobody
  <1>4. RematchDue(a) => <<a[1], a[2] + 1>> \in Attempts
    <2>1. RematchDue(a) => a[2] + 1 \in Number
      BY <1>1 DEF RematchDue, Number
    <2> QED BY <1>1, <2>1, MakeAttempt
  <1>5. call' \in [Worker -> Call]
    <2>1. CASE ~RematchDue(a)
      BY <2>1, TypeGoes DEF Record
    <2>2. CASE RematchDue(a)
      <3>1. call[w] \in Call /\ {<<a[1], a[2] + 1>>} \in SUBSET Attempts
        BY <2>2, <1>4 DEF TypeOK
      <3>2. [call[w] EXCEPT !.at = "launch", !.plans = {<<a[1], a[2] + 1>>}] \in Call
        BY <3>1 DEF Call
      <3> QED BY <2>2, <3>2 DEF Record, TypeOK
    <2> QED BY <2>1, <2>2
  <1> QED BY <1>3, <1>5 DEF TypeOK, Record

LEMMA TypeAdvance ==
  ASSUME TypeOK, NEW w \in Worker, Advance(w), game[call[w].of] \in Result
  PROVE  TypeOK'
  <1> DEFINE a == call[w].of
  <1>1. a \in Attempts /\ a[1] \in Nodes
    BY AttemptShape DEF TypeOK, Call
  <1>2. WinnerOf(a) \in Nat /\ ReasonOf(a) \in Reason
    BY <1>1, WinnersAreSeeds DEF ReasonOf, Reason
  <1>3. node' \in [Nodes -> Node]
    BY <1>1, <1>2, ClaimType DEF Advance, TypeOK
  <1>4. call' \in [Worker -> Call]
    BY TypeRaise, TypeGoes DEF Advance
  <1> QED BY <1>3, <1>4 DEF TypeOK, Advance

LEMMA TypeProgress ==
  ASSUME TypeOK, NEW w \in Worker, Progress(w)
  PROVE  TypeOK'
  <1> DEFINE r == call[w].of[1][1]
  <1>1. call[w].of \in Attempts /\ r \in Rounds
    BY AttemptShape DEF TypeOK, Call, Rounds
  <1>2. PlansFor(InRound(r + 1)) \in SUBSET Attempts
    BY PlansAreAttempts DEF InRound
  <1>3. /\ round[r] \in RoundStatus
        /\ (IF r + 1 \in Rounds THEN round[r + 1] ELSE "pending") \in RoundStatus
    BY <1>1 DEF TypeOK, RoundStatus
  <1> DEFINE was == [this |-> round[r],
                     next |-> IF r + 1 \in Rounds THEN round[r + 1] ELSE "pending"]
  <1>4. call' \in [Worker -> Call]
    <2>1. CASE Return(w)
      BY <2>1, TypeReturn
    <2>2. CASE ~Return(w)
      <3>1. call[w] \in Call /\ was \in [this : RoundStatus, next : RoundStatus]
        BY <1>3 DEF TypeOK
      <3>2. call' = [call EXCEPT ![w].at = "open", ![w].was = was,
                                 ![w].plans = PlansFor(InRound(r + 1))]
        BY <2>2 DEF Progress
      <3> HIDE DEF was
      <3>3. [call[w] EXCEPT !.at = "open", !.was = was,
                            !.plans = PlansFor(InRound(r + 1))] \in Call
        BY <3>1, <1>2 DEF Call
      <3> QED BY <3>2, <3>3 DEF TypeOK
    <2> QED BY <2>1, <2>2
  <1> QED BY <1>4 DEF TypeOK, Progress

LEMMA TypeOpen ==
  ASSUME TypeOK, NEW w \in Worker, Open(w)
  PROVE  TypeOK'
  <1>1. call[w].plans \in SUBSET Attempts
    BY DEF TypeOK, Call
  <1>2. game' \in [Attempts -> Game] /\ call' \in [Worker -> Call]
    BY <1>1, TypeCreated, TypeRaise, TypeGoes, TypeReturn DEF Open, CreateFirst, TypeOK
  <1>3. round' \in [Rounds -> RoundStatus]
    BY DEF Open, TypeOK, RoundStatus
  <1> QED BY <1>2, <1>3 DEF TypeOK, Open

LEMMA TypeFinish ==
  ASSUME TypeOK, NEW w \in Worker, Finish(w)
  PROVE  TypeOK'
  BY TypeRaise, TypeReturn DEF Finish, TypeOK

LEMMA TypeStart ==
  ASSUME TypeOK, NEW w \in Worker, Start(w)
  PROVE  TypeOK'
  <1>1. PlansFor(FirstRound) \in SUBSET Attempts
    BY PlansAreAttempts DEF FirstRound
  <1>2. game' \in [Attempts -> Game] /\ call' \in [Worker -> Call]
    BY <1>1, TypeCreated DEF Start, CreateFirst
  <1>3. round' \in [Rounds -> RoundStatus]
    BY DEF Start, TypeOK, RoundStatus
  <1> QED BY <1>2, <1>3 DEF TypeOK, Start

LEMMA TypeDeliver ==
  ASSUME TypeOK, NEW w \in Worker, NEW a \in Attempts, Deliver(w, a)
  PROVE  TypeOK'
  <1> DEFINE at == IF attempt[a].outcome = "absent" \/ status # "in_progress"
                   THEN "handled" ELSE "record"
  <1>1. Idle \in Call
    BY IdleIsCall
  <1>2. [Idle EXCEPT !.of = a, !.at = at] \in Call
    BY <1>1 DEF Call
  <1>3. call' \in [Worker -> Call]
    BY <1>2 DEF Deliver, TypeOK
  <1> QED BY <1>3 DEF TypeOK, Deliver

LEMMA TypeAcknowledge ==
  ASSUME TypeOK, NEW w \in Worker, Acknowledge(w)
  PROVE  TypeOK'
  BY TypeRaise DEF Acknowledge, TypeOK

LEMMA TypeRepair ==
  ASSUME TypeOK, NEW w \in Worker, NEW n \in Nodes, Repair(w, n)
  PROVE  TypeOK'
  <1>1. Idle \in Call
    BY IdleIsCall
  <1>2. <<n, 1>> \in Attempts
    BY MakeAttempt, 1 \in Number DEF Number
  <1>3. [Idle EXCEPT !.at = "launch", !.of = <<n, 1>>, !.plans = {<<n, 1>>}] \in Call
    BY <1>1, <1>2 DEF Call
  <1>4. ASSUME NEW records \in SUBSET Number, NEW applies \in SUBSET Number
        PROVE  [Idle EXCEPT !.at = "repair", !.of = <<n, 1>>,
                            !.records = records, !.applies = applies] \in Call
    BY <1>1, <1>2 DEF Call
  <1>5. call' \in [Worker -> Call]
    <2> DEFINE known == {k \in Number : attempt[<<n, k>>].outcome # "absent"}
               found == {k \in Number : game[<<n, k>>] # "none"}
               latest == IF 2 \in known \cup found THEN 2 ELSE 1
               due == {k \in found : NeedsApplying(<<n, k>>, latest)}
    <2>1. \/ call' = [call EXCEPT ![w] =
               [Idle EXCEPT !.at = "launch", !.of = <<n, 1>>, !.plans = {<<n, 1>>}]]
          \/ call' = [call EXCEPT ![w] =
               [Idle EXCEPT !.at = "repair", !.of = <<n, 1>>,
                            !.records = found \ known, !.applies = due]]
      BY DEF Repair
    <2>2. found \ known \in SUBSET Number /\ due \in SUBSET Number
      OBVIOUS
    <2> HIDE DEF known, found, due
    <2>3. [Idle EXCEPT !.at = "repair", !.of = <<n, 1>>,
                       !.records = found \ known, !.applies = due] \in Call
      BY <2>2, <1>4
    <2> QED BY <2>1, <2>3, <1>3 DEF TypeOK
  <1> QED BY <1>5 DEF TypeOK, Repair

LEMMA TypeRecordMissing ==
  ASSUME TypeOK, NEW w \in Worker, RecordMissing(w)
  PROVE  TypeOK'
  <1>1. call[w] \in Call
    BY DEF TypeOK
  <1>2. ASSUME NEW k
        PROVE  [call[w] EXCEPT !.records = @ \ {k}] \in Call
    BY <1>1 DEF Call
  <1>3. call' \in [Worker -> Call]
    <2>1. CASE Raise(w)
      BY <2>1, TypeRaise
    <2>2. CASE ~Raise(w)
      <3>1. PICK k : call' = [call EXCEPT ![w].records = @ \ {k}]
        BY <2>2 DEF RecordMissing
      <3> QED BY <3>1, <1>2 DEF TypeOK
    <2> QED BY <2>1, <2>2
  <1>4. attempt' \in [Attempts -> Attempt]
    <2>1. CASE attempt' = attempt
      BY <2>1 DEF TypeOK
    <2>2. CASE attempt' # attempt
      <3>1. PICK a : attempt' = [attempt EXCEPT ![a].outcome = "open"]
        BY <2>2 DEF RecordMissing
      <3>2. ASSUME a \in Attempts
            PROVE  [attempt[a] EXCEPT !.outcome = "open"] \in Attempt
        BY <3>2 DEF TypeOK, Attempt
      <3> QED BY <3>1, <3>2 DEF TypeOK
    <2> QED BY <2>1, <2>2
  <1> QED BY <1>3, <1>4 DEF TypeOK, RecordMissing

LEMMA TypeReapply ==
  ASSUME TypeOK, NEW w \in Worker, Reapply(w)
  PROVE  TypeOK'
  <1>1. call[w] \in Call /\ call[w].of[1] \in Nodes
    BY AttemptShape DEF TypeOK, Call
  <1>2. ASSUME NEW k \in call[w].applies
        PROVE  [call[w] EXCEPT !.of = <<@[1], k>>, !.applies = @ \ {k},
                  !.at = IF status = "in_progress" THEN "record" ELSE @] \in Call
    <2>1. k \in Number
      BY <1>1 DEF Call
    <2>2. <<call[w].of[1], k>> \in Attempts
      BY <1>1, <2>1, MakeAttempt
    <2> QED BY <1>1, <2>2 DEF Call
  <1>3. call' \in [Worker -> Call]
    <2>1. CASE Raise(w)
      BY <2>1, TypeRaise
    <2>2. CASE ~Raise(w)
      <3>1. PICK k \in call[w].applies :
              call' = [call EXCEPT ![w] =
                [call[w] EXCEPT !.of = <<call[w].of[1], k>>, !.applies = call[w].applies \ {k},
                   !.at = IF status = "in_progress" THEN "record" ELSE call[w].at]]
        BY <2>2 DEF Reapply
      <3>2. [call[w] EXCEPT !.of = <<@[1], k>>, !.applies = @ \ {k},
               !.at = IF status = "in_progress" THEN "record" ELSE @] \in Call
        BY <1>2
      <3> QED BY <3>1, <3>2 DEF TypeOK
    <2> QED BY <2>1, <2>2
  <1> QED BY <1>3 DEF TypeOK, Reapply

LEMMA TypeClaimNoShow ==
  ASSUME TypeOK, NEW w \in Worker, NEW a \in Attempts, ClaimNoShow(w, a)
  PROVE  TypeOK'
  <1>1. Idle \in Call
    BY IdleIsCall
  <1>2. ASSUME NEW present \in SUBSET Side
        PROVE  [Idle EXCEPT !.at = "claimed", !.of = a, !.present = present] \in Call
    BY <1>1 DEF Call
  <1>3. call' \in [Worker -> Call]
    BY <1>2 DEF ClaimNoShow, TypeOK
  <1> QED BY <1>3 DEF TypeOK, ClaimNoShow

LEMMA TypeDecideNoShow ==
  ASSUME TypeOK, NEW w \in Worker, DecideNoShow(w)
  PROVE  TypeOK'
  <1>1. call' \in [Worker -> Call]
    BY TypeRaise, TypeGoes DEF DecideNoShow
  <1> QED BY <1>1 DEF TypeOK, DecideNoShow

LEMMA TypeRecordNoShow ==
  ASSUME TypeOK, NEW w \in Worker, RecordNoShow(w)
  PROVE  TypeOK'
  <1>1. call[w].of \in Attempts
    BY DEF TypeOK, Call
  <1>2. WinnerByAbsence(call[w].of, call[w].present) \in Nat
    BY <1>1, WinnersAreSeeds
  <1>3. attempt' \in [Attempts -> Attempt]
    BY <1>1, <1>2 DEF RecordNoShow, TypeOK, Attempt
  <1>4. call' \in [Worker -> Call]
    BY TypeGoes DEF RecordNoShow
  <1> QED BY <1>3, <1>4 DEF TypeOK, RecordNoShow

LEMMA TypeCloseMatch ==
  ASSUME TypeOK, NEW w \in Worker, CloseMatch(w)
  PROVE  TypeOK'
  <1>1. call' \in [Worker -> Call]
    BY TypeGoes DEF CloseMatch
  <1>2. game' \in [Attempts -> Game]
    BY DEF CloseMatch, TypeOK, Game
  <1> QED BY <1>1, <1>2 DEF TypeOK, CloseMatch

LEMMA TypeWalkOver ==
  ASSUME TypeOK, NEW w \in Worker, WalkOver(w)
  PROVE  TypeOK'
  <1>1. call[w].of \in Attempts /\ call[w].of[1] \in Nodes
    BY AttemptShape DEF TypeOK, Call
  <1>2. WinnerByAbsence(call[w].of, call[w].present) \in Nat
    BY <1>1, WinnersAreSeeds
  <1>3. node' \in [Nodes -> Node]
    BY <1>1, <1>2, ClaimType DEF WalkOver, TypeOK, Reason
  <1>4. call' \in [Worker -> Call]
    BY TypeRaise DEF WalkOver
  <1> QED BY <1>3, <1>4 DEF TypeOK, WalkOver

LEMMA TypeGameEnds ==
  ASSUME TypeOK, NEW a \in Attempts, NEW result \in Result, GameEnds(a, result)
  PROVE  TypeOK'
  BY DEF GameEnds, TypeOK, Game

LEMMA TypeCrash ==
  ASSUME TypeOK, NEW w \in Worker, Crash(w)
  PROVE  TypeOK'
  BY TypeRaise, BracketAssumption DEF Crash, TypeOK

LEMMA TypeStutter ==
  ASSUME TypeOK, UNCHANGED vars
  PROVE  TypeOK'
  BY DEF TypeOK, vars

\* Every step keeps the types, as long as a worker applies results only.
LEMMA TypeStep ==
  ASSUME TypeOK, [Next]_vars,
         \A w \in Worker : call[w].at \in {"record", "advance"} => game[call[w].of] \in Result
  PROVE  TypeOK'
  <1>1. ASSUME NEW w \in Worker, Start(w) \/ Continue(w) \/ Crash(w)
        PROVE  TypeOK'
    <2>1. CASE Record(w)
      BY <2>1, TypeRecord DEF Record
    <2>2. CASE Advance(w)
      BY <2>2, TypeAdvance DEF Advance
    <2> QED BY <1>1, <2>1, <2>2, TypeStart, TypeCrash, TypeLaunch, TypeProgress, TypeOpen,
               TypeFinish, TypeAcknowledge, TypeRecordMissing, TypeReapply,
               TypeDecideNoShow, TypeRecordNoShow, TypeCloseMatch, TypeWalkOver DEF Continue
  <1> QED BY <1>1, TypeDeliver, TypeClaimNoShow, TypeRepair, TypeGameEnds, TypeStutter DEF Next

-----------------------------------------------------------------------------
(* What a claimed winner does to the bracket *)

LEMMA SoleParticipant ==
  ASSUME NEW b \in Node, Cardinality(Participants(b)) = 1
  PROVE  Participants(b) = {Sole(b.seat)} /\ Sole(b.seat) # Nobody
  <1> DEFINE l == b.seat["light"]  d == b.seat["dark"]  P == Participants(b)
  <1>1. P = {l, d} \ {Nobody}
    BY DEF Participants, Side
  <1>2. IsFiniteSet(P)
    <2>1. IsFiniteSet({l}) /\ IsFiniteSet({l} \cup {d})
      BY FS_Singleton, FS_AddElement
    <2>2. P \subseteq {l} \cup {d}
      BY <1>1
    <2> QED BY <2>1, <2>2, FS_Subset
  <1>3. PICK x : P = {x}
    BY <1>2, FS_Singleton
  <1>4. Sole(b.seat) = IF l # Nobody THEN l ELSE d
    BY DEF Sole
  <1> HIDE DEF P, l, d
  <1>5. P = {Sole(b.seat)} /\ Sole(b.seat) # Nobody
    BY <1>1, <1>3, <1>4
  <1> QED BY <1>5 DEF P

\* The nodes won by a claim are n and the byes above it; all of them go to p,
\* who takes the empty seats above them, and no bye is left behind.
LEMMA ClaimEffect ==
  ASSUME TypeOK, Seating, NoByeLeft,
         NEW n \in Nodes, NEW p \in Nat \ {0}, NEW why \in Reason,
         node[n].winner = Nobody, Paired(n), \E s \in Side : node[n].seat[s] = p,
         ClaimWinner(n, p, why)
  PROVE  /\ NoByeLeft'
         /\ \E won \in SUBSET Nodes :
              /\ n \in won /\ node'[n].reason = why
              /\ \A c \in won : /\ node[c].winner = Nobody /\ node'[c].winner = p
                                /\ \E s \in Side : node'[c].seat[s] = p
                                /\ c # n => node'[c].reason = "bye"
              /\ \A c \in Nodes \ won : /\ node'[c].winner = node[c].winner
                                        /\ node'[c].reason = node[c].reason
              /\ \A m \in Nodes, s \in Side :
                   node'[m].seat[s] =
                     IF node[m].seat[s] = Nobody /\ \E c \in Children(m) \cap won :
                          SeatOfParent(c) = s
                     THEN p ELSE node[m].seat[s]
  <1>1. PICK byes \in SUBSET Nodes :
          node' = Advanced(n, p, why, byes) /\ byes = Byes(n, node')
    BY DEF ClaimWinner
  <1>2. node \in [Nodes -> Node] /\ node' \in [Nodes -> Node]
    BY SMTT(60), ClaimType DEF TypeOK
  <1> DEFINE won == byes \cup {n}
             seat(m) ==
               [s \in Side |->
                  IF node[m].seat[s] = Nobody /\ \E c \in Children(m) \cap won :
                       SeatOfParent(c) = s
                  THEN p ELSE node[m].seat[s]]
  <1>3. node' = [m \in Nodes |->
          CASE m = n    -> [node[m] EXCEPT !.winner = p, !.reason = why]
            [] m \in byes \ {n} -> [seat |-> seat(m), winner |-> Sole(seat(m)), reason |-> "bye"]
            [] OTHER    -> [node[m] EXCEPT !.seat = seat(m)]]
    BY <1>1 DEF Advanced
  <1>4. n \notin byes /\ \A c \in byes : node[c].winner = Nobody
    BY <1>1 DEF Byes
  <1>5. /\ node'[n].winner = p /\ node'[n].reason = why /\ node'[n].seat = node[n].seat
        /\ \A c \in byes : /\ node'[c].winner = Sole(seat(c)) /\ node'[c].reason = "bye"
                           /\ node'[c].seat = seat(c)
        /\ \A m \in Nodes \ won : /\ node'[m].winner = node[m].winner
                                  /\ node'[m].reason = node[m].reason
                                  /\ node'[m].seat = seat(m)
    <2> HIDE DEF seat
    <2>1. \A m \in Nodes : node[m] = [seat |-> node[m].seat, winner |-> node[m].winner,
                                      reason |-> node[m].reason]
      BY <1>2 DEF Node
    <2>2. node'[n] = [node[n] EXCEPT !.winner = p, !.reason = why]
      BY <1>3
    <2>3. \A c \in byes : node'[c] = [seat |-> seat(c), winner |-> Sole(seat(c)), reason |-> "bye"]
      BY <1>3, <1>4
    <2>4. \A m \in Nodes \ won : node'[m] = [node[m] EXCEPT !.seat = seat(m)]
      BY <1>3
    <2>5. node'[n].winner = p /\ node'[n].reason = why /\ node'[n].seat = node[n].seat
      BY <2>1, <2>2
    <2>6. \A m \in Nodes \ won : /\ node'[m].winner = node[m].winner
                                 /\ node'[m].reason = node[m].reason
                                 /\ node'[m].seat = seat(m)
      BY <2>1, <2>4
    <2>7. ASSUME NEW c \in byes
          PROVE  /\ node'[c].winner = Sole(seat(c)) /\ node'[c].reason = "bye"
                 /\ node'[c].seat = seat(c)
      <3> DEFINE x == seat(c)  y == Sole(x)
      <3>1. node'[c] = [seat |-> x, winner |-> y, reason |-> "bye"]
        BY <2>3
      <3> HIDE DEF x, y
      <3>2. node'[c].winner = y /\ node'[c].reason = "bye" /\ node'[c].seat = x
        BY <3>1
      <3> QED BY <3>2 DEF x, y
    <2> HIDE DEF won
    <2> QED BY <2>5, <2>6, <2>7
  <1>6. \A m \in Nodes, s \in Side : node'[m].seat[s] = seat(m)[s]
    <2>1. \A s \in Side : seat(n)[s] = node[n].seat[s]
      BY DEF Paired
    <2> HIDE DEF seat
    <2> QED BY <1>5, <2>1
  <1>7. ASSUME NEW c \in byes
        PROVE  /\ node'[c].winner = p
               /\ \E s \in Side : node'[c].seat[s] = p
    <2>1. c \in Nodes /\ node[c] \in Node /\ node'[c] \in Node
      BY <1>2
    <2>2. Cardinality(Participants(node'[c])) = 1 /\ ChildrenSettled(node', c)
      BY <1>1 DEF Byes
    <2>3. p \in Participants(node'[c])
      <3> SUFFICES ASSUME p \notin Participants(node'[c])
                   PROVE  FALSE
        OBVIOUS
      <3>1. \A s \in Side : node'[c].seat[s] # p
        BY DEF Participants, Nobody
      <3>2. \A s \in Side : node'[c].seat[s] = node[c].seat[s]
        BY <3>1, <1>6, <2>1
      <3>3. Participants(node'[c]) = Participants(node[c])
        BY <3>2 DEF Participants
      <3>4. ~ChildrenSettled(node, c)
        BY <3>3, <2>2, <1>4, <2>1 DEF NoByeLeft
      <3>5. PICK d \in Children(c) :
              node[d].winner = Nobody /\ Participants(node[d]) # {}
        BY <3>4 DEF ChildrenSettled
      <3>6. d \in Nodes /\ Parent(d) = c
        BY <3>5, <2>1, ChildIsBelow
      <3>7. PICK s \in Side : node[d].seat[s] # Nobody
        BY <3>5 DEF Participants
      <3>8. node'[d].seat[s] # Nobody
        BY <1>6, <3>6, <3>7 DEF Nobody
      <3>9. Participants(node'[d]) # {}
        BY <3>8 DEF Participants
      <3>10. node'[d].winner # Nobody
        BY <2>2, <3>4, <3>5, <3>9 DEF ChildrenSettled
      <3>11. d \in won
        BY <3>10, <3>5, <3>6, <1>5
      <3>12. node[c].seat[SeatOfParent(d)] = Nobody
        BY <3>5, <3>6, <2>1 DEF Seating
      <3>13. SeatOfParent(d) \in Side
        BY DEF SeatOfParent, Side
      <3>14. node'[c].seat[SeatOfParent(d)] = p
        BY <1>6, <2>1, <3>5, <3>11, <3>12, <3>13
      <3> QED BY <3>1, <3>13, <3>14
    <2>4. Participants(node'[c]) = {Sole(node'[c].seat)}
      BY <2>1, <2>2, SoleParticipant
    <2>5. Sole(node'[c].seat) = p
      BY <2>3, <2>4
    <2>6. node'[c].winner = p
      BY <2>5, <1>5
    <2> QED BY <2>3, <2>6 DEF Participants
  <1>8. NoByeLeft'
    <2> SUFFICES ASSUME NEW m \in Nodes, node'[m].winner = Nobody
                 PROVE  ~(Cardinality(Participants(node'[m])) = 1 /\ ChildrenSettled(node', m))
      BY DEF NoByeLeft
    <2>1. m \notin won
      BY <1>5, <1>7 DEF Nobody
    <2>2. node[m].winner = Nobody
      BY <2>1, <1>5
    <2> QED BY <1>1, <2>1, <2>2 DEF Byes
  <1>9. \A c \in won : /\ node[c].winner = Nobody /\ node'[c].winner = p
                       /\ \E s \in Side : node'[c].seat[s] = p
                       /\ c # n => node'[c].reason = "bye"
    <2> HIDE DEF seat
    <2> QED BY <1>4, <1>5, <1>7
  <1>10. \A m \in Nodes, s \in Side :
           node'[m].seat[s] =
             IF node[m].seat[s] = Nobody /\ \E c \in Children(m) \cap won : SeatOfParent(c) = s
             THEN p ELSE node[m].seat[s]
    BY <1>6
  <1>11. won \in SUBSET Nodes /\ n \in won
    OBVIOUS
  <1>12. \A c \in Nodes \ won : node'[c].winner = node[c].winner /\ node'[c].reason = node[c].reason
    BY <1>5
  <1>13. node'[n].reason = why
    BY <1>5
  <1> HIDE DEF won, seat
  <1> QED BY <1>8, <1>9, <1>10, <1>11, <1>12, <1>13

-----------------------------------------------------------------------------
(* What every step keeps *)

\* Seats that are taken, winners and results stay; a match that was made too.
Grows ==
  /\ \A m \in Nodes, s \in Side :
       node[m].seat[s] # Nobody => node'[m].seat[s] = node[m].seat[s]
  /\ \A m \in Nodes : node[m].winner # Nobody => node'[m].winner = node[m].winner
  /\ \A a \in Attempts : game[a] # "none" => game'[a] # "none"
  /\ \A a \in Attempts : game[a] \in Result => game'[a] = game[a]

LEMMA ClaimSeating ==
  ASSUME TypeOK, Seating, NoByeLeft,
         NEW n \in Nodes, NEW p \in Nat \ {0}, NEW why \in Reason,
         node[n].winner = Nobody, Paired(n), \E s \in Side : node[n].seat[s] = p,
         ClaimWinner(n, p, why)
  PROVE  /\ Seating' /\ NoByeLeft'
         /\ \A m \in Nodes, s \in Side :
              node[m].seat[s] # Nobody => node'[m].seat[s] = node[m].seat[s]
         /\ \A m \in Nodes : node[m].winner # Nobody =>
              node'[m].winner = node[m].winner /\ node'[m].reason = node[m].reason
         /\ \A m \in Nodes : node'[m].winner # node[m].winner =>
              \E s \in Side : node'[m].seat[s] = node'[m].winner
         /\ \A m \in Nodes : node'[m].reason = "played" =>
              \/ m = n /\ node'[m].winner = p /\ why = "played"
              \/ node[m].reason = "played" /\ node'[m].winner = node[m].winner
  <1>1. PICK won \in SUBSET Nodes :
          /\ n \in won /\ node'[n].reason = why
          /\ \A c \in won : /\ node[c].winner = Nobody /\ node'[c].winner = p
                            /\ \E s \in Side : node'[c].seat[s] = p
                            /\ c # n => node'[c].reason = "bye"
          /\ \A c \in Nodes \ won : /\ node'[c].winner = node[c].winner
                                    /\ node'[c].reason = node[c].reason
          /\ \A m \in Nodes, s \in Side :
               node'[m].seat[s] =
                 IF node[m].seat[s] = Nobody /\ \E c \in Children(m) \cap won :
                      SeatOfParent(c) = s
                 THEN p ELSE node[m].seat[s]
    BY ClaimEffect
  <1>2. NoByeLeft'
    BY ClaimEffect
  <1>3. ASSUME NEW m \in FirstRound
        PROVE  node'[m].seat = Seats[m]
    <2>1. m \in Nodes /\ Children(m) = {}
      <3>1. m \in Nodes /\ m[1] = 1
        BY DEF FirstRound
      <3>2. ASSUME NEW c \in Children(m)
            PROVE  FALSE
        <4>1. c \in Nodes /\ m[1] = c[1] + 1
          BY <3>1, <3>2, ChildIsBelow
        <4>2. c[1] \in Nat \ {0}
          BY <4>1, NodeShape
        <4> QED BY <3>1, <4>1, <4>2
      <3> QED BY <3>1, <3>2
    <2>2. \A s \in Side : node'[m].seat[s] = node[m].seat[s]
      BY <1>1, <2>1
    <2>3. node[m].seat \in [Side -> Nat] /\ node'[m].seat \in [Side -> Nat]
      BY <2>1, ClaimType DEF TypeOK, Node
    <2>4. node'[m].seat = node[m].seat
      BY <2>2, <2>3
    <2> QED BY <2>4 DEF Seating
  <1>4. ASSUME NEW c \in Nodes, Parent(c) \in Nodes
        PROVE  node'[Parent(c)].seat[SeatOfParent(c)] = node'[c].winner
    <2>1. SeatOfParent(c) \in Side /\ c \in Children(Parent(c))
      BY DEF SeatOfParent, Side, Children
    <2>2. node[Parent(c)].seat[SeatOfParent(c)] = node[c].winner
      BY <1>4 DEF Seating
    <2>3. CASE c \in won
      BY <1>1, <1>4, <2>1, <2>2, <2>3
    <2>4. CASE c \notin won
      <3>1. ~\E d \in Children(Parent(c)) \cap won : SeatOfParent(d) = SeatOfParent(c)
        BY <2>4, OneChildPerSeat DEF Children
      <3> QED BY <1>1, <1>4, <2>1, <2>2, <2>4, <3>1
    <2> QED BY <2>3, <2>4
  <1>5. Seating'
    BY <1>3, <1>4 DEF Seating
  <1>6. \A m \in Nodes, s \in Side :
          node[m].seat[s] # Nobody => node'[m].seat[s] = node[m].seat[s]
    BY <1>1
  <1>7. \A m \in Nodes : node[m].winner # Nobody =>
          node'[m].winner = node[m].winner /\ node'[m].reason = node[m].reason
    BY <1>1
  <1>8. \A m \in Nodes : node'[m].winner # node[m].winner =>
          \E s \in Side : node'[m].seat[s] = node'[m].winner
    BY <1>1
  <1>9. \A m \in Nodes : node'[m].reason = "played" =>
          \/ m = n /\ node'[m].winner = p /\ why = "played"
          \/ node[m].reason = "played" /\ node'[m].winner = node[m].winner
    BY <1>1
  <1> QED BY <1>2, <1>5, <1>6, <1>7, <1>8, <1>9

LEMMA PairedStays ==
  ASSUME Grows, NEW n \in Nodes, Paired(n)
  PROVE  Paired(n)'
  BY DEF Grows, Paired

LEMMA MayPlayStays ==
  ASSUME Grows, NEW a \in Attempts, MayPlay(a)
  PROVE  MayPlay(a)'
  <1>1. a[1] \in Nodes /\ <<a[1], 1>> \in Attempts
    BY AttemptShape, MakeAttempt, 1 \in Number DEF Number
  <1>2. Paired(a[1])'
    BY <1>1, PairedStays DEF MayPlay
  <1>3. "drawn" \in Result
    BY DEF Result
  <1> QED BY <1>1, <1>2, <1>3 DEF MayPlay, Grows

\* A worker that did nothing relies on what it relied on.
LEMMA CallStays ==
  ASSUME TypeOK, Grows, NEW w \in Worker, CallOK(w), call'[w] = call[w]
  PROVE  CallOK(w)'
  <1> DEFINE c == call[w]  n == c.of[1]
  <1>1. /\ c.of \in Attempts /\ n \in Nodes
        /\ c.plans \subseteq Attempts /\ c.made \subseteq Attempts
        /\ c.records \subseteq Number /\ c.applies \subseteq Number
    BY AttemptShape DEF TypeOK, Call
  <1>2. \A a \in c.plans : MayPlay(a)'
    BY <1>1, MayPlayStays DEF CallOK
  <1>3. \A k \in c.records \cup c.applies : <<n, k>> \in Attempts
    BY <1>1, MakeAttempt
  <1>4. /\ \A a \in c.made : game'[a] # "none"
        /\ \A k \in c.records : game'[<<n, k>>] # "none"
        /\ \A k \in c.applies : game'[<<n, k>>] \in Result
        /\ c.at \in {"record", "advance"} => game'[c.of] \in Result
    BY <1>1, <1>3 DEF CallOK, Grows
  <1>5. c.at = "open" => \A m \in Nodes :
          m[1] = n[1] \/ (m[1] + 1 = n[1] /\ c.was.this # "pending") => node'[m].winner # Nobody
    BY DEF CallOK, Grows
  <1>6. c.at \in {"claimed", "absence", "close", "walkover"} => Paired(n)'
    BY <1>1, PairedStays DEF CallOK
  <1> QED BY <1>2, <1>4, <1>5, <1>6 DEF CallOK

LEMMA OthersStay ==
  ASSUME Inv, Grows, NEW w \in Worker, CallOK(w)',
         \A v \in Worker \ {w} : call'[v] = call[v]
  PROVE  \A v \in Worker : CallOK(v)'
  BY CallStays DEF Inv

\* A job that ends, or returns to its caller, relies on nothing new.
LEMMA IdleOK ==
  ASSUME NEW w \in Worker, call'[w] = Idle
  PROVE  CallOK(w)'
  BY DEF CallOK, Idle

LEMMA ReturnOK ==
  ASSUME TypeOK, Grows, NEW w \in Worker, CallOK(w), call'[w] = Returned(w)
  PROVE  CallOK(w)'
  <1>1. CASE Returned(w) = Idle
    BY <1>1, IdleOK
  <1>2. CASE Returned(w) = [Idle EXCEPT !.at = "handled", !.of = call[w].of]
    BY <1>2 DEF CallOK, Idle
  <1>3. CASE Returned(w) = [Idle EXCEPT !.at = "repair", !.of = call[w].of,
                                        !.applies = call[w].applies]
    <2>1. \A k \in call[w].applies : <<call[w].of[1], k>> \in Attempts
      BY MakeAttempt, AttemptShape DEF TypeOK, Call
    <2>2. \A k \in call[w].applies : game'[<<call[w].of[1], k>>] \in Result
      BY <2>1 DEF CallOK, Grows
    <2> QED BY <1>3, <2>2 DEF CallOK, Idle
  <1> QED BY <1>1, <1>2, <1>3 DEF Returned

\* A step that writes no node keeps what is said of the bracket alone.
LEMMA BracketStays ==
  ASSUME Inv, UNCHANGED node,
         \A a \in Attempts : game[a] # "none" => game'[a] # "none",
         \A a \in Attempts : game[a] \in Result => game'[a] = game[a]
  PROVE  Grows /\ Seating' /\ NoByeLeft' /\ PlayedIsWon'
  <1>1. Grows
    BY DEF Grows
  <1>2. Seating' /\ NoByeLeft'
    BY DEF Inv, Seating, NoByeLeft, ChildrenSettled
  <1>3. ASSUME NEW n \in Nodes, node'[n].reason = "played"
        PROVE  \E k \in Number : game'[<<n, k>>] \in Side
                 /\ node'[n].winner = SeatedIn(<<n, k>>, game[<<n, k>>])'
    <2>1. PICK k \in Number : game[<<n, k>>] \in Side
                              /\ node[n].winner = SeatedIn(<<n, k>>, game[<<n, k>>])
      BY <1>3 DEF Inv, PlayedIsWon
    <2>2. game'[<<n, k>>] = game[<<n, k>>]
      BY <2>1, MakeAttempt DEF Side, Result
    <2> QED BY <2>1, <2>2 DEF SeatedIn
  <1>4. PlayedIsWon'
    BY <1>3 DEF PlayedIsWon
  <1> QED BY <1>1, <1>2, <1>4

LEMMA RoundsStay ==
  ASSUME Inv, Grows, UNCHANGED round
  PROVE  RoundsFollowTheBracket'
  BY DEF Inv, Grows, RoundsFollowTheBracket

\* A step that makes no match and stages no event; an attempt is recorded only
\* where there was one, or of a match that is there.
LEMMA GamesStay ==
  ASSUME Inv, Grows, UNCHANGED game, owed' \subseteq owed,
         \A a \in Attempts : attempt'[a].outcome # "absent" =>
           attempt[a].outcome # "absent" \/ game[a] # "none"
  PROVE  GamesOfPairs'
  <1>1. ASSUME NEW a \in Attempts, game'[a] # "none" \/ attempt'[a].outcome # "absent"
        PROVE  Paired(a[1])'
    <2>1. Paired(a[1]) /\ a[1] \in Nodes
      BY <1>1, AttemptShape DEF Inv, GamesOfPairs
    <2> QED BY <2>1, PairedStays
  <1> QED BY <1>1 DEF Inv, GamesOfPairs

\* A match is made for a plan, and the attempt of one made before recorded.
LEMMA CreatedKeeps ==
  ASSUME Inv, NEW w \in Worker, NEW plans \in SUBSET Attempts,
         \A a \in plans : MayPlay(a),
         CreateFirst(w, plans), UNCHANGED <<node, owed>>,
         \A a \in Attempts : attempt'[a].outcome # "absent" =>
           attempt[a].outcome # "absent" \/ game[a] # "none"
  PROVE  /\ Grows /\ Seating' /\ NoByeLeft' /\ PlayedIsWon'
         /\ GamesOfPairs' /\ \A v \in Worker : CallOK(v)'
  <1>1. PICK b \in plans : Created(w, plans, b)
    BY DEF CreateFirst
  <1>2. /\ game' = [game EXCEPT ![b] = IF @ = "none" THEN "live" ELSE @]
        /\ call' = [call EXCEPT ![w].at = "launch", ![w].made = {b}, ![w].plans = plans \ {b}]
    BY <1>1 DEF Created
  <1>3. TypeOK /\ game \in [Attempts -> Game] /\ call \in [Worker -> Call]
    BY DEF Inv, TypeOK
  <1>4. /\ \A a \in Attempts : game[a] # "none" => game'[a] # "none"
        /\ \A a \in Attempts : game[a] \in Result => game'[a] = game[a]
        /\ \A a \in Attempts : game[a] = "none" => game'[a] = "none" \/ a = b
        /\ game'[b] # "none"
    BY <1>2, <1>3 DEF Result
  <1>5. Grows /\ Seating' /\ NoByeLeft' /\ PlayedIsWon'
    BY <1>4, BracketStays
  <1>6. GamesOfPairs'
    <2>1. ASSUME NEW a \in Attempts, game'[a] # "none" \/ attempt'[a].outcome # "absent"
          PROVE  Paired(a[1])'
      <3>1. a[1] \in Nodes
        BY AttemptShape
      <3>2. Paired(a[1])
        BY <1>4, <2>1 DEF Inv, GamesOfPairs, MayPlay
      <3> QED BY <3>1, <3>2, <1>5, PairedStays
    <2>2. ASSUME NEW n \in Nodes, game'[<<n, 2>>] # "none"
          PROVE  game'[<<n, 1>>] = "drawn"
      <3>1. <<n, 1>> \in Attempts /\ <<n, 2>> \in Attempts /\ <<n, 2>>[1] = n /\ <<n, 2>>[2] = 2
        BY MakeAttempt, 1 \in Number, 2 \in Number DEF Number
      <3>2. game[<<n, 1>>] = "drawn"
        BY <1>4, <2>2, <3>1 DEF Inv, GamesOfPairs, MayPlay
      <3> QED BY <1>4, <3>1, <3>2 DEF Result
    <2>3. ASSUME NEW a \in owed'
          PROVE  game'[a] \in Result
      BY <1>4, <1>3, <2>3 DEF Inv, GamesOfPairs, TypeOK
    <2> QED BY <2>1, <2>2, <2>3 DEF GamesOfPairs
  <1>7. CallOK(w)'
    <2>1. /\ call'[w].at = "launch" /\ call'[w].made = {b} /\ call'[w].plans = plans \ {b}
          /\ call'[w].of = call[w].of /\ call'[w].records = call[w].records
          /\ call'[w].applies = call[w].applies
      BY <1>2, <1>3 DEF Call
    <2>2. \A a \in plans : MayPlay(a)'
      BY <1>5, MayPlayStays
    <2>3. \A k \in call[w].records \cup call[w].applies : <<call[w].of[1], k>> \in Attempts
      BY <1>3, MakeAttempt, AttemptShape DEF Call
    <2>4. /\ \A k \in call[w].records : game'[<<call[w].of[1], k>>] # "none"
          /\ \A k \in call[w].applies : game'[<<call[w].of[1], k>>] \in Result
      BY <2>3, <1>4 DEF Inv, CallOK
    <2> QED BY <2>1, <2>2, <2>4, <1>4 DEF CallOK
  <1>8. \A v \in Worker \ {w} : call'[v] = call[v]
    BY <1>2, <1>3
  <1> QED BY <1>5, <1>6, <1>7, <1>8, OthersStay

-----------------------------------------------------------------------------
(* The invariant, one action at a time.  Safe is what remains of it beside    *)
(* the types.                                                               *)

Safe ==
  /\ Seating /\ NoByeLeft
  /\ GamesOfPairs /\ PlayedIsWon
  /\ \A w \in Worker : CallOK(w)
  /\ RoundsFollowTheBracket
  /\ OverIsOver

\* A step of w that writes neither a node, a match, a round nor the status.
LEMMA WorkerStep ==
  ASSUME Inv, NEW w \in Worker, UNCHANGED <<node, game, round, status>>, owed' \subseteq owed,
         \A a \in Attempts : attempt'[a].outcome # "absent" =>
           attempt[a].outcome # "absent" \/ game[a] # "none",
         \A v \in Worker \ {w} : call'[v] = call[v],
         Grows => CallOK(w)'
  PROVE  Safe'
  <1>1. Grows /\ Seating' /\ NoByeLeft' /\ PlayedIsWon'
    BY BracketStays
  <1>2. GamesOfPairs'
    BY <1>1, GamesStay
  <1>3. \A v \in Worker : CallOK(v)'
    BY <1>1, OthersStay
  <1>4. RoundsFollowTheBracket'
    BY <1>1, RoundsStay
  <1>5. OverIsOver'
    BY DEF Inv, OverIsOver, NeedsAMatch
  <1> QED BY <1>1, <1>2, <1>3, <1>4, <1>5 DEF Safe

LEMMA RaiseOK ==
  ASSUME Inv, NEW w \in Worker, Raise(w)
  PROVE  CallOK(w)' /\ \A v \in Worker \ {w} : call'[v] = call[v]
  <1>1. call'[w] = Idle /\ \A v \in Worker \ {w} : call'[v] = call[v]
    BY DEF Raise, Inv, TypeOK
  <1> QED BY <1>1, IdleOK

LEMMA ReturnsOK ==
  ASSUME Inv, NEW w \in Worker, Return(w)
  PROVE  (Grows => CallOK(w)') /\ \A v \in Worker \ {w} : call'[v] = call[v]
  <1>1. call'[w] = Returned(w) /\ \A v \in Worker \ {w} : call'[v] = call[v]
    BY DEF Return, Inv, TypeOK
  <1> QED BY <1>1, ReturnOK DEF Inv

\* Going on to `at` keeps everything but the name of the next transaction.
LEMMA GoesOK ==
  ASSUME Inv, NEW w \in Worker, NEW at, Goes(w, at), Grows,
         at \in {"record", "advance"} => game[call[w].of] \in Result,
         at # "open",
         at \in {"claimed", "absence", "close", "walkover"} => Paired(call[w].of[1])
  PROVE  CallOK(w)'
  <1>0. PICK c \in Call, n \in Nodes : c = call[w] /\ n = c.of[1]
    BY AttemptShape DEF Inv, TypeOK, Call
  <1>1. /\ c.of \in Attempts
        /\ c.plans \subseteq Attempts /\ c.made \subseteq Attempts
        /\ c.records \subseteq Number /\ c.applies \subseteq Number
    BY DEF Call
  <1>2. CallOK(w)
    BY DEF Inv
  <1>3. /\ call'[w].at = at /\ call'[w].of = c.of /\ call'[w].plans = c.plans
        /\ call'[w].made = c.made /\ call'[w].records = c.records
        /\ call'[w].applies = c.applies
    BY <1>0 DEF Goes, Inv, TypeOK, Call
  <1>4. \A a \in c.plans : MayPlay(a)'
    BY <1>0, <1>1, <1>2, MayPlayStays DEF CallOK
  <1>5. \A k \in c.records \cup c.applies : <<n, k>> \in Attempts
    BY <1>1, MakeAttempt
  <1>6. /\ \A a \in c.made : game'[a] # "none"
        /\ \A k \in c.records : game'[<<n, k>>] # "none"
        /\ \A k \in c.applies : game'[<<n, k>>] \in Result
        /\ at \in {"record", "advance"} => game'[c.of] \in Result
    BY <1>0, <1>1, <1>2, <1>5 DEF CallOK, Grows
  <1>7. at \in {"claimed", "absence", "close", "walkover"} => Paired(n)'
    BY <1>0, PairedStays
  <1> QED BY <1>0, <1>3, <1>4, <1>6, <1>7 DEF CallOK

LEMMA GoesAlone ==
  ASSUME Inv, NEW w \in Worker, NEW at, Goes(w, at)
  PROVE  \A v \in Worker \ {w} : call'[v] = call[v]
  BY DEF Goes, Inv, TypeOK

\* A step that creates a match keeps the rest as well, the rounds apart.
LEMMA CreatingStep ==
  ASSUME Inv, NEW w \in Worker, NEW plans \in SUBSET Attempts,
         \A a \in plans : MayPlay(a),
         CreateFirst(w, plans), UNCHANGED <<node, owed>>,
         \A a \in Attempts : attempt'[a].outcome # "absent" =>
           attempt[a].outcome # "absent" \/ game[a] # "none",
         status' = "completed" => status = "completed",
         Grows => RoundsFollowTheBracket'
  PROVE  Safe'
  <1>1. /\ Grows /\ Seating' /\ NoByeLeft' /\ PlayedIsWon'
        /\ GamesOfPairs' /\ \A v \in Worker : CallOK(v)'
    BY CreatedKeeps
  <1>2. OverIsOver'
    BY DEF Inv, OverIsOver, NeedsAMatch
  <1> QED BY <1>1, <1>2 DEF Safe

LEMMA SafeStart ==
  ASSUME Inv, NEW w \in Worker, Start(w)
  PROVE  Safe'
  <1>1. /\ PlansFor(FirstRound) \in SUBSET Attempts
        /\ \A a \in PlansFor(FirstRound) : MayPlay(a)
    BY PlansAreAttempts DEF FirstRound, MayPlay, NeedsAMatch, Paired
  <1>2. Grows => RoundsFollowTheBracket'
    <2> SUFFICES ASSUME Grows, NEW n \in Nodes
                 PROVE  /\ round'[n[1]] = "completed" => node'[n].winner # Nobody
                        /\ n[1] + 1 \in Rounds /\ round'[n[1] + 1] # "pending" =>
                             node'[n].winner # Nobody
      BY DEF RoundsFollowTheBracket
    <2>1. n[1] \in Rounds /\ n[1] + 1 # 1
      BY NodeShape DEF Rounds
    <2>2. /\ round'[n[1]] = "completed" => round[n[1]] = "completed"
          /\ n[1] + 1 \in Rounds => round'[n[1] + 1] = round[n[1] + 1]
      BY <2>1 DEF Start, Inv, TypeOK
    <2> QED BY <2>1, <2>2 DEF Inv, RoundsFollowTheBracket, Grows
  <1> QED BY <1>1, <1>2, CreatingStep DEF Start

LEMMA SafeLaunch ==
  ASSUME Inv, NEW w \in Worker, Launch(w)
  PROVE  Safe'
  <1>1. call[w] \in Call /\ CallOK(w)
    BY DEF Inv, TypeOK
  <1>2. \A a \in Attempts : attempt'[a].outcome # "absent" =>
          attempt[a].outcome # "absent" \/ game[a] # "none"
    BY <1>1 DEF Launch, CallOK
  <1>3. CASE call[w].plans # {} /\ CreateFirst(w, call[w].plans)
    <2>1. Grows => RoundsFollowTheBracket'
      BY RoundsStay DEF Launch
    <2>2. call[w].plans \in SUBSET Attempts /\ \A a \in call[w].plans : MayPlay(a)
      BY <1>1 DEF Call, CallOK
    <2> QED BY <1>2, <1>3, <2>1, <2>2, CreatingStep DEF Launch
  <1>4. CASE Return(w) /\ UNCHANGED game
    BY <1>2, <1>4, ReturnsOK, WorkerStep DEF Launch
  <1> QED BY <1>3, <1>4 DEF Launch

LEMMA SafeRecord ==
  ASSUME Inv, NEW w \in Worker, Record(w)
  PROVE  Safe'
  <1> DEFINE a == call[w].of
  <1>1. call[w] \in Call /\ CallOK(w) /\ a \in Attempts /\ a[1] \in Nodes /\ a[2] \in Number
    BY AttemptShape DEF Inv, TypeOK, Call
  <1>2. game[a] \in Result
    BY <1>1 DEF Record, CallOK
  <1>3. game[a] # "none" /\ Paired(a[1])
    BY <1>1, <1>2 DEF Result, Inv, GamesOfPairs
  <1>4. \A b \in Attempts : attempt'[b].outcome # "absent" =>
          attempt[b].outcome # "absent" \/ game[b] # "none"
    BY <1>1, <1>3 DEF Record, Inv, TypeOK
  <1>5. (Grows => CallOK(w)') /\ \A v \in Worker \ {w} : call'[v] = call[v]
    <2>1. CASE ~RematchDue(a)
      BY <2>1, <1>2, GoesOK, GoesAlone DEF Record
    <2>2. CASE RematchDue(a)
      <3>0. PICK b : b = <<a[1], a[2] + 1>>
        OBVIOUS
      <3>1. call' = [call EXCEPT ![w].at = "launch", ![w].plans = {b}]
        BY <2>2, <3>0 DEF Record
      <3>2. a[2] = 1 /\ game[a] = "drawn" /\ a = <<a[1], 1>>
        BY <2>2, <1>1, AttemptShape DEF RematchDue, Number
      <3>3. b \in Attempts /\ b[1] = a[1] /\ MayPlay(b)
        BY <3>0, <3>2, <1>1, <1>3, MakeAttempt, 2 \in Number DEF MayPlay, Number
      <3>4. /\ call'[w].at = "launch" /\ call'[w].of = a /\ call'[w].plans = {b}
            /\ call'[w].made = call[w].made /\ call'[w].records = call[w].records
            /\ call'[w].applies = call[w].applies
            /\ \A v \in Worker \ {w} : call'[v] = call[v]
        BY <3>1, <1>1 DEF Inv, TypeOK, Call
      <3>5. ASSUME Grows
            PROVE  CallOK(w)'
        <4>1. MayPlay(b)'
          BY <3>3, <3>5, MayPlayStays
        <4>2. call[w].records \subseteq Number /\ call[w].applies \subseteq Number
              /\ call[w].made \subseteq Attempts
          BY <1>1 DEF Call
        <4>3. \A k \in call[w].records \cup call[w].applies : <<a[1], k>> \in Attempts
          BY <4>2, <1>1, MakeAttempt
        <4>4. /\ \A m \in call[w].made : game'[m] # "none"
              /\ \A k \in call[w].records : game'[<<a[1], k>>] # "none"
              /\ \A k \in call[w].applies : game'[<<a[1], k>>] \in Result
          BY <3>5, <4>2, <4>3, <1>1 DEF CallOK, Grows
        <4> QED BY <3>4, <4>1, <4>4 DEF CallOK
      <3> QED BY <3>4, <3>5
    <2> QED BY <2>1, <2>2
  <1> QED BY <1>4, <1>5, WorkerStep DEF Record

\* Whoever goes through, by a game or by default, sits in the node.
LEMMA WinnerIsSeated ==
  ASSUME TypeOK, NEW a \in Attempts, Paired(a[1])
  PROVE  /\ \A s \in Side : /\ SeatedIn(a, s) \in Nat \ {0}
                            /\ \E t \in Side : node[a[1]].seat[t] = SeatedIn(a, s)
         /\ game[a] \in Result =>
              /\ WinnerOf(a) \in Nat \ {0}
              /\ \E s \in Side : node[a[1]].seat[s] = WinnerOf(a)
         /\ \A present :
              /\ WinnerByAbsence(a, present) \in Nat \ {0}
              /\ \E s \in Side : node[a[1]].seat[s] = WinnerByAbsence(a, present)
  <1>1. a[1] \in Nodes
    BY AttemptShape
  <1>2. \A s \in Side : node[a[1]].seat[s] \in Nat \ {0}
    BY <1>1 DEF TypeOK, Node, Paired, Nobody
  <1>3. ASSUME NEW s \in Side
        PROVE  /\ SeatedIn(a, s) \in Nat \ {0}
               /\ \E t \in Side : node[a[1]].seat[t] = SeatedIn(a, s)
    <2>1. (IF a[2] = 1 THEN s ELSE Opposite(s)) \in Side
      BY DEF Opposite, Side
    <2> QED BY <1>2, <2>1 DEF SeatedIn
  <1>4. /\ HigherSeed(a[1]) \in Nat \ {0}
        /\ \E s \in Side : node[a[1]].seat[s] = HigherSeed(a[1])
    BY <1>2 DEF HigherSeed, Side
  <1>5. game[a] \in Result => game[a] = "drawn" \/ game[a] \in Side
    BY DEF Result, Side
  <1>6. \A present : (IF "light" \in present THEN "light" ELSE "dark") \in Side
    BY DEF Side
  <1>7. game[a] \in Result =>
          /\ WinnerOf(a) \in Nat \ {0}
          /\ \E s \in Side : node[a[1]].seat[s] = WinnerOf(a)
    BY <1>3, <1>4, <1>5 DEF WinnerOf
  <1>8. ASSUME NEW present
        PROVE  /\ WinnerByAbsence(a, present) \in Nat \ {0}
               /\ \E s \in Side : node[a[1]].seat[s] = WinnerByAbsence(a, present)
    <2>1. WinnerByAbsence(a, present) = HigherSeed(a[1])
          \/ \E s \in Side : WinnerByAbsence(a, present) = SeatedIn(a, s)
      BY <1>6 DEF WinnerByAbsence
    <2> QED BY <2>1, <1>3, <1>4
  <1> QED BY <1>3, <1>7, <1>8

\* A step that claims a node for one of its players.
LEMMA ClaimingStep ==
  ASSUME Inv, NEW w \in Worker, NEW n \in Nodes, NEW p \in Nat \ {0}, NEW why \in Reason,
         node[n].winner = Nobody, Paired(n), \E s \in Side : node[n].seat[s] = p,
         ClaimWinner(n, p, why),
         why = "played" =>
            \E k \in Number : game[<<n, k>>] \in Side /\ p = SeatedIn(<<n, k>>, game[<<n, k>>]),
         UNCHANGED <<status, round, attempt, game, owed>>,
         Grows => CallOK(w)',
         \A v \in Worker \ {w} : call'[v] = call[v]
  PROVE  Safe'
  <1>1. TypeOK /\ Seating /\ NoByeLeft /\ PlayedIsWon /\ OverIsOver
    BY DEF Inv
  <1>2. /\ Seating' /\ NoByeLeft'
        /\ \A m \in Nodes, s \in Side :
             node[m].seat[s] # Nobody => node'[m].seat[s] = node[m].seat[s]
        /\ \A m \in Nodes : node[m].winner # Nobody =>
             node'[m].winner = node[m].winner /\ node'[m].reason = node[m].reason
        /\ \A m \in Nodes : node'[m].reason = "played" =>
             \/ m = n /\ node'[m].winner = p /\ why = "played"
             \/ node[m].reason = "played" /\ node'[m].winner = node[m].winner
    BY <1>1, ClaimSeating
  <1>3. Grows
    BY <1>2 DEF Grows
  <1>4. GamesOfPairs'
    BY <1>3, GamesStay DEF Inv, GamesOfPairs
  <1>5. \A v \in Worker : CallOK(v)'
    BY <1>3, OthersStay
  <1>6. RoundsFollowTheBracket'
    BY <1>3, RoundsStay
  <1>7. OverIsOver'
    <2>1. status # "completed"
      <3>1. NeedsAMatch(n)
        BY DEF NeedsAMatch, Paired
      <3> QED BY <1>1, <3>1 DEF OverIsOver
    <2> QED BY <2>1 DEF OverIsOver
  <1>8. PlayedIsWon'
    <2> SUFFICES ASSUME NEW m \in Nodes, node'[m].reason = "played"
                 PROVE  \E k \in Number : game'[<<m, k>>] \in Side
                          /\ node'[m].winner = SeatedIn(<<m, k>>, game[<<m, k>>])'
      BY DEF PlayedIsWon
    <2>1. PICK k \in Number : game[<<m, k>>] \in Side
                              /\ node'[m].winner = SeatedIn(<<m, k>>, game[<<m, k>>])
      BY <1>1, <1>2 DEF PlayedIsWon
    <2>2. Paired(m)
      <3>1. <<m, k>> \in Attempts /\ <<m, k>>[1] = m
        BY MakeAttempt
      <3>2. game[<<m, k>>] # "none"
        BY <2>1 DEF Side
      <3> QED BY <3>1, <3>2 DEF Inv, GamesOfPairs
    <2>3. \A s \in Side : node'[m].seat[s] = node[m].seat[s]
      BY <2>2, <1>2 DEF Paired
    <2>4. \A s \in Side : SeatedIn(<<m, k>>, s)' = SeatedIn(<<m, k>>, s)
      BY <2>3 DEF SeatedIn, Opposite, Side
    <2>5. game' = game
      OBVIOUS
    <2>6. SeatedIn(<<m, k>>, game[<<m, k>>])' = SeatedIn(<<m, k>>, game[<<m, k>>])
      BY <2>1, <2>3, <2>5 DEF SeatedIn, Opposite, Side
    <2> QED BY <2>1, <2>5, <2>6
  <1> QED BY <1>2, <1>4, <1>5, <1>6, <1>7, <1>8 DEF Safe

LEMMA SafeAdvance ==
  ASSUME Inv, NEW w \in Worker, Advance(w)
  PROVE  Safe'
  <1>a. PICK a \in Attempts, n \in Nodes : a = call[w].of /\ n = a[1]
    BY AttemptShape DEF Inv, TypeOK, Call
  <1>p. PICK p : p = WinnerOf(a)
    OBVIOUS
  <1>1. a = call[w].of /\ n = a[1] /\ p = WinnerOf(a)
    BY <1>a, <1>p
  <1>2. call[w] \in Call /\ CallOK(w) /\ game[a] \in Result
    BY <1>1 DEF Inv, TypeOK, Advance, CallOK
  <1>3. Paired(n)
    BY <1>1, <1>2 DEF Inv, GamesOfPairs, Result
  <1>4. ~(Unclaimed(n, p) /\ ClaimWinner(n, p, ReasonOf(a)) /\ Goes(w, "progress")) => Safe'
    <2>1. ASSUME node[n].winner = p, Goes(w, "progress"), UNCHANGED node
          PROVE  Safe'
      BY <2>1, GoesOK, GoesAlone, WorkerStep DEF Advance
    <2>2. ASSUME Raise(w), UNCHANGED node
          PROVE  Safe'
      BY <2>2, RaiseOK, WorkerStep DEF Advance
    <2> QED BY <2>1, <2>2, <1>1 DEF Advance
  <1>5. CASE Unclaimed(n, p) /\ ClaimWinner(n, p, ReasonOf(a)) /\ Goes(w, "progress")
    <2>1. p \in Nat \ {0} /\ \E s \in Side : node[n].seat[s] = p
      BY <1>1, <1>2, <1>3, WinnerIsSeated DEF Inv
    <2>2. node[n].winner = Nobody /\ ReasonOf(a) \in Reason
      BY <1>5 DEF Unclaimed, ReasonOf, Reason
    <2>3. Inv /\ TypeOK /\ Seating /\ NoByeLeft
      BY DEF Inv
    <2>4. ReasonOf(a) = "played" =>
            \E k \in Number : game[<<n, k>>] \in Side /\ p = SeatedIn(<<n, k>>, game[<<n, k>>])
      <3>1. a = <<n, a[2]>> /\ a[2] \in Number
        BY <1>1, AttemptShape
      <3>2. game[a] # "drawn" => game[a] \in Side
        BY <1>2 DEF Result, Side
      <3> QED BY <3>1, <3>2, <1>1 DEF ReasonOf, WinnerOf
    <2>5. /\ UNCHANGED <<status, round, attempt, game, owed>>
          /\ Goes(w, "progress")
      BY <1>5 DEF Advance
    <2>6. Grows => CallOK(w)'
      BY <2>5, GoesOK
    <2>7. \A v \in Worker \ {w} : call'[v] = call[v]
      BY <2>5, GoesAlone
    <2> QED BY <1>3, <1>5, <2>1, <2>2, <2>4, <2>5, <2>6, <2>7, ClaimingStep
  <1> QED BY <1>4, <1>5

\* A step of w that writes the rounds.
LEMMA RoundsStep ==
  ASSUME Inv, NEW w \in Worker, UNCHANGED <<node, game, owed, attempt, status>>,
         \A v \in Worker \ {w} : call'[v] = call[v],
         Grows => CallOK(w)',
         Grows => RoundsFollowTheBracket'
  PROVE  Safe'
  <1>1. Grows /\ Seating' /\ NoByeLeft' /\ PlayedIsWon'
    BY BracketStays
  <1>2. GamesOfPairs'
    BY <1>1, GamesStay
  <1>3. \A v \in Worker : CallOK(v)'
    BY <1>1, OthersStay
  <1>4. OverIsOver'
    BY DEF Inv, OverIsOver, NeedsAMatch
  <1> QED BY <1>1, <1>2, <1>3, <1>4 DEF Safe

LEMMA SafeProgress ==
  ASSUME Inv, NEW w \in Worker, Progress(w)
  PROVE  Safe'
  <1>1. CASE Return(w)
    BY <1>1, ReturnsOK, WorkerStep DEF Progress
  <1>2. CASE ~Return(w)
    <2>1b. PICK c \in Call : c = call[w]
      BY DEF Inv, TypeOK
    <2>1c. PICK r : r = c.of[1][1]
      OBVIOUS
    <2>1. c = call[w] /\ r = c.of[1][1]
      BY <2>1b, <2>1c
    <2>2. c.of \in Attempts /\ c.of[1] \in Nodes /\ CallOK(w)
      BY <2>1, AttemptShape DEF Inv, Call
    <2>3. PICK plans : plans = PlansFor(InRound(r + 1))
      OBVIOUS
    <2>4. plans \in SUBSET Attempts /\ \A a \in plans : MayPlay(a)
      BY <2>3, PlansAreAttempts DEF InRound, MayPlay, NeedsAMatch, Paired
    <2>5. /\ call'[w].at = "open" /\ call'[w].of = c.of /\ call'[w].plans = plans
          /\ call'[w].made = c.made /\ call'[w].records = c.records
          /\ call'[w].applies = c.applies /\ call'[w].was.this = round[r]
          /\ \A v \in Worker \ {w} : call'[v] = call[v]
          /\ RoundDecided(r)
      BY <1>2, <2>1, <2>3 DEF Progress, Inv, TypeOK, Call
    <2>6. ASSUME Grows
          PROVE  CallOK(w)'
      <3>1. \A a \in plans : MayPlay(a)'
        BY <2>4, <2>6, MayPlayStays
      <3>2. /\ c.records \subseteq Number /\ c.applies \subseteq Number
            /\ c.made \subseteq Attempts
        BY DEF Call
      <3>3. \A k \in c.records \cup c.applies : <<c.of[1], k>> \in Attempts
        BY <3>2, <2>2, MakeAttempt
      <3>4. /\ \A m \in c.made : game'[m] # "none"
            /\ \A k \in c.records : game'[<<c.of[1], k>>] # "none"
            /\ \A k \in c.applies : game'[<<c.of[1], k>>] \in Result
        BY <2>1, <2>2, <2>6, <3>2, <3>3 DEF CallOK, Grows
      <3>5. \A m \in Nodes : m[1] = r => node'[m].winner # Nobody
        BY <2>5, <2>6 DEF RoundDecided, Grows, InRound
      <3>6. ASSUME NEW m \in Nodes, m[1] + 1 = r, round[r] # "pending"
            PROVE  node'[m].winner # Nobody
        <4>1. m[1] + 1 \in Rounds
          BY <2>1, <2>2, <3>6 DEF Rounds
        <4> QED BY <4>1, <3>6, <2>6 DEF Inv, RoundsFollowTheBracket, Grows
      <3> QED BY <2>1, <2>5, <3>1, <3>4, <3>5, <3>6 DEF CallOK
    <2> QED BY <2>5, <2>6, WorkerStep DEF Progress
  <1> QED BY <1>1, <1>2

LEMMA SafeOpen ==
  ASSUME Inv, NEW w \in Worker, Open(w)
  PROVE  Safe'
  <1>1b. PICK c \in Call : c = call[w]
    BY DEF Inv, TypeOK
  <1>1c. PICK r : r = c.of[1][1]
    OBVIOUS
  <1>1. c = call[w] /\ r = c.of[1][1]
    BY <1>1b, <1>1c
  <1>2. CallOK(w) /\ r \in Rounds /\ r \in Nat \ {0}
    BY <1>1, AttemptShape, NodeShape DEF Inv, Call, Rounds
  <1>3. CASE c.was.this = "pending"
    <2>1. Raise(w) /\ UNCHANGED <<round, game>>
      BY <1>1, <1>3 DEF Open
    <2> QED BY <2>1, RaiseOK, WorkerStep DEF Open
  <1>4. CASE c.was.this # "pending"
    <2>1. round' = [q \in Rounds |->
             CASE q = r /\ c.was.this # "completed" -> "completed"
               [] q = r + 1 /\ c.was.next = "pending" -> "started"
               [] OTHER -> round[q]]
      BY <1>1, <1>4 DEF Open
    <2>2. \A m \in Nodes : m[1] = r \/ m[1] + 1 = r => node[m].winner # Nobody
      BY <1>1, <1>2, <1>4 DEF Open, CallOK
    <2>3. Grows => RoundsFollowTheBracket'
      <3> SUFFICES ASSUME Grows, NEW n \in Nodes
                   PROVE  /\ round'[n[1]] = "completed" => node'[n].winner # Nobody
                          /\ n[1] + 1 \in Rounds /\ round'[n[1] + 1] # "pending" =>
                               node'[n].winner # Nobody
        BY DEF RoundsFollowTheBracket
      <3>1. n[1] \in Rounds /\ n[1] \in Nat
        BY NodeShape DEF Rounds
      <3>2. node[n].winner # Nobody => node'[n].winner # Nobody
        BY DEF Grows
      <3>3. CASE n[1] = r \/ n[1] + 1 = r
        BY <3>2, <3>3, <2>2
      <3>4. CASE ~(n[1] = r \/ n[1] + 1 = r)
        <4>1. n[1] + 1 # r + 1
          BY <3>1, <3>4, <1>2
        <4>2. /\ round'[n[1]] = "completed" => round[n[1]] = "completed"
              /\ n[1] + 1 \in Rounds => round'[n[1] + 1] = round[n[1] + 1]
          BY <2>1, <3>1, <3>4, <4>1
        <4> QED BY <4>2, <3>2 DEF Inv, RoundsFollowTheBracket
      <3> QED BY <3>3, <3>4
    <2>4. CASE Goes(w, "finish") /\ UNCHANGED game
      <3>1. Grows => CallOK(w)'
        BY <2>4, GoesOK
      <3>2. \A v \in Worker \ {w} : call'[v] = call[v]
        BY <2>4, GoesAlone
      <3> QED BY <2>3, <2>4, <3>1, <3>2, RoundsStep DEF Open
    <2>5. CASE CreateFirst(w, call[w].plans)
      <3>1. call[w].plans \in SUBSET Attempts /\ \A a \in call[w].plans : MayPlay(a)
        BY <1>1, <1>2 DEF Call, CallOK
      <3> QED BY <2>3, <2>5, <3>1, CreatingStep DEF Open
    <2>6. CASE Return(w) /\ UNCHANGED game
      BY <2>3, <2>6, ReturnsOK, RoundsStep DEF Open
    <2> QED BY <1>1, <1>4, <2>4, <2>5, <2>6 DEF Open
  <1> QED BY <1>3, <1>4

LEMMA SafeFinish ==
  ASSUME Inv, NEW w \in Worker, Finish(w)
  PROVE  Safe'
  <1>1. (Grows => CallOK(w)') /\ \A v \in Worker \ {w} : call'[v] = call[v]
    BY RaiseOK, ReturnsOK DEF Finish
  <1>2. CASE UNCHANGED status
    BY <1>1, <1>2, WorkerStep DEF Finish
  <1>3. CASE Decided
    <2>1. Grows /\ Seating' /\ NoByeLeft' /\ PlayedIsWon'
      BY BracketStays DEF Finish
    <2>2. GamesOfPairs'
      BY <2>1, GamesStay DEF Finish
    <2>3. \A v \in Worker : CallOK(v)'
      BY <1>1, <2>1, OthersStay
    <2>4. RoundsFollowTheBracket'
      BY <2>1, RoundsStay DEF Finish
    <2>5. OverIsOver'
      BY <1>3 DEF Finish, OverIsOver, Decided, NeedsAMatch
    <2> QED BY <2>1, <2>2, <2>3, <2>4, <2>5 DEF Safe
  <1> QED BY <1>2, <1>3 DEF Finish

LEMMA SafeDeliver ==
  ASSUME Inv, NEW w \in Worker, NEW b \in Attempts, Deliver(w, b)
  PROVE  Safe'
  <1>1. PICK at \in {"handled", "record"} :
          call' = [call EXCEPT ![w] = [Idle EXCEPT !.of = b, !.at = at]]
    BY DEF Deliver
  <1>2. call'[w] = [Idle EXCEPT !.of = b, !.at = at] /\ \A v \in Worker \ {w} : call'[v] = call[v]
    BY <1>1 DEF Inv, TypeOK
  <1>3. game[b] \in Result /\ game' = game
    BY DEF Deliver, Inv, GamesOfPairs
  <1>4. CallOK(w)'
    BY <1>2, <1>3 DEF CallOK, Idle
  <1> QED BY <1>2, <1>4, WorkerStep DEF Deliver

LEMMA SafeAcknowledge ==
  ASSUME Inv, NEW w \in Worker, Acknowledge(w)
  PROVE  Safe'
  BY RaiseOK, WorkerStep DEF Acknowledge

LEMMA SafeRepair ==
  ASSUME Inv, NEW w \in Worker, NEW n \in Nodes, Repair(w, n)
  PROVE  Safe'
  <1>1. PICK known, found, latest, due :
          /\ known = {k \in Number : attempt[<<n, k>>].outcome # "absent"}
          /\ found = {k \in Number : game[<<n, k>>] # "none"}
          /\ latest = (IF 2 \in known \cup found THEN 2 ELSE 1)
          /\ due = {k \in found : NeedsApplying(<<n, k>>, latest)}
    OBVIOUS
  <1>2. MayPlay(<<n, 1>>)
    BY DEF Repair, NeedsAMatch, MayPlay, Paired
  <1>3. CASE call' = [call EXCEPT ![w] =
               [Idle EXCEPT !.at = "launch", !.of = <<n, 1>>, !.plans = {<<n, 1>>}]]
    <2>1. /\ call'[w] = [Idle EXCEPT !.at = "launch", !.of = <<n, 1>>, !.plans = {<<n, 1>>}]
          /\ \A v \in Worker \ {w} : call'[v] = call[v]
      BY <1>3 DEF Inv, TypeOK
    <2>2. MayPlay(<<n, 1>>)'
      <3>1. Grows /\ <<n, 1>> \in Attempts
        BY BracketStays, MakeAttempt, 1 \in Number DEF Repair, Number
      <3> QED BY <3>1, <1>2, MayPlayStays
    <2>3. CallOK(w)'
      BY <2>1, <2>2 DEF CallOK, Idle
    <2> QED BY <2>1, <2>3, WorkerStep DEF Repair
  <1>4. CASE call' = [call EXCEPT ![w] =
               [Idle EXCEPT !.at = "repair", !.of = <<n, 1>>,
                            !.records = found \ known, !.applies = due]]
    <2>1. /\ call'[w] = [Idle EXCEPT !.at = "repair", !.of = <<n, 1>>,
                                     !.records = found \ known, !.applies = due]
          /\ \A v \in Worker \ {w} : call'[v] = call[v]
      BY <1>4 DEF Inv, TypeOK
    <2>2. /\ \A k \in found \ known : game[<<n, k>>] # "none"
          /\ \A k \in due : game[<<n, k>>] \in Result
      BY <1>1 DEF NeedsApplying
    <2>3. game' = game
      BY DEF Repair
    <2>4. CallOK(w)'
      BY <2>1, <2>2, <2>3 DEF CallOK, Idle
    <2> QED BY <2>1, <2>4, WorkerStep DEF Repair
  <1> QED BY <1>1, <1>3, <1>4 DEF Repair

LEMMA SafeRecordMissing ==
  ASSUME Inv, NEW w \in Worker, RecordMissing(w)
  PROVE  Safe'
  <1>1. PICK c \in Call, n \in Nodes : c = call[w] /\ n = c.of[1]
    BY AttemptShape DEF Inv, TypeOK, Call
  <1>2. PICK k \in c.records :
          \/ /\ attempt[<<n, k>>].outcome = "absent"
             /\ attempt' = [attempt EXCEPT ![<<n, k>>].outcome = "open"]
             /\ call' = [call EXCEPT ![w].records = @ \ {k}]
          \/ Raise(w) /\ UNCHANGED attempt
    BY <1>1 DEF RecordMissing
  <1>3. CASE Raise(w) /\ UNCHANGED attempt
    BY <1>3, RaiseOK, WorkerStep DEF RecordMissing
  <1>4. CASE /\ attempt' = [attempt EXCEPT ![<<n, k>>].outcome = "open"]
             /\ call' = [call EXCEPT ![w].records = @ \ {k}]
    <2>1. CallOK(w) /\ k \in Number
      BY <1>1 DEF Inv, Call
    <2>2. game[<<n, k>>] # "none" /\ <<n, k>> \in Attempts
      BY <1>1, <2>1, MakeAttempt DEF CallOK
    <2>3. \A a \in Attempts : attempt'[a].outcome # "absent" =>
            attempt[a].outcome # "absent" \/ game[a] # "none"
      BY <1>4, <2>2 DEF Inv, TypeOK
    <2>4. /\ call'[w].at = c.at /\ call'[w].of = c.of /\ call'[w].plans = c.plans
          /\ call'[w].made = c.made /\ call'[w].records = c.records \ {k}
          /\ call'[w].applies = c.applies /\ call'[w].was = c.was
          /\ \A v \in Worker \ {w} : call'[v] = call[v]
      BY <1>1, <1>4 DEF Inv, TypeOK, Call
    <2>5. UNCHANGED <<node, game>>
      BY DEF RecordMissing
    <2>6. \A a \in Attempts : MayPlay(a)' = MayPlay(a)
      BY <2>5 DEF MayPlay, Paired
    <2>7. \A a \in c.plans : MayPlay(a)'
      BY <1>1, <2>1, <2>6 DEF Call, CallOK
    <2>8. CallOK(w)'
      BY <1>1, <2>1, <2>4, <2>5, <2>7 DEF CallOK, RecordMissing
    <2> QED BY <2>3, <2>4, <2>8, WorkerStep DEF RecordMissing
  <1> QED BY <1>2, <1>3, <1>4

LEMMA SafeReapply ==
  ASSUME Inv, NEW w \in Worker, Reapply(w)
  PROVE  Safe'
  <1>1. PICK c \in Call, n \in Nodes : c = call[w] /\ n = c.of[1]
    BY AttemptShape DEF Inv, TypeOK, Call
  <1>2. CASE Raise(w)
    BY <1>2, RaiseOK, WorkerStep DEF Reapply
  <1>3. CASE ~Raise(w)
    <2>1. PICK k \in c.applies :
            call' = [call EXCEPT
               ![w].of = <<@[1], k>>, ![w].applies = @ \ {k},
               ![w].at = IF status = "in_progress" THEN "record" ELSE @]
      BY <1>1, <1>3 DEF Reapply
    <2>2. CallOK(w) /\ k \in Number /\ c.at = "repair" /\ c.records = {}
      BY <1>1 DEF Inv, Call, Reapply
    <2>3. PICK b \in Attempts : b = <<n, k>> /\ b[1] = n
      <3>1. <<n, k>> \in Attempts /\ <<n, k>>[1] = n
        BY <2>2, MakeAttempt
      <3> QED BY <3>1
    <2>4. game[b] \in Result
      BY <1>1, <2>2, <2>3 DEF CallOK
    <2>5. /\ call'[w].at \in {"record", "repair"} /\ call'[w].of = b
          /\ call'[w].plans = c.plans
          /\ call'[w].made = c.made /\ call'[w].records = c.records
          /\ call'[w].applies = c.applies \ {k}
          /\ \A v \in Worker \ {w} : call'[v] = call[v]
      BY <1>1, <2>1, <2>2, <2>3 DEF Inv, TypeOK, Call
    <2>6. UNCHANGED <<node, game>>
      BY DEF Reapply
    <2>7. \A a \in Attempts : MayPlay(a)' = MayPlay(a)
      BY <2>6 DEF MayPlay, Paired
    <2>8. \A a \in c.plans : MayPlay(a)'
      BY <1>1, <2>2, <2>7 DEF Call, CallOK
    <2>9. CallOK(w)'
      BY <1>1, <2>2, <2>3, <2>4, <2>5, <2>6, <2>8 DEF CallOK
    <2> QED BY <2>5, <2>9, WorkerStep DEF Reapply
  <1> QED BY <1>2, <1>3

\* A step that makes no match, although a match may end.
LEMMA SameGames ==
  ASSUME Inv, Grows, UNCHANGED attempt,
         \A a \in Attempts : game[a] = "none" => game'[a] = "none",
         \A a \in owed' : game'[a] \in Result
  PROVE  GamesOfPairs'
  <1>1. ASSUME NEW a \in Attempts, game'[a] # "none" \/ attempt'[a].outcome # "absent"
        PROVE  Paired(a[1])'
    <2>1. Paired(a[1]) /\ a[1] \in Nodes
      BY <1>1, AttemptShape DEF Inv, GamesOfPairs
    <2> QED BY <2>1, PairedStays
  <1>2. ASSUME NEW n \in Nodes, game'[<<n, 2>>] # "none"
        PROVE  game'[<<n, 1>>] = "drawn"
    <2>1. <<n, 1>> \in Attempts /\ <<n, 2>> \in Attempts
      BY MakeAttempt, 1 \in Number, 2 \in Number DEF Number
    <2>2. game[<<n, 1>>] = "drawn" /\ "drawn" \in Result
      BY <1>2, <2>1 DEF Inv, GamesOfPairs, Result
    <2> QED BY <2>1, <2>2 DEF Grows
  <1> QED BY <1>1, <1>2 DEF GamesOfPairs

LEMMA SafeClaimNoShow ==
  ASSUME Inv, NEW w \in Worker, NEW b \in Attempts, ClaimNoShow(w, b)
  PROVE  Safe'
  <1>1. PICK present \in SUBSET Side :
          call' = [call EXCEPT ![w] = [Idle EXCEPT !.at = "claimed", !.of = b, !.present = present]]
    BY DEF ClaimNoShow
  <1>2. /\ call'[w] = [Idle EXCEPT !.at = "claimed", !.of = b, !.present = present]
        /\ \A v \in Worker \ {w} : call'[v] = call[v]
    BY <1>1 DEF Inv, TypeOK
  <1>3. Paired(b[1]) /\ node' = node
    BY DEF ClaimNoShow, Inv, GamesOfPairs
  <1>4. call'[w].of = b /\ call'[w].at = "claimed" /\ call'[w].plans = {}
        /\ call'[w].made = {} /\ call'[w].records = {} /\ call'[w].applies = {}
    BY <1>2 DEF Idle
  <1>5. CallOK(w)'
    BY <1>3, <1>4 DEF CallOK, Paired
  <1> QED BY <1>2, <1>5, WorkerStep DEF ClaimNoShow

LEMMA SafeDecideNoShow ==
  ASSUME Inv, NEW w \in Worker, DecideNoShow(w)
  PROVE  Safe'
  <1>1. Paired(call[w].of[1])
    BY DEF DecideNoShow, Inv, CallOK
  <1>2. CASE Raise(w)
    BY <1>2, RaiseOK, WorkerStep DEF DecideNoShow
  <1>3. CASE Goes(w, "record") /\ game[call[w].of] \in Result
    BY <1>3, GoesOK, GoesAlone, WorkerStep DEF DecideNoShow
  <1>4. CASE Goes(w, "absence")
    BY <1>1, <1>4, GoesOK, GoesAlone, WorkerStep DEF DecideNoShow
  <1> QED BY <1>2, <1>3, <1>4 DEF DecideNoShow

LEMMA SafeRecordNoShow ==
  ASSUME Inv, NEW w \in Worker, RecordNoShow(w)
  PROVE  Safe'
  <1>1. Paired(call[w].of[1])
    BY DEF RecordNoShow, Inv, CallOK
  <1>2. \A a \in Attempts : attempt'[a].outcome # "absent" => attempt[a].outcome # "absent"
    BY DEF RecordNoShow, Inv, TypeOK
  <1> QED BY <1>1, <1>2, GoesOK, GoesAlone, WorkerStep DEF RecordNoShow

LEMMA SafeCloseMatch ==
  ASSUME Inv, NEW w \in Worker, CloseMatch(w)
  PROVE  Safe'
  <1>1. PICK b \in Attempts : b = call[w].of
    BY DEF Inv, TypeOK, Call
  <1>2. game' = [game EXCEPT ![b] = IF @ = "live" THEN "aborted" ELSE @]
    BY <1>1 DEF CloseMatch
  <1>3. /\ \A a \in Attempts : game[a] # "none" => game'[a] # "none"
        /\ \A a \in Attempts : game[a] \in Result => game'[a] = game[a]
        /\ \A a \in Attempts : game[a] = "none" => game'[a] = "none"
    BY <1>2 DEF Inv, TypeOK, Result
  <1>4. Grows /\ Seating' /\ NoByeLeft' /\ PlayedIsWon'
    BY <1>3, BracketStays DEF CloseMatch
  <1>5. Paired(call[w].of[1])
    BY DEF CloseMatch, Inv, CallOK
  <1>6. GamesOfPairs'
    <2>1. \A a \in owed' : game'[a] \in Result
      BY <1>3 DEF CloseMatch, Inv, TypeOK, GamesOfPairs
    <2> QED BY <2>1, <1>3, <1>4, SameGames DEF CloseMatch
  <1>7. \A v \in Worker : CallOK(v)'
    BY <1>4, <1>5, GoesOK, GoesAlone, OthersStay DEF CloseMatch
  <1>8. RoundsFollowTheBracket'
    BY <1>4, RoundsStay DEF CloseMatch
  <1>9. OverIsOver'
    BY DEF Inv, OverIsOver, NeedsAMatch, CloseMatch
  <1> QED BY <1>4, <1>6, <1>7, <1>8, <1>9 DEF Safe

LEMMA SafeWalkOver ==
  ASSUME Inv, NEW w \in Worker, WalkOver(w)
  PROVE  Safe'
  <1>1b. PICK a \in Attempts, n \in Nodes : a = call[w].of /\ n = a[1]
    BY AttemptShape DEF Inv, TypeOK, Call
  <1>1c. PICK p : p = WinnerByAbsence(a, call[w].present)
    OBVIOUS
  <1>1. a = call[w].of /\ n = a[1] /\ p = WinnerByAbsence(a, call[w].present)
    BY <1>1b, <1>1c
  <1>2. Paired(n)
    BY <1>1 DEF WalkOver, Inv, CallOK
  <1>3. CASE UNCHANGED node
    BY <1>3, RaiseOK, WorkerStep DEF WalkOver
  <1>4. CASE Unclaimed(n, p) /\ ClaimWinner(n, p, "adjudication")
    <2>1. p \in Nat \ {0} /\ \E s \in Side : node[n].seat[s] = p
      BY <1>1, <1>2, WinnerIsSeated DEF Inv
    <2>2. node[n].winner = Nobody /\ "adjudication" \in Reason /\ "adjudication" # "played"
      BY <1>4 DEF Unclaimed, Reason
    <2>3. CallOK(w)' /\ \A v \in Worker \ {w} : call'[v] = call[v]
      BY RaiseOK DEF WalkOver
    <2> QED BY <1>2, <1>4, <2>1, <2>2, <2>3, ClaimingStep DEF WalkOver
  <1> QED BY <1>1, <1>3, <1>4 DEF WalkOver

LEMMA SafeGameEnds ==
  ASSUME Inv, NEW b \in Attempts, NEW result \in Result, GameEnds(b, result)
  PROVE  Safe'
  <1>1. game' = [game EXCEPT ![b] = result] /\ owed' = owed \cup {b} /\ game[b] = "live"
    BY DEF GameEnds
  <1>2. /\ \A a \in Attempts : game[a] # "none" => game'[a] # "none"
        /\ \A a \in Attempts : game[a] \in Result => game'[a] = game[a]
        /\ \A a \in Attempts : game[a] = "none" => game'[a] = "none"
        /\ \A a \in owed' : game'[a] \in Result
    <2>1. game \in [Attempts -> Game]
      BY DEF Inv, TypeOK
    <2>2. \A a \in owed : game[a] \in Result /\ a \in Attempts
      BY DEF Inv, TypeOK, GamesOfPairs
    <2> QED BY <1>1, <2>1, <2>2 DEF Result
  <1>3. Grows /\ Seating' /\ NoByeLeft' /\ PlayedIsWon'
    BY <1>2, BracketStays DEF GameEnds
  <1>4. GamesOfPairs'
    BY <1>2, <1>3, SameGames DEF GameEnds
  <1>5. \A v \in Worker : CallOK(v)'
    BY <1>3, CallStays DEF Inv, GameEnds
  <1>6. RoundsFollowTheBracket'
    BY <1>3, RoundsStay DEF GameEnds
  <1>7. OverIsOver'
    BY DEF Inv, OverIsOver, NeedsAMatch, GameEnds
  <1> QED BY <1>3, <1>4, <1>5, <1>6, <1>7 DEF Safe

LEMMA SafeCrash ==
  ASSUME Inv, NEW w \in Worker, Crash(w)
  PROVE  Safe'
  BY RaiseOK, WorkerStep DEF Crash

LEMMA SafeStutter ==
  ASSUME Inv, UNCHANGED vars
  PROVE  Safe'
  <1>1. Grows /\ Seating' /\ NoByeLeft' /\ PlayedIsWon'
    BY BracketStays DEF vars
  <1>2. GamesOfPairs'
    BY <1>1, GamesStay DEF vars
  <1>3. \A v \in Worker : CallOK(v)'
    BY <1>1, CallStays DEF Inv, vars
  <1>4. RoundsFollowTheBracket'
    BY <1>1, RoundsStay DEF vars
  <1>5. OverIsOver'
    BY DEF Inv, OverIsOver, NeedsAMatch, vars
  <1> QED BY <1>1, <1>2, <1>3, <1>4, <1>5 DEF Safe

LEMMA SafeStep ==
  ASSUME Inv, [Next]_vars
  PROVE  Safe'
  <1>1. ASSUME NEW w \in Worker, Continue(w)
        PROVE  Safe'
    BY <1>1, SafeLaunch, SafeRecord, SafeAdvance, SafeProgress, SafeOpen, SafeFinish,
       SafeAcknowledge, SafeRecordMissing, SafeReapply, SafeDecideNoShow, SafeRecordNoShow,
       SafeCloseMatch, SafeWalkOver
    DEF Continue
  <1> QED BY <1>1, SafeStart, SafeCrash, SafeDeliver, SafeClaimNoShow, SafeRepair,
             SafeGameEnds, SafeStutter
      DEF Next

-----------------------------------------------------------------------------
(* The draw *)

LEMMA Drawn ==
  ASSUME NEW n \in FirstRound
  PROVE  /\ n \in Nodes /\ n[1] = 1 /\ Seats[n] \in [Side -> Nat]
         /\ Alone(n) => Sole(Seats[n]) # Nobody
         /\ ~Alone(n) => \A s \in Side : Seats[n][s] # Nobody
         /\ {Seats[n][s] : s \in Side} \ {Nobody} # {}
         /\ Alone(n) => {Seats[n][s] : s \in Side} \ {Nobody} = {Sole(Seats[n])}
  <1>1. n \in Nodes /\ n[1] = 1
    BY DEF FirstRound
  <1>2. Seats[n] \in [Side -> Nat] /\ \E s \in Side : Seats[n][s] # Nobody
    BY BracketAssumption
  <1>3. {Seats[n][s] : s \in Side} = {Seats[n]["light"], Seats[n]["dark"]}
    BY DEF Side
  <1>4. Alone(n) => Seats[n]["light"] = Nobody \/ Seats[n]["dark"] = Nobody
    BY DEF Alone, Side
  <1>5. Seats[n]["light"] # Nobody \/ Seats[n]["dark"] # Nobody
    BY <1>2 DEF Side
  <1>6. Alone(n) => {Seats[n][s] : s \in Side} \ {Nobody} = {Sole(Seats[n])}
    BY <1>3, <1>4, <1>5 DEF Sole
  <1> QED BY <1>1, <1>2, <1>3, <1>5, <1>6 DEF Alone, Sole, Side

\* The bracket before its first match.
LEMMA DrawnBracket ==
  ASSUME Init
  PROVE  /\ \A n \in FirstRound :
              /\ node[n].seat = Seats[n]
              /\ node[n].winner = IF Alone(n) THEN Sole(Seats[n]) ELSE Nobody
         /\ \A n \in Nodes : n[1] # 1 =>
              /\ node[n].winner = Nobody
              /\ \A c \in Children(n) :
                   node[n].seat[SeatOfParent(c)] =
                     IF Alone(c) THEN Sole(Seats[c]) ELSE Nobody
         /\ \A n \in Nodes : node[n].reason # "played"
  <1> DEFINE by(n, s) == {c \in Children(n) : SeatOfParent(c) = s /\ Alone(c)}
             seat(n) == IF n[1] = 1 THEN Seats[n]
                        ELSE [s \in Side |-> IF by(n, s) = {} THEN Nobody
                                   ELSE Sole(Seats[CHOOSE c \in by(n, s) : TRUE])]
  <1>1. ASSUME NEW n \in Nodes
        PROVE  /\ node[n].seat = seat(n)
               /\ node[n].winner = IF Alone(n) THEN Sole(seat(n)) ELSE Nobody
               /\ node[n].reason # "played"
    <2>1. node[n] = [seat |-> seat(n), winner |-> IF Alone(n) THEN Sole(seat(n)) ELSE Nobody,
                     reason |-> IF Alone(n) THEN "bye" ELSE "none"]
      BY DEF Init, Materialised
    <2> HIDE DEF seat
    <2> QED BY <2>1
  <1>2. ASSUME NEW n \in FirstRound
        PROVE  /\ node[n].seat = Seats[n]
               /\ node[n].winner = IF Alone(n) THEN Sole(Seats[n]) ELSE Nobody
    <2>1. n \in Nodes /\ seat(n) = Seats[n]
      BY DEF FirstRound
    <2> HIDE DEF seat
    <2> QED BY <2>1, <1>1
  <1>3. ASSUME NEW n \in Nodes, n[1] # 1
        PROVE  /\ node[n].winner = Nobody
               /\ \A c \in Children(n) :
                    node[n].seat[SeatOfParent(c)] =
                      IF Alone(c) THEN Sole(Seats[c]) ELSE Nobody
    <2>1. node[n].winner = Nobody
      BY <1>1, <1>3 DEF Alone
    <2>2. ASSUME NEW c \in Children(n)
          PROVE  node[n].seat[SeatOfParent(c)] = IF Alone(c) THEN Sole(Seats[c]) ELSE Nobody
      <3> DEFINE s == SeatOfParent(c)
      <3>1. s \in Side
        BY DEF SeatOfParent, Side
      <3>2. \A d \in by(n, s) : d = c
        BY OneChildPerSeat DEF Children
      <3>3. by(n, s) = IF Alone(c) THEN {c} ELSE {}
        BY <3>2
      <3>4. seat(n)[s] = IF by(n, s) = {} THEN Nobody
                         ELSE Sole(Seats[CHOOSE d \in by(n, s) : TRUE])
        BY <1>3, <3>1
      <3> HIDE DEF by, seat
      <3>5. CASE Alone(c)
        <4>1. (CHOOSE d \in by(n, s) : TRUE) = c
          BY <3>3, <3>5
        <4> QED BY <4>1, <3>3, <3>4, <3>5, <1>1
      <3>6. CASE ~Alone(c)
        BY <3>3, <3>4, <3>6, <1>1
      <3> QED BY <3>5, <3>6
    <2> QED BY <2>1, <2>2
  <1> HIDE DEF seat, by
  <1> QED BY <1>1, <1>2, <1>3

LEMMA NodeInRounds ==
  ASSUME NEW n \in Nodes
  PROVE  n[1] \in Rounds /\ n[1] + 1 # 1
  <1>1. n[1] \in Nat \ {0}
    BY NodeShape
  <1> QED BY <1>1 DEF Rounds

LEMMA SafeInit ==
  ASSUME Init
  PROVE  Safe
  <1>1. TypeOK
    BY TypeInit
  <1>2. Seating
    <2>1. ASSUME NEW c \in Nodes, Parent(c) \in Nodes
          PROVE  node[Parent(c)].seat[SeatOfParent(c)] = node[c].winner
      <3>1. c \in Children(Parent(c))
        BY DEF Children
      <3>2. Parent(c)[1] = c[1] + 1 /\ c[1] \in Nat \ {0}
        BY NodeShape, <3>1, <2>1, ChildIsBelow
      <3>3. node[Parent(c)].seat[SeatOfParent(c)] = IF Alone(c) THEN Sole(Seats[c]) ELSE Nobody
        BY <2>1, <3>1, <3>2, DrawnBracket
      <3>4. CASE c[1] = 1
        BY <3>3, <3>4, DrawnBracket DEF FirstRound
      <3>5. CASE c[1] # 1
        BY <3>3, <3>5, DrawnBracket DEF Alone
      <3> QED BY <3>4, <3>5
    <2> QED BY <2>1, DrawnBracket DEF Seating
  <1>3. NoByeLeft
    <2> SUFFICES ASSUME NEW m \in Nodes, node[m].winner = Nobody,
                        Cardinality(Participants(node[m])) = 1, ChildrenSettled(node, m)
                 PROVE  FALSE
      BY DEF NoByeLeft
    <2>1. node[m] \in Node
      BY <1>1 DEF TypeOK
    <2>2. Participants(node[m]) = {Sole(node[m].seat)} /\ Sole(node[m].seat) # Nobody
      BY <2>1, SoleParticipant
    <2>3. CASE m[1] = 1
      <3>1. m \in FirstRound /\ node[m].seat = Seats[m] /\ ~Alone(m)
        BY <2>3, DrawnBracket, Drawn DEF FirstRound
      <3>2. Seats[m]["light"] # Nobody /\ Seats[m]["dark"] # Nobody
        BY <3>1, Drawn DEF Side
      <3>3. Seats[m]["light"] # Seats[m]["dark"]
        BY <3>1, <3>2, BracketAssumption DEF Side
      <3> QED BY <3>1, <3>2, <3>3, <2>2 DEF Participants, Side
    <2>4. CASE m[1] # 1
      <3>1. PICK s \in Side : node[m].seat[s] # Nobody
        BY <2>2 DEF Sole, Side, Participants
      <3>2. PICK c \in Children(m) : SeatOfParent(c) = s
        BY <2>4, ChildOfSeat
      <3>3. Alone(c)
        BY <2>4, <3>1, <3>2, DrawnBracket
      <3>4. c \in Nodes /\ m[1] = c[1] + 1 /\ c[1] = 1
        BY <3>3, ChildIsBelow DEF Alone
      <3>5. PICK t \in Side : t # s
        BY DEF Side
      <3>6. PICK d \in Children(m) : SeatOfParent(d) = t
        BY <2>4, ChildOfSeat
      <3>7. d \in Nodes /\ m[1] = d[1] + 1
        BY ChildIsBelow
      <3>8. d \in FirstRound /\ c \in FirstRound
        BY <3>4, <3>7, NodeShape DEF FirstRound
      <3>9. Participants(node[d]) # {}
        BY <3>8, DrawnBracket, Drawn DEF Participants
      <3>10. node[d].winner # Nobody
        BY <3>4, <3>9, <2>4 DEF ChildrenSettled
      <3>11. Alone(d)
        BY <3>8, <3>10, DrawnBracket
      <3>12. node[m].seat[s] = Sole(Seats[c]) /\ node[m].seat[t] = Sole(Seats[d])
        BY <2>4, <3>2, <3>3, <3>6, <3>11, DrawnBracket
      <3>13. c # d /\ Sole(Seats[c]) # Nobody /\ Sole(Seats[d]) # Nobody
        BY <3>2, <3>3, <3>5, <3>6, <3>8, <3>11, Drawn
      <3>14. \A n \in FirstRound : Sole(Seats[n]) \in {Seats[n][u] : u \in Side}
        BY DEF Sole, Side
      <3>15. Sole(Seats[c]) # Sole(Seats[d])
        BY <3>8, <3>13, <3>14, BracketAssumption
      <3>16. node[m].seat[s] \in Participants(node[m]) /\ node[m].seat[t] \in Participants(node[m])
        BY <3>12, <3>13 DEF Participants
      <3> QED BY <2>2, <3>12, <3>15, <3>16
    <2> QED BY <2>3, <2>4
  <1>4. GamesOfPairs
    <2>1. \A n \in Nodes : <<n, 2>> \in Attempts
      BY MakeAttempt, 2 \in Number DEF Number
    <2> QED BY <2>1 DEF Init, GamesOfPairs, NoAttempt
  <1>5. PlayedIsWon
    BY DrawnBracket DEF PlayedIsWon
  <1>6. \A w \in Worker : CallOK(w)
    BY DEF Init, CallOK, Idle
  <1>7. RoundsFollowTheBracket
    <2> SUFFICES ASSUME NEW n \in Nodes
                 PROVE  /\ round[n[1]] # "completed"
                        /\ n[1] + 1 \in Rounds => round[n[1] + 1] = "pending"
      BY DEF RoundsFollowTheBracket
    <2>1. n[1] \in Rounds /\ n[1] + 1 # 1
      BY NodeInRounds
    <2> QED BY <2>1 DEF Init
  <1>8. OverIsOver
    BY DEF Init, OverIsOver
  <1> QED BY <1>2, <1>3, <1>4, <1>5, <1>6, <1>7, <1>8 DEF Safe

-----------------------------------------------------------------------------

LEMMA InvHolds == Spec => []Inv
  <1>1. Init => Inv
    BY TypeInit, SafeInit DEF Inv, Safe
  <1>2. Inv /\ [Next]_vars => Inv'
    <2> SUFFICES ASSUME Inv, [Next]_vars
                 PROVE  Inv'
      OBVIOUS
    <2>1. TypeOK'
      BY TypeStep DEF Inv, CallOK
    <2>2. Safe'
      BY SafeStep
    <2> QED BY <2>1, <2>2 DEF Inv, Safe
  <1> QED BY <1>1, <1>2, PTL DEF Spec

\* Whatever the workers do to each other, every row holds what its column
\* allows: the type invariant of the bracket.
THEOREM TypeCorrect == Spec => []TypeOK
  <1>1. Inv => TypeOK
    BY DEF Inv
  <1> QED BY <1>1, InvHolds, PTL

\* A node said to be won by play was won in one of its matches, by the colours
\* that match was played with, and a second match follows only a drawn one
\* (`_winner_of`, `rematch_seats`, `decide`).
THEOREM WonAsPlayedHolds == Spec => []WonAsPlayed
  <1>1. Inv => WonAsPlayed
    BY DEF Inv, GamesOfPairs, PlayedIsWon, WonAsPlayed
  <1> QED BY <1>1, InvHolds, PTL

\* No round is over, and no next round is announced, while a node of it is
\* undecided, although `_progress` reads the bracket and the rounds without a
\* lock and writes them later.
THEOREM RoundsFollow == Spec => []RoundsFollowTheBracket
  <1>1. Inv => RoundsFollowTheBracket
    BY DEF Inv
  <1> QED BY <1>1, InvHolds, PTL

-----------------------------------------------------------------------------
(* The bracket is a knockout *)

LEMMA KnockoutInit ==
  ASSUME Init
  PROVE  Bracket!Init
  <1> DEFINE Entrants == [n \in FirstRound |-> {Seats[n][s] : s \in Side} \ {Nobody}]
             Unopposed(n) == IF n[1] = 1 THEN {p \in Entrants[n] : Entrants[n] = {p}} ELSE {}
  <1>1. ASSUME NEW n \in Nodes
        PROVE  node[n].winner = IF Unopposed(n) = {} THEN Nobody
                                ELSE CHOOSE p \in Unopposed(n) : TRUE
    <2>1. CASE n[1] # 1
      BY <2>1, DrawnBracket
    <2>2. CASE n[1] = 1
      <3>1. n \in FirstRound
        BY <2>2 DEF FirstRound
      <3>2. node[n].winner = IF Alone(n) THEN Sole(Seats[n]) ELSE Nobody
        BY <3>1, DrawnBracket
      <3>3. Entrants[n] = {Seats[n][s] : s \in Side} \ {Nobody}
        BY <3>1
      <3>4. CASE Alone(n)
        <4>1. Entrants[n] = {Sole(Seats[n])}
          BY <3>1, <3>3, <3>4, Drawn
        <4>2. Unopposed(n) = {Sole(Seats[n])}
          BY <2>2, <4>1
        <4>3. (CHOOSE p \in {Sole(Seats[n])} : TRUE) = Sole(Seats[n])
          OBVIOUS
        <4> HIDE DEF Unopposed
        <4> QED BY <3>2, <3>4, <4>2, <4>3
      <3>5. CASE ~Alone(n)
        <4>1. Seats[n]["light"] # Nobody /\ Seats[n]["dark"] # Nobody
          BY <3>1, <3>5, Drawn DEF Side
        <4>2. Seats[n]["light"] # Seats[n]["dark"]
          BY <3>1, <4>1, BracketAssumption DEF Side
        <4>3. Seats[n]["light"] \in Entrants[n] /\ Seats[n]["dark"] \in Entrants[n]
          BY <3>3, <4>1 DEF Side
        <4>4. Unopposed(n) = {}
          <5> HIDE DEF Entrants
          <5>1. \A p : Entrants[n] # {p}
            BY <4>2, <4>3
          <5> QED BY <5>1
        <4> QED BY <3>2, <3>5, <4>4
      <3> QED BY <3>4, <3>5
    <2> QED BY <2>1, <2>2
  <1>2. [n \in Nodes |-> node[n].winner] =
          [n \in Nodes |-> IF Unopposed(n) = {} THEN Nobody
                           ELSE CHOOSE p \in Unopposed(n) : TRUE]
    <2> HIDE DEF Unopposed
    <2> QED BY <1>1
  <1>3. status # "completed"
    BY DEF Init
  <1> QED BY <1>2, <1>3 DEF Bracket!Init, Bracket!Unopposed, Nobody, Bracket!Nobody

\* Who sits in a node has reached it.
LEMMA SeatedAreContestants ==
  ASSUME TypeOK, Seating, NEW n \in Nodes
  PROVE  Bracket!Contestants(n) = Participants(node[n])
  <1> DEFINE winner == [m \in Nodes |-> node[m].winner]
  <1>1. Bracket!Children(n) = Children(n)
    BY DEF Bracket!Children, Bracket!Parent, Children, Parent
  <1>2. CASE n[1] = 1
    <2>1. n \in FirstRound /\ node[n].seat = Seats[n]
      BY <1>2 DEF FirstRound, Seating
    <2> QED BY <1>2, <2>1 DEF Bracket!Contestants, Participants, Nobody, Bracket!Nobody
  <1>3. CASE n[1] # 1
    <2>1. ASSUME NEW c \in Children(n)
          PROVE  /\ c \in Nodes /\ SeatOfParent(c) \in Side
                 /\ node[n].seat[SeatOfParent(c)] = winner[c]
      <3>1. c \in Nodes /\ Parent(c) = n
        BY ChildIsBelow
      <3> QED BY <3>1 DEF Seating, SeatOfParent, Side
    <2>2. \A s \in Side : \E c \in Children(n) : SeatOfParent(c) = s
      BY <1>3, ChildOfSeat
    <2>3. {winner[c] : c \in Children(n)} = {node[n].seat[s] : s \in Side}
      <3> HIDE DEF winner
      <3> QED BY <2>1, <2>2
    <2> QED BY <1>1, <1>3, <2>3 DEF Bracket!Contestants, Participants, Nobody, Bracket!Nobody
  <1> QED BY <1>2, <1>3

LEMMA SeatedAreContestantsNext ==
  ASSUME TypeOK', Seating', NEW n \in Nodes
  PROVE  Bracket!Contestants(n)' = Participants(node'[n])
  <1> DEFINE winner == [m \in Nodes |-> node'[m].winner]
  <1>1. Bracket!Children(n) = Children(n)
    BY DEF Bracket!Children, Bracket!Parent, Children, Parent
  <1>2. CASE n[1] = 1
    <2>1. n \in FirstRound /\ node'[n].seat = Seats[n]
      BY <1>2 DEF FirstRound, Seating
    <2> QED BY <1>2, <2>1 DEF Bracket!Contestants, Participants, Nobody, Bracket!Nobody
  <1>3. CASE n[1] # 1
    <2>1. ASSUME NEW c \in Children(n)
          PROVE  /\ c \in Nodes /\ SeatOfParent(c) \in Side
                 /\ node'[n].seat[SeatOfParent(c)] = winner[c]
      <3>1. c \in Nodes /\ Parent(c) = n
        BY ChildIsBelow
      <3> QED BY <3>1 DEF Seating, SeatOfParent, Side
    <2>2. \A s \in Side : \E c \in Children(n) : SeatOfParent(c) = s
      BY <1>3, ChildOfSeat
    <2>3. {winner[c] : c \in Children(n)} = {node'[n].seat[s] : s \in Side}
      <3> HIDE DEF winner
      <3> QED BY <2>1, <2>2
    <2> QED BY <1>1, <1>3, <2>3 DEF Bracket!Contestants, Participants, Nobody, Bracket!Nobody
  <1> QED BY <1>2, <1>3

LEMMA ClaimDecides ==
  ASSUME Inv, Inv', NEW n \in Nodes, NEW p \in Nat \ {0}, NEW why \in Reason,
         node[n].winner = Nobody, Paired(n), \E s \in Side : node[n].seat[s] = p,
         ClaimWinner(n, p, why), UNCHANGED status
  PROVE  Bracket!Decide
  <1>1. TypeOK /\ Seating /\ NoByeLeft /\ TypeOK' /\ Seating' /\ OverIsOver
    BY DEF Inv
  <1>2. /\ \A m \in Nodes : node[m].winner # Nobody => node'[m].winner = node[m].winner
        /\ \A m \in Nodes : node'[m].winner # node[m].winner =>
             \E s \in Side : node'[m].seat[s] = node'[m].winner
    BY <1>1, ClaimSeating
  <1>3. status # "completed"
    <2>1. NeedsAMatch(n)
      BY DEF NeedsAMatch, Paired
    <2> QED BY <1>1, <2>1 DEF OverIsOver
  <1>4. [m \in Nodes |-> node'[m].winner] \in [Nodes -> Nat]
    BY <1>1 DEF TypeOK, Node
  <1>5. ASSUME NEW m \in Nodes, node'[m].winner # node[m].winner
        PROVE  node[m].winner = Nobody /\ node'[m].winner \in Bracket!Contestants(m)'
    <2>1. node[m].winner = Nobody
      BY <1>2, <1>5
    <2>2. node'[m].winner \in Participants(node'[m])
      BY <1>2, <1>5, <2>1 DEF Participants
    <2> QED BY <1>1, <2>1, <2>2, SeatedAreContestantsNext
  <1> QED BY <1>3, <1>4, <1>5 DEF Bracket!Decide, Nobody, Bracket!Nobody

LEMMA KnockoutStep ==
  ASSUME Inv, Inv', [Next]_vars
  PROVE  [Bracket!Next]_(Bracket!vars)
  <1>1. CASE UNCHANGED node /\ (status' = "completed") = (status = "completed")
    <2>1. [n \in Nodes |-> node'[n].winner] = [n \in Nodes |-> node[n].winner]
      BY <1>1
    <2> QED BY <1>1, <2>1 DEF Bracket!vars
  <1>2. ASSUME NEW w \in Worker, Advance(w)
        PROVE  Bracket!Decide \/ UNCHANGED <<node, status>>
    <2>1b. PICK a \in Attempts, n \in Nodes : a = call[w].of /\ n = a[1]
      BY AttemptShape DEF Inv, TypeOK, Call
    <2>1c. PICK p : p = WinnerOf(a)
      OBVIOUS
    <2>1. a = call[w].of /\ n = a[1] /\ p = WinnerOf(a)
      BY <2>1b, <2>1c
    <2>2. CallOK(w) /\ game[a] \in Result
      BY <1>2, <2>1 DEF Inv, Advance, CallOK
    <2>3. Paired(n)
      BY <2>1, <2>2 DEF Inv, GamesOfPairs, Result
    <2>4. p \in Nat \ {0} /\ \E s \in Side : node[n].seat[s] = p
      BY <2>1, <2>2, <2>3, WinnerIsSeated DEF Inv
    <2>5. CASE Unclaimed(n, p) /\ ClaimWinner(n, p, ReasonOf(a))
      <3>1. node[n].winner = Nobody /\ ReasonOf(a) \in Reason
        BY <2>5 DEF Unclaimed, ReasonOf, Reason
      <3> QED BY <1>2, <2>3, <2>4, <2>5, <3>1, ClaimDecides DEF Advance
    <2>6. CASE UNCHANGED node
      BY <1>2, <2>6 DEF Advance
    <2> QED BY <1>2, <2>1, <2>5, <2>6 DEF Advance
  <1>3. ASSUME NEW w \in Worker, WalkOver(w)
        PROVE  Bracket!Decide \/ UNCHANGED <<node, status>>
    <2>1b. PICK a \in Attempts, n \in Nodes : a = call[w].of /\ n = a[1]
      BY AttemptShape DEF Inv, TypeOK, Call
    <2>1c. PICK p : p = WinnerByAbsence(a, call[w].present)
      OBVIOUS
    <2>1. a = call[w].of /\ n = a[1] /\ p = WinnerByAbsence(a, call[w].present)
      BY <2>1b, <2>1c
    <2>2. Paired(n)
      BY <1>3, <2>1 DEF WalkOver, Inv, CallOK
    <2>3. p \in Nat \ {0} /\ \E s \in Side : node[n].seat[s] = p
      BY <2>1, <2>2, WinnerIsSeated DEF Inv
    <2>4. CASE Unclaimed(n, p) /\ ClaimWinner(n, p, "adjudication")
      <3>1. node[n].winner = Nobody /\ "adjudication" \in Reason
        BY <2>4 DEF Unclaimed, Reason
      <3> QED BY <1>3, <2>2, <2>3, <2>4, <3>1, ClaimDecides DEF WalkOver
    <2>5. CASE UNCHANGED node
      BY <1>3, <2>5 DEF WalkOver
    <2> QED BY <1>3, <2>1, <2>4, <2>5 DEF WalkOver
  <1>4. ASSUME NEW w \in Worker, Finish(w)
        PROVE  Bracket!Finish \/ UNCHANGED <<node, status>>
    <2>1. CASE UNCHANGED status
      BY <1>4, <2>1 DEF Finish
    <2>2. CASE status = "in_progress" /\ Decided /\ status' = "completed"
      <3>1. UNCHANGED [n \in Nodes |-> node[n].winner]
        BY <1>4 DEF Finish
      <3>2. ASSUME NEW n \in Nodes, NEW p \in Bracket!Contestants(n),
                   NEW q \in Bracket!Contestants(n), p # q
            PROVE  node[n].winner # Nobody
        <4>1. p \in Participants(node[n]) /\ q \in Participants(node[n])
          BY SeatedAreContestants DEF Inv
        <4>2. \A s \in Side : node[n].seat[s] # Nobody
          BY <3>2, <4>1 DEF Participants, Side
        <4> QED BY <2>2, <4>2 DEF Decided, NeedsAMatch
      <3>3. \A n \in Nodes : Bracket!Parent(n) \notin Nodes => node[n].winner # Nobody
        BY SMTT(60), <2>2 DEF Decided, Parent, Bracket!Parent
      <3> QED BY <2>2, <3>1, <3>2, <3>3 DEF Bracket!Finish, Nobody, Bracket!Nobody
    <2> QED BY <1>4, <2>1, <2>2 DEF Finish
  <1>5. ASSUME NEW w \in Worker, Continue(w), ~Advance(w), ~WalkOver(w), ~Finish(w)
        PROVE  UNCHANGED <<node, status>>
    BY <1>5 DEF Continue, Launch, Record, Progress, Open, Acknowledge, RecordMissing, Reapply,
                DecideNoShow, RecordNoShow, CloseMatch
  <1>6. ASSUME NEW w \in Worker, Start(w) \/ Crash(w)
        PROVE  UNCHANGED node /\ (status' = "completed") = (status = "completed")
    BY <1>6 DEF Start, Crash
  <1>7. ASSUME NEW w \in Worker, NEW a \in Attempts, Deliver(w, a) \/ ClaimNoShow(w, a)
        PROVE  UNCHANGED <<node, status>>
    BY <1>7 DEF Deliver, ClaimNoShow
  <1>8. ASSUME NEW w \in Worker, NEW n \in Nodes, Repair(w, n)
        PROVE  UNCHANGED <<node, status>>
    BY <1>8 DEF Repair
  <1>9. ASSUME NEW a \in Attempts, NEW result \in Result, GameEnds(a, result)
        PROVE  UNCHANGED <<node, status>>
    BY <1>9 DEF GameEnds
  <1>10. UNCHANGED vars => UNCHANGED <<node, status>>
    BY DEF vars
  <1> QED BY <1>1, <1>2, <1>3, <1>4, <1>5, <1>6, <1>7, <1>8, <1>9, <1>10
      DEF Next, Bracket!Next

\* The bracket is a knockout: a node is decided once, for somebody its children
\* sent, and never again, and the tournament is completed once, when no pair is
\* left (`claim_winner`'s compare-and-set, `_propagate`, `_require_decided`).
THEOREM Refines == Spec => KnockoutSpec
  <1>1. Init => Bracket!Init
    BY KnockoutInit
  <1>2. Inv /\ Inv' /\ [Next]_vars => [Bracket!Next]_(Bracket!vars)
    BY KnockoutStep
  <1> QED BY <1>1, <1>2, InvHolds, PTL DEF Spec, KnockoutSpec, Bracket!Spec

-----------------------------------------------------------------------------
(* Nobody is in two places of a round *)

\* A node was won by somebody who sat in it.
WinnersSeated ==
  \A n \in Nodes : node[n].winner # Nobody =>
    \E s \in Side : node[n].seat[s] = node[n].winner

OncePerRound ==
  \A m, n \in Nodes, s, t \in Side :
    /\ m[1] = n[1]
    /\ node[m].seat[s] # Nobody /\ node[m].seat[s] = node[n].seat[t]
    => m = n /\ s = t

LEMMA WinnersSeatedInit ==
  ASSUME Init
  PROVE  WinnersSeated
  <1> SUFFICES ASSUME NEW n \in Nodes, node[n].winner # Nobody
               PROVE  \E s \in Side : node[n].seat[s] = node[n].winner
    BY DEF WinnersSeated
  <1>1. n \in FirstRound
    BY DrawnBracket DEF FirstRound
  <1>2. node[n].seat = Seats[n] /\ node[n].winner = Sole(Seats[n])
    BY <1>1, DrawnBracket
  <1> QED BY <1>2 DEF Sole, Side

\* Winners and the seats that are taken stay: a seat is what was drawn, or the
\* winner of a child.
LEMMA PlacesStay ==
  ASSUME Inv, Inv', [Next]_vars
  PROVE  /\ \A n \in Nodes :
              \/ node'[n].winner = node[n].winner
              \/ node[n].winner = Nobody /\ node'[n].winner \in Participants(node'[n])
         /\ \A n \in Nodes, s \in Side :
              node[n].seat[s] # Nobody => node'[n].seat[s] = node[n].seat[s]
  <1> DEFINE won == [n \in Nodes |-> node[n].winner]
  <1>1. ASSUME NEW n \in Nodes
        PROVE  \/ node'[n].winner = node[n].winner
               \/ node[n].winner = Nobody /\ node'[n].winner \in Participants(node'[n])
    <2>1. [Bracket!Next]_(Bracket!vars)
      BY KnockoutStep
    <2>2. CASE Bracket!Decide
      <3>1. won'[n] # won[n] => won[n] = Nobody /\ won'[n] \in Bracket!Contestants(n)'
        BY <2>2 DEF Bracket!Decide, Nobody, Bracket!Nobody
      <3>2. Bracket!Contestants(n)' = Participants(node'[n])
        BY SeatedAreContestantsNext DEF Inv
      <3> QED BY <3>1, <3>2
    <2>3. CASE won' = won
      <3>1. won'[n] = node'[n].winner /\ won[n] = node[n].winner
        OBVIOUS
      <3> HIDE DEF won
      <3> QED BY <2>3, <3>1
    <2> QED BY <2>1, <2>2, <2>3 DEF Bracket!Next, Bracket!Finish, Bracket!vars
  <1>2. Seating /\ Seating'
    BY DEF Inv
  <1>3. ASSUME NEW n \in Nodes, NEW s \in Side, node[n].seat[s] # Nobody
        PROVE  node'[n].seat[s] = node[n].seat[s]
    <2>1. CASE n[1] = 1
      BY <1>2, <2>1 DEF Seating, FirstRound
    <2>2. CASE n[1] # 1
      <3>1. PICK c \in Children(n) : SeatOfParent(c) = s
        BY <2>2, ChildOfSeat
      <3>2. c \in Nodes /\ Parent(c) = n
        BY ChildIsBelow
      <3>3. node[n].seat[s] = node[c].winner /\ node'[n].seat[s] = node'[c].winner
        BY <1>2, <3>1, <3>2 DEF Seating
      <3> QED BY <1>1, <1>3, <3>2, <3>3
    <2> QED BY <2>1, <2>2
  <1> QED BY <1>1, <1>3

LEMMA WinnersSeatedStep ==
  ASSUME Inv, Inv', [Next]_vars, WinnersSeated
  PROVE  WinnersSeated'
  <1> SUFFICES ASSUME NEW n \in Nodes, node'[n].winner # Nobody
               PROVE  \E s \in Side : node'[n].seat[s] = node'[n].winner
    BY DEF WinnersSeated
  <1>1. CASE node'[n].winner = node[n].winner
    <2>1. PICK s \in Side : node[n].seat[s] = node[n].winner
      BY <1>1 DEF WinnersSeated
    <2> QED BY <1>1, <2>1, PlacesStay
  <1>2. CASE node'[n].winner \in Participants(node'[n])
    BY <1>2 DEF Participants
  <1> QED BY <1>1, <1>2, PlacesStay

LEMMA LeastRound ==
  ASSUME NEW T \in SUBSET Nat, T # {}
  PROVE  \E r \in T : \A q \in T : ~(q < r)
  <1>1. PICK r \in T : \A q \in T : ~(<<q, r>> \in OpToRel(<, Nat))
    BY NatLessThanWellFounded, WFMin
  <1> QED BY <1>1 DEF OpToRel

\* In the first round that seats a player twice, both seats were filled by one
\* child, since the round below seats them once.
LEMMA SeatedOnce ==
  ASSUME Seating, WinnersSeated
  PROVE  OncePerRound
  <1> DEFINE Twice(m, n, s, t) ==
               /\ m[1] = n[1]
               /\ node[m].seat[s] # Nobody /\ node[m].seat[s] = node[n].seat[t]
               /\ ~(m = n /\ s = t)
             T == {r \in Nat : \E m, n \in Nodes, s, t \in Side : m[1] = r /\ Twice(m, n, s, t)}
  <1> SUFFICES ASSUME T # {}
               PROVE  FALSE
    <2> SUFFICES ASSUME T = {}, NEW m \in Nodes, NEW n \in Nodes, NEW s \in Side, NEW t \in Side,
                        Twice(m, n, s, t)
                 PROVE  FALSE
      BY DEF OncePerRound
    <2>1. m[1] \in T
      BY NodeShape
    <2> QED BY <2>1
  <1>2. PICK r \in T : \A q \in T : ~(q < r)
    BY LeastRound
  <1>3. PICK m \in Nodes, n \in Nodes, s \in Side, t \in Side : m[1] = r /\ Twice(m, n, s, t)
    OBVIOUS
  <1>4. CASE r = 1
    <2>1. m \in FirstRound /\ n \in FirstRound
      BY <1>3, <1>4 DEF FirstRound
    <2>2. Seats[m][s] = Seats[n][t] /\ Seats[m][s] # Nobody
      BY <1>3, <2>1 DEF Seating
    <2>3. \A x, y \in FirstRound, u, v \in Side :
            Seats[x][u] = Seats[y][v] /\ Seats[x][u] # Nobody => x = y /\ u = v
      BY BracketAssumption
    <2>4. m = n /\ s = t
      BY <2>1, <2>2, <2>3
    <2> QED BY <1>3, <2>4
  <1>5. CASE r # 1
    <2>1. PICK c \in Children(m) : SeatOfParent(c) = s
      BY <1>3, <1>5, ChildOfSeat
    <2>2. PICK d \in Children(n) : SeatOfParent(d) = t
      BY <1>3, <1>5, ChildOfSeat
    <2>3. /\ c \in Nodes /\ Parent(c) = m /\ m[1] = c[1] + 1
          /\ d \in Nodes /\ Parent(d) = n /\ n[1] = d[1] + 1
      BY ChildIsBelow
    <2>4. /\ node[m].seat[s] = node[c].winner /\ node[n].seat[t] = node[d].winner
          /\ node[c].winner # Nobody /\ node[d].winner = node[c].winner
      BY <1>3, <2>1, <2>2, <2>3 DEF Seating
    <2>5. PICK u \in Side, v \in Side :
            node[c].seat[u] = node[c].winner /\ node[d].seat[v] = node[d].winner
      BY <2>3, <2>4 DEF WinnersSeated
    <2>6. c[1] \in Nat /\ c[1] = d[1] /\ c[1] < r
      <3>1. c[1] \in Nat /\ d[1] \in Nat
        BY <2>3, NodeShape
      <3>2. c[1] + 1 = r /\ d[1] + 1 = r
        BY <1>3, <2>3
      <3> QED BY <3>1, <3>2
    <2>7. c = d
      <3>1. ~Twice(c, d, u, v)
        <4>1. c[1] \notin T
          BY <1>2, <2>6
        <4> QED BY <2>3, <2>6, <4>1
      <3> QED BY <2>4, <2>5, <2>6, <3>1
    <2> QED BY <1>3, <2>1, <2>2, <2>3, <2>7
  <1> QED BY <1>4, <1>5

\* Nobody holds two seats of one round, so that no player meets themselves, has
\* two matches of a round or wins two nodes of it, whichever of the consumer,
\* the sweep and the reconciler moved them up (`_propagate`, `claim_winner`).
THEOREM PlayersOncePerRound == Spec => []OncePerRound
  <1>1. Init => WinnersSeated
    BY WinnersSeatedInit
  <1>2. Inv /\ Inv' /\ [Next]_vars /\ WinnersSeated => WinnersSeated'
    BY WinnersSeatedStep
  <1>3. Inv /\ WinnersSeated => OncePerRound
    BY SeatedOnce DEF Inv
  <1> QED BY <1>1, <1>2, <1>3, InvHolds, PTL DEF Spec

-----------------------------------------------------------------------------
(* What the attempts say is what was played *)

\* A recorded match is there, a decided one names whom its game decided for, and
\* a walkover names somebody of the node.
AttemptsAgree ==
  \A a \in Attempts :
    /\ attempt[a].outcome # "absent" => game[a] # "none"
    /\ attempt[a].outcome = "decisive" =>
         game[a] \in Side /\ attempt[a].winner = SeatedIn(a, game[a])
    /\ attempt[a].outcome = "draw" => game[a] = "drawn"
    /\ attempt[a].outcome = "no_show" => attempt[a].winner \in Participants(node[a[1]])

\* Matches and results stay.
LEMMA ResultsStay ==
  ASSUME TypeOK, [Next]_vars, NEW a \in Attempts
  PROVE  /\ game[a] # "none" => game'[a] # "none"
         /\ game[a] \in Result => game'[a] = game[a]
  <1> DEFINE Kept == /\ game[a] # "none" => game'[a] # "none"
                     /\ game[a] \in Result => game'[a] = game[a]
  <1>1. game \in [Attempts -> Game] /\ "none" \notin Result /\ "live" \notin Result
    BY DEF TypeOK, Result
  <1>2. ASSUME NEW w, NEW plans, CreateFirst(w, plans)
        PROVE  Kept
    BY <1>1, <1>2 DEF CreateFirst, Created
  <1>3. ASSUME NEW w \in Worker, Start(w) \/ Crash(w)
        PROVE  Kept
    <2>1. CASE Start(w)
      BY <1>2, <2>1 DEF Start
    <2>2. CASE Crash(w)
      BY <2>2 DEF Crash
    <2> QED BY <1>3, <2>1, <2>2
  <1>4. ASSUME NEW w \in Worker, Launch(w)
        PROVE  Kept
    BY <1>2, <1>4 DEF Launch
  <1>5. ASSUME NEW w \in Worker, Open(w)
        PROVE  Kept
    BY <1>2, <1>5 DEF Open
  <1>6. ASSUME NEW w \in Worker, CloseMatch(w)
        PROVE  Kept
    <2>0. PICK b : b = call[w].of
      OBVIOUS
    <2>1. game' = [game EXCEPT ![b] = IF @ = "live" THEN "aborted" ELSE @]
      BY <1>6, <2>0 DEF CloseMatch
    <2>2. game'[a] = game[a] \/ (game[a] = "live" /\ game'[a] = "aborted")
      BY <1>1, <2>1, Zenon
    <2> QED BY <1>1, <2>2
  <1>7. ASSUME NEW w \in Worker, Continue(w)
        PROVE  Kept
    <2>1. CASE UNCHANGED game
      BY <2>1
    <2> QED BY <1>4, <1>5, <1>6, <1>7, <2>1
        DEF Continue, Record, Advance, Progress, Finish, Acknowledge, RecordMissing, Reapply,
            DecideNoShow, RecordNoShow, WalkOver
  <1>8. ASSUME NEW b \in Attempts, NEW result \in Result, GameEnds(b, result)
        PROVE  Kept
    BY <1>1, <1>8 DEF GameEnds
  <1>9. ASSUME NEW w \in Worker, NEW b \in Attempts, Deliver(w, b) \/ ClaimNoShow(w, b)
        PROVE  Kept
    BY <1>9 DEF Deliver, ClaimNoShow
  <1>10. ASSUME NEW w \in Worker, NEW n \in Nodes, Repair(w, n)
         PROVE  Kept
    BY <1>10 DEF Repair
  <1>11. UNCHANGED vars => Kept
    BY DEF vars
  <1> HIDE DEF Kept
  <1>12. Kept
    BY <1>3, <1>7, <1>8, <1>9, <1>10, <1>11 DEF Next
  <1> QED BY <1>12 DEF Kept

\* What a step may do to an attempt.
LEMMA AttemptStep ==
  ASSUME Inv, [Next]_vars, NEW a \in Attempts
  PROVE  \/ attempt'[a] = attempt[a]
         \/ attempt'[a].outcome = "open" /\ game[a] # "none"
         \/ attempt'[a].outcome = "draw" /\ game[a] = "drawn"
         \/ /\ attempt'[a].outcome = "decisive" /\ game[a] \in Side
            /\ attempt'[a].winner = SeatedIn(a, game[a])
         \/ /\ attempt[a].outcome = "open" /\ attempt'[a].outcome = "no_show"
            /\ attempt'[a].winner \in Participants(node[a[1]])
  <1> DEFINE Goal ==
         \/ attempt'[a] = attempt[a]
         \/ attempt'[a].outcome = "open" /\ game[a] # "none"
         \/ attempt'[a].outcome = "draw" /\ game[a] = "drawn"
         \/ /\ attempt'[a].outcome = "decisive" /\ game[a] \in Side
            /\ attempt'[a].winner = SeatedIn(a, game[a])
         \/ /\ attempt[a].outcome = "open" /\ attempt'[a].outcome = "no_show"
            /\ attempt'[a].winner \in Participants(node[a[1]])
  <1>1. attempt \in [Attempts -> Attempt]
    BY DEF Inv, TypeOK
  <1>2. ASSUME NEW w \in Worker, Launch(w)
        PROVE  Goal
    <2>1. \A b \in call[w].made : game[b] # "none"
      BY DEF Inv, CallOK
    <2>2. CASE a \in call[w].made /\ attempt[a].outcome = "absent"
      <3>1. attempt'[a] = [NoAttempt EXCEPT !.outcome = "open", !.timed = TRUE]
        BY <1>2, <2>2 DEF Launch
      <3>2. attempt'[a].outcome = "open"
        BY <3>1 DEF NoAttempt
      <3> QED BY <2>1, <2>2, <3>2
    <2>3. CASE ~(a \in call[w].made /\ attempt[a].outcome = "absent")
      <3>1. attempt'[a] = attempt[a]
        BY <1>2, <2>3 DEF Launch
      <3> QED BY <3>1
    <2> QED BY <2>2, <2>3
  <1>3. ASSUME NEW w \in Worker, Record(w)
        PROVE  Goal
    <2>1. CASE attempt' = attempt
      BY <2>1
    <2>2. CASE attempt' = [attempt EXCEPT
                 ![call[w].of].outcome = IF game[call[w].of] = "drawn" THEN "draw" ELSE "decisive",
                 ![call[w].of].winner =
                    IF game[call[w].of] = "drawn" THEN Nobody ELSE WinnerOf(call[w].of)]
      <3>1. game[call[w].of] \in Result
        BY <1>3 DEF Record, Inv, CallOK
      <3>2. CASE call[w].of # a
        BY <1>1, <2>2, <3>2
      <3>3. CASE call[w].of = a
        <4>1. /\ attempt'[a].outcome = IF game[a] = "drawn" THEN "draw" ELSE "decisive"
              /\ attempt'[a].winner = IF game[a] = "drawn" THEN Nobody ELSE WinnerOf(a)
          BY <1>1, <2>2, <3>3 DEF Attempt
        <4>2. game[a] # "drawn" => game[a] \in Side /\ WinnerOf(a) = SeatedIn(a, game[a])
          BY <3>1, <3>3 DEF Result, Side, WinnerOf
        <4> QED BY <4>1, <4>2
      <3> QED BY <3>2, <3>3
    <2> QED BY <1>3, <2>1, <2>2 DEF Record
  <1>4. ASSUME NEW w \in Worker, RecordMissing(w)
        PROVE  Goal
    <2>1. PICK k \in call[w].records :
            \/ attempt' = [attempt EXCEPT ![<<call[w].of[1], k>>].outcome = "open"]
            \/ attempt' = attempt
      BY <1>4 DEF RecordMissing
    <2>2. game[<<call[w].of[1], k>>] # "none"
      BY DEF Inv, CallOK
    <2>3. CASE a = <<call[w].of[1], k>> /\ attempt' # attempt
      <3>1. attempt'[a].outcome = "open"
        BY <1>1, <2>1, <2>3 DEF Attempt
      <3> QED BY <2>2, <2>3, <3>1
    <2>4. CASE attempt'[a] = attempt[a]
      BY <2>4
    <2> QED BY <1>1, <2>1, <2>3, <2>4
  <1>5. ASSUME NEW w \in Worker, RecordNoShow(w)
        PROVE  Goal
    <2>1. CASE attempt'[a] = attempt[a]
      BY <2>1
    <2>2. CASE attempt'[a] # attempt[a]
      <3> DEFINE p == WinnerByAbsence(a, call[w].present)
      <3>1. /\ call[w].of = a /\ attempt[a].outcome = "open"
            /\ attempt' = [attempt EXCEPT ![a].outcome = "no_show", ![a].winner = p]
        BY <1>1, <1>5, <2>2 DEF RecordNoShow
      <3>2. Paired(a[1])
        BY <1>5, <3>1 DEF RecordNoShow, Inv, CallOK
      <3>3. p # Nobody /\ \E s \in Side : node[a[1]].seat[s] = p
        BY <3>2, WinnerIsSeated DEF Inv, Nobody
      <3> HIDE DEF p
      <3>4. attempt'[a].outcome = "no_show" /\ attempt'[a].winner = p
        BY <1>1, <3>1 DEF Attempt
      <3>5. p \in Participants(node[a[1]])
        BY <3>3 DEF Participants
      <3> QED BY <3>1, <3>4, <3>5
    <2> QED BY <2>1, <2>2
  <1>6. UNCHANGED attempt => Goal
    <2> HIDE DEF Goal
    <2>1. UNCHANGED attempt => attempt'[a] = attempt[a]
      BY Zenon
    <2> USE DEF Goal
    <2> QED BY <2>1, Zenon
  <1> HIDE DEF Goal
  <1>7. ASSUME NEW w \in Worker, Continue(w)
        PROVE  Goal
    BY <1>2, <1>3, <1>4, <1>5, <1>6, <1>7
       DEF Continue, Advance, Progress, Open, Finish, Acknowledge, Reapply, DecideNoShow,
           CloseMatch, WalkOver
  <1>8. ASSUME NEW w \in Worker, Start(w) \/ Crash(w)
        PROVE  Goal
    BY <1>6, <1>8 DEF Start, Crash
  <1>9. ASSUME NEW w \in Worker, NEW b \in Attempts, Deliver(w, b) \/ ClaimNoShow(w, b)
        PROVE  Goal
    BY <1>6, <1>9 DEF Deliver, ClaimNoShow
  <1>10. ASSUME NEW w \in Worker, NEW n \in Nodes, Repair(w, n)
         PROVE  Goal
    BY <1>6, <1>10 DEF Repair
  <1>11. ASSUME NEW b \in Attempts, NEW result \in Result, GameEnds(b, result)
         PROVE  Goal
    BY <1>6, <1>11 DEF GameEnds
  <1>12. UNCHANGED vars => Goal
    BY <1>6 DEF vars
  <1>13. Goal
    BY <1>7, <1>8, <1>9, <1>10, <1>11, <1>12 DEF Next
  <1> QED BY <1>13 DEF Goal

LEMMA AttemptsAgreeStep ==
  ASSUME Inv, Inv', [Next]_vars, AttemptsAgree
  PROVE  AttemptsAgree'
  <1> SUFFICES ASSUME NEW a \in Attempts
               PROVE  /\ attempt'[a].outcome # "absent" => game'[a] # "none"
                      /\ attempt'[a].outcome = "decisive" =>
                           game'[a] \in Side /\ attempt'[a].winner = SeatedIn(a, game[a])'
                      /\ attempt'[a].outcome = "draw" => game'[a] = "drawn"
                      /\ attempt'[a].outcome = "no_show" =>
                           attempt'[a].winner \in Participants(node'[a[1]])
    BY DEF AttemptsAgree
  <1>1. a[1] \in Nodes
    BY AttemptShape
  <1>2. "drawn" \in Result /\ "drawn" # "none" /\ \A s \in Side : s \in Result /\ s # "none"
    BY DEF Result, Side
  <1>3. /\ game[a] # "none" => game'[a] # "none"
        /\ game[a] \in Result => game'[a] = game[a]
    BY ResultsStay DEF Inv
  <1>4. ASSUME game[a] \in Side
        PROVE  game'[a] = game[a] /\ SeatedIn(a, game[a])' = SeatedIn(a, game[a])
    <2>1. Paired(a[1])
      BY <1>2, <1>4 DEF Inv, GamesOfPairs
    <2>2. \A s \in Side : node'[a[1]].seat[s] = node[a[1]].seat[s]
      BY <1>1, <2>1, PlacesStay DEF Paired
    <2>3. game'[a] = game[a]
      BY <1>2, <1>3, <1>4
    <2> QED BY <1>4, <2>2, <2>3 DEF SeatedIn, Opposite, Side
  <1>5. Participants(node[a[1]]) \subseteq Participants(node'[a[1]])
    BY <1>1, PlacesStay DEF Participants
  <1>6. AttemptsAgree!(a)
    BY DEF AttemptsAgree
  <1> QED BY <1>2, <1>3, <1>4, <1>5, <1>6, AttemptStep

\* An attempt says of its match what `game` decided, with the colours it was
\* played with, whether the consumer, the sweep or the reconciler recorded it,
\* and however long ago they had read it (`complete`, `_record_missing`,
\* `adjudicate_absence`).
THEOREM AttemptsTellTheGame == Spec => []AttemptsAgree
  <1>1. Init => AttemptsAgree
    BY DEF Init, AttemptsAgree, NoAttempt
  <1>2. Inv /\ Inv' /\ [Next]_vars /\ AttemptsAgree => AttemptsAgree'
    BY AttemptsAgreeStep
  <1> QED BY <1>1, <1>2, InvHolds, PTL DEF Spec

-----------------------------------------------------------------------------
(* The pairs are enough to look at *)

\* As long as a node is undecided there is a pair to play, in it or below it.
SomePairIsNext ==
  /\ (\E n \in Nodes : node[n].winner = Nobody) => \E n \in Nodes : NeedsAMatch(n)
  /\ status = "completed" => \A n \in Nodes : node[n].winner # Nobody

\* Of the undecided nodes, take one of the least round: it is no bye of the first
\* round, and whatever lies right below it was won.
LEMMA UndecidedHasPair ==
  ASSUME TypeOK, Seating, NoByeLeft, NEW x \in Nodes, node[x].winner = Nobody
  PROVE  \E n \in Nodes : NeedsAMatch(n)
  <1> DEFINE T == {n[1] : n \in {m \in Nodes : node[m].winner = Nobody}}
  <1>1. T \in SUBSET Nat /\ T # {}
    BY NodeShape
  <1>2. PICK r \in T : \A q \in T : ~(q < r)
    BY <1>1, LeastRound
  <1>3. PICK n \in Nodes : node[n].winner = Nobody /\ n[1] = r
    OBVIOUS
  <1>4. CASE r = 1
    <2>1. n \in FirstRound /\ node[n].seat = Seats[n]
      BY <1>3, <1>4 DEF FirstRound, Seating
    <2>2. ASSUME Alone(n)
          PROVE  FALSE
      <3>1. Participants(node[n]) = {Sole(Seats[n])}
        BY <2>1, <2>2, Drawn DEF Participants
      <3>2. Cardinality(Participants(node[n])) = 1
        BY <3>1, FS_Singleton
      <3>3. ChildrenSettled(node, n)
        BY <1>3, <1>4 DEF ChildrenSettled
      <3> QED BY <1>3, <3>2, <3>3 DEF NoByeLeft
    <2>3. \A s \in Side : node[n].seat[s] # Nobody
      BY <2>1, <2>2, Drawn
    <2> QED BY <1>3, <2>3 DEF NeedsAMatch
  <1>5. CASE r # 1
    <2>1. ASSUME NEW s \in Side
          PROVE  node[n].seat[s] # Nobody
      <3>1. PICK c \in Children(n) : SeatOfParent(c) = s
        BY <1>3, <1>5, ChildOfSeat
      <3>2. c \in Nodes /\ Parent(c) = n /\ n[1] = c[1] + 1
        BY ChildIsBelow
      <3>3. c[1] \in Nat /\ c[1] < r
        BY <1>3, <3>2, NodeShape
      <3>4. node[c].winner # Nobody
        BY <1>2, <3>2, <3>3
      <3>5. node[n].seat[s] = node[c].winner
        BY <3>1, <3>2 DEF Seating
      <3> QED BY <3>4, <3>5
    <2> QED BY <1>3, <2>1 DEF NeedsAMatch
  <1> QED BY <1>4, <1>5

\* The reconciler compares only nodes with two players and no winner, and
\* `_require_decided` asks only about those and the last node: that is enough.
\* While any node is undecided one of those is there to be found, and a tournament
\* is completed with every node decided.
THEOREM PairsAreEnough == Spec => []SomePairIsNext
  <1>1. Inv => SomePairIsNext
    BY UndecidedHasPair DEF Inv, OverIsOver, SomePairIsNext
  <1> QED BY <1>1, InvHolds, PTL
=============================================================================
