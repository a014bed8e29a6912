---------------------------- MODULE LiveMatch_proofs ----------------------------
(* Proofs about LiveMatch, for any time control, handlers and periodic tasks. *)
EXTENDS LiveMatch, TLAPS

-----------------------------------------------------------------------------
(* The operators on records *)

\* Whoever moves is one of the two sides, and has another one for opponent.
LEMMA Sides ==
  /\ \A n \in Nat : ActiveSide(n) \in Side
  /\ \A s \in Side : Opponent(s) \in Side /\ Opponent(s) # s
  /\ \A s \in Side : Opponent(Opponent(s)) = s
  /\ Nobody \notin Side
  BY DEF ActiveSide, Side, Opponent, Nobody

LEMMA FlagsAtType ==
  ASSUME NEW r \in Row
  PROVE  FlagsAt(r) \in Nat
  BY Sides DEF FlagsAt, Running, Row

LEMMA DeadlineType ==
  ASSUME NEW r \in Row
  PROVE  DeadlineOf(r) \in Deadline
  BY Sides, FlagsAtType DEF DeadlineOf, Running, Row, Deadline

\* Charging touches the budgets and the start of the turn only.
LEMMA ChargedFields ==
  ASSUME NEW r \in Row, NEW at \in Nat
  PROVE  /\ Charged(r, at) \in Row
         /\ Charged(r, at) = [r EXCEPT !.left = Charged(r, at).left,
                                       !.started = Charged(r, at).started]
<1> DEFINE kept == r.left[Running(r)] - ElapsedMs(r, at)
           left == [s \in Side |-> IF s # Running(r) THEN r.left[s]
                                   ELSE Increment + IF kept > 0 THEN kept ELSE 0]
<1>1. r.left \in [Side -> Nat] /\ r.started \in Nat
  BY DEF Row
<1>2. Increment \in Nat
  BY MatchAssumption DEF MatchAssumption
<1>3. ElapsedMs(r, at) \in Int
  BY <1>1 DEF ElapsedMs
<1>4. Running(r) \in Side
  BY Sides DEF Running, Row
<1>5. kept \in Int
  BY <1>1, <1>3, <1>4
<1>6. left \in [Side -> Nat]
  BY <1>1, <1>2, <1>5
<1>7. Charged(r, at) = IF ~r.timed THEN r ELSE [r EXCEPT !.left = left, !.started = at]
  BY DEF Charged
<1> HIDE DEF left
<1>8. CASE ~r.timed
  BY <1>7, <1>8 DEF Row
<1>9. CASE r.timed
  BY <1>6, <1>7, <1>9 DEF Row
<1> QED
  BY <1>8, <1>9

LEMMA NextPlyType ==
  ASSUME NEW s \in Side, NEW n \in Nat
  PROVE  NextPlyOf(s, n) \in Nat
  BY DEF NextPlyOf

\* Resolving touches the offer and the plies of the next offers only.
LEMMA ResolvedFields ==
  ASSUME NEW r \in Row, NEW n \in Nat
  PROVE  /\ Resolved(r, n) \in Row
         /\ Resolved(r, n) = [r EXCEPT !.offer = NoOffer, !.from = Resolved(r, n).from]
<1> DEFINE from == [s \in Side |-> IF s = r.offer.by THEN NextPlyOf(Opponent(s), n) ELSE r.from[s]]
<1>1. r.from \in [Side -> Nat]
  BY DEF Row
<1>2. from \in [Side -> Nat]
  BY <1>1, Sides, NextPlyType
<1>3. Resolved(r, n) = [r EXCEPT !.offer = NoOffer, !.from = from]
  BY DEF Resolved
<1>4. NoOffer \in Offer
  BY DEF NoOffer, Offer
<1> HIDE DEF from
<1> QED
  BY <1>2, <1>3, <1>4 DEF Row

\* What Completed leaves alone.
LEMMA CompletedFields ==
  ASSUME NEW r \in Row, NEW reason \in Reason, NEW winner \in Side \cup {Nobody}
  PROVE  LET next == Completed(r, reason, winner) IN
         /\ next \in Row
         /\ next.status = "completed" /\ next.reason = reason /\ next.winner = winner
         /\ next.offer = NoOffer
         /\ next.timed = r.timed /\ next.ply = r.ply /\ next.settled = r.settled
         /\ next.left = r.left /\ next.started = r.started
<1>1. NoOffer \in Offer
  BY DEF NoOffer, Offer
<1>2. [s \in Side |-> 0] \in [Side -> Nat]
  OBVIOUS
<1>3. "completed" \in Status
  BY DEF Status
<1> DEFINE from == [s \in Side |-> 0]
<1>4. Completed(r, reason, winner) =
        [r EXCEPT !.status = "completed", !.reason = reason, !.winner = winner,
                  !.offer = NoOffer, !.from = from]
  BY DEF Completed
<1> HIDE DEF from
<1> QED
  BY ZenonT(60), <1>1, <1>2, <1>3, <1>4 DEF Row, from

\* The record of a move that ends nothing.
Moved(r, s, at) == [Charged(AfterMoveBy(r, s), at) EXCEPT !.ply = r.ply + 1]

\* What a move leaves alone, and what it does to the clock and the offer.
LEMMA MovedFields ==
  ASSUME NEW r \in Row, NEW s \in Side, NEW at \in Nat
  PROVE  LET next == Moved(r, s, at) IN
         /\ next \in Row
         /\ next.ply = r.ply + 1
         /\ next.offer = AfterMoveBy(r, s).offer /\ next.from = AfterMoveBy(r, s).from
         /\ next.left = Charged(r, at).left /\ next.started = Charged(r, at).started
         /\ next.status = r.status /\ next.timed = r.timed /\ next.settled = r.settled
         /\ next.accepted = r.accepted /\ next.reason = r.reason /\ next.winner = r.winner
<1> DEFINE a == AfterMoveBy(r, s)
           c == Charged(a, at)
<1>1. /\ a \in Row
      /\ a = [r EXCEPT !.offer = a.offer, !.from = a.from]
  <2>1. r.ply + 1 \in Nat
    BY DEF Row
  <2>2. CASE r.offer.by = Opponent(s)
    <3>1. a = Resolved(r, r.ply + 1)
      BY <2>2 DEF AfterMoveBy
    <3>2. a \in Row /\ a = [r EXCEPT !.offer = NoOffer, !.from = a.from]
      BY <2>1, <3>1, ResolvedFields
    <3>3. a.offer = NoOffer
      BY <3>2 DEF Row
    <3> QED
      BY <3>2, <3>3
  <2>3. CASE r.offer.by # Opponent(s)
    BY <2>3 DEF AfterMoveBy, Row
  <2> QED
    BY <2>2, <2>3
<1> HIDE DEF a
<1>2. /\ a.timed = r.timed /\ a.left = r.left /\ a.started = r.started /\ a.ply = r.ply
      /\ a.status = r.status /\ a.settled = r.settled /\ a.accepted = r.accepted
      /\ a.reason = r.reason /\ a.winner = r.winner
  BY <1>1 DEF Row
<1>3. c \in Row /\ c = [a EXCEPT !.left = c.left, !.started = c.started]
  BY <1>1, ChargedFields
<1>4. c.left = Charged(r, at).left /\ c.started = Charged(r, at).started
  <2>1. CASE r.timed
    BY <1>1, <1>2, <2>1 DEF Charged, Running, ElapsedMs, Row
  <2>2. CASE ~r.timed
    BY <1>2, <2>2 DEF Charged
  <2> QED
    BY <2>1, <2>2
<1> HIDE DEF c
<1>5. /\ c.timed = a.timed /\ c.ply = a.ply /\ c.offer = a.offer /\ c.from = a.from
      /\ c.status = a.status /\ c.settled = a.settled /\ c.accepted = a.accepted
      /\ c.reason = a.reason /\ c.winner = a.winner
  BY <1>1, <1>3 DEF Row
<1>6. Moved(r, s, at) = [c EXCEPT !.ply = r.ply + 1]
  BY DEF Moved, a, c
<1>7. r.ply + 1 \in Nat
  BY DEF Row
<1>8. AfterMoveBy(r, s) = a
  BY DEF a
<1> QED
  BY <1>2, <1>3, <1>4, <1>5, <1>6, <1>7, <1>8 DEF Row

LEMMA PlayedCases ==
  ASSUME NEW r, NEW s, NEW at
  PROVE  Played(r, s, at) = {Moved(r, s, at), Completed(Moved(r, s, at), "play", s),
                             Completed(Moved(r, s, at), "draw", Nobody)}
  BY DEF Played, Moved

\* A legal move leaves a record, live or complete, of the same match.
LEMMA PlayedFields ==
  ASSUME NEW r \in Row, NEW s \in Side, NEW at \in Nat, NEW next \in Played(r, s, at)
  PROVE  /\ next \in Row
         /\ next.status \in {r.status, "completed"}
         /\ next.timed = r.timed /\ next.settled = r.settled /\ next.ply = r.ply + 1
         /\ next.left = Charged(r, at).left /\ next.started = Charged(r, at).started
         /\ \/ next = Moved(r, s, at)
            \/ /\ next.status = "completed" /\ next.reason \in {"play", "draw"}
               /\ next.offer = NoOffer
<1> DEFINE m == Moved(r, s, at)
<1>1. m \in Row /\ s \in Side \cup {Nobody} /\ Nobody \in Side \cup {Nobody}
  BY MovedFields
<1>2. /\ m.status = r.status /\ m.timed = r.timed /\ m.settled = r.settled /\ m.ply = r.ply + 1
      /\ m.left = Charged(r, at).left /\ m.started = Charged(r, at).started
  BY MovedFields
<1>3. next \in {m, Completed(m, "play", s), Completed(m, "draw", Nobody)}
  BY PlayedCases
<1> HIDE DEF m
<1>4. "play" \in Reason /\ "draw" \in Reason
  BY DEF Reason
<1>5. CASE next = m
  BY <1>1, <1>2, <1>5 DEF m
<1>6. CASE next = Completed(m, "play", s)
  BY <1>1, <1>2, <1>4, <1>6, CompletedFields
<1>7. CASE next = Completed(m, "draw", Nobody)
  BY <1>1, <1>2, <1>4, <1>7, CompletedFields
<1> QED
  BY <1>3, <1>5, <1>6, <1>7

\* The start of a game touches the clock and the status only.
LEMMA StartedFields ==
  ASSUME NEW r \in Row, NEW at \in Nat
  PROVE  LET next == Started(r, at) IN
         /\ next \in Row
         /\ next.status = "active" /\ next.settled = at
         /\ next.left = [s \in Side |-> IF r.timed THEN Initial ELSE 0]
         /\ next.started = IF r.timed THEN at ELSE 0
         /\ next.timed = r.timed /\ next.ply = r.ply /\ next.offer = r.offer
         /\ next.from = r.from /\ next.reason = r.reason /\ next.winner = r.winner
         /\ next.accepted = r.accepted
<1> DEFINE left == [s \in Side |-> IF r.timed THEN Initial ELSE 0]
           begun == IF r.timed THEN at ELSE 0
<1>1. left \in [Side -> Nat] /\ begun \in Nat
  BY MatchAssumption DEF MatchAssumption
<1>2. Started(r, at) =
        [r EXCEPT !.status = "active", !.settled = at, !.left = left, !.started = begun]
  BY DEF Started
<1>3. "active" \in Status
  BY DEF Status
<1> HIDE DEF left, begun
<1>4. LET next == Started(r, at) IN
      /\ next \in Row
      /\ next.status = "active" /\ next.settled = at
      /\ next.left = left /\ next.started = begun
      /\ next.timed = r.timed /\ next.ply = r.ply /\ next.offer = r.offer
      /\ next.from = r.from /\ next.reason = r.reason /\ next.winner = r.winner
      /\ next.accepted = r.accepted
  BY <1>1, <1>2, <1>3 DEF Row
<1> QED
  BY <1>4 DEF left, begun

\* An acceptance records one, or starts the game.
LEMMA AcceptedFields ==
  ASSUME NEW r \in Row, NEW s \in Side, NEW at \in Nat, r.status = "pending_acceptance"
  PROVE  LET next == AcceptedBy(r, s, at) IN
         /\ next \in Row
         /\ next.status \in {"pending_acceptance", "active"}
         /\ next.timed = r.timed /\ next.ply = r.ply /\ next.offer = r.offer
         /\ next.reason = r.reason /\ next.winner = r.winner
         /\ next.status = "active" =>
              /\ next.settled = at
              /\ next.left = [t \in Side |-> IF r.timed THEN Initial ELSE 0]
              /\ next.started = IF r.timed THEN at ELSE 0
<1> DEFINE a == [r EXCEPT !.accepted = r.accepted \cup {s}]
<1>1. /\ a \in Row /\ a.status = r.status /\ a.timed = r.timed /\ a.ply = r.ply
      /\ a.offer = r.offer /\ a.reason = r.reason /\ a.winner = r.winner
  BY DEF Row
<1>2. AcceptedBy(r, s, at) = IF a.accepted = Side THEN Started(a, at) ELSE a
  BY DEF AcceptedBy
<1> HIDE DEF a
<1>3. CASE a.accepted = Side
  <2> DEFINE next == Started(a, at)
  <2>1. /\ next \in Row /\ next.status = "active" /\ next.settled = at
        /\ next.left = [t \in Side |-> IF a.timed THEN Initial ELSE 0]
        /\ next.started = IF a.timed THEN at ELSE 0
        /\ next.timed = a.timed /\ next.ply = a.ply /\ next.offer = a.offer
        /\ next.reason = a.reason /\ next.winner = a.winner
    BY <1>1, StartedFields
  <2>2. AcceptedBy(r, s, at) = next
    BY <1>2, <1>3
  <2> HIDE DEF next
  <2> QED
    BY <1>1, <2>1, <2>2
<1>4. CASE a.accepted # Side
  BY <1>1, <1>2, <1>4
<1> QED
  BY <1>3, <1>4

\* What a permitted command writes, command by command.
LEMMA AppliedCases ==
  ASSUME NEW r \in Row, NEW s \in Side, NEW c \in Commands
  PROVE  \/ c = "resign" /\ Applied(r, c, s) = Completed(r, "resignation", Opponent(s))
         \/ /\ c = "offer_draw"
            /\ Applied(r, c, s) = [r EXCEPT !.offer = [by |-> s, ply |-> r.ply]]
         \/ c = "accept_draw" /\ Applied(r, c, s) = Completed(r, "agreement", Nobody)
         \/ c = "decline_draw" /\ Applied(r, c, s) = Resolved(r, r.ply)
<1>1. CASE c = "resign"
  BY <1>1 DEF Applied
<1>2. CASE c = "offer_draw"
  BY <1>2 DEF Applied
<1>3. CASE c = "accept_draw"
  BY <1>3 DEF Applied
<1>4. CASE c = "decline_draw"
  BY <1>4 DEF Applied
<1> QED
  BY <1>1, <1>2, <1>3, <1>4 DEF Commands

LEMMA AppliedFields ==
  ASSUME NEW r \in Row, NEW s \in Side, NEW c \in Commands
  PROVE  LET next == Applied(r, c, s) IN
         /\ next \in Row
         /\ next.timed = r.timed /\ next.settled = r.settled /\ next.ply = r.ply
         /\ next.left = r.left /\ next.started = r.started
         /\ \/ /\ next.status = "completed" /\ next.reason \in {"resignation", "agreement"}
               /\ next.offer = NoOffer
            \/ /\ next.status = r.status /\ next.reason = r.reason /\ next.winner = r.winner
               /\ next.offer \in {NoOffer, [by |-> s, ply |-> r.ply]}
<1>1. "resignation" \in Reason /\ "agreement" \in Reason
  BY DEF Reason
<1>2. Opponent(s) \in Side \cup {Nobody} /\ Nobody \in Side \cup {Nobody}
  BY Sides
<1>3. CASE Applied(r, c, s) = Completed(r, "resignation", Opponent(s))
  BY <1>1, <1>2, <1>3, CompletedFields
<1>4. CASE Applied(r, c, s) = Completed(r, "agreement", Nobody)
  BY <1>1, <1>2, <1>4, CompletedFields
<1>5. CASE Applied(r, c, s) = [r EXCEPT !.offer = [by |-> s, ply |-> r.ply]]
  <2>1. [by |-> s, ply |-> r.ply] \in Offer
    BY DEF Offer, Row
  <2> QED
    BY <1>5, <2>1 DEF Row
<1>6. CASE Applied(r, c, s) = Resolved(r, r.ply)
  <2>1. r.ply \in Nat
    BY DEF Row
  <2>2. Resolved(r, r.ply) \in Row
    BY <2>1, ResolvedFields
  <2>3. Resolved(r, r.ply) = [r EXCEPT !.offer = NoOffer, !.from = Resolved(r, r.ply).from]
    BY <2>1, ResolvedFields
  <2> DEFINE from == Resolved(r, r.ply).from
  <2> HIDE DEF from
  <2>4. Resolved(r, r.ply) = [r EXCEPT !.offer = NoOffer, !.from = from]
    BY <2>3 DEF from
  <2> QED
    BY <1>6, <2>2, <2>4 DEF Row
<1> QED
  BY <1>3, <1>4, <1>5, <1>6, AppliedCases

LEMMA NoMatchType == NoMatch \in Row /\ NoOffer \in Offer /\ NoDeadline \in Deadline
  BY Sides DEF NoMatch, Row, Status, Reason, NoOffer, Offer, NoDeadline, Deadline

\* The row of a match created active, and of one that waits for its players.
LEMMA CreatedFields ==
  ASSUME NEW timed \in BOOLEAN, NEW at \in Nat
  PROVE  LET next == CreateMatch(timed, at) IN
         /\ next \in Row
         /\ next.status = "active" /\ next.settled = at /\ next.ply = 0
         /\ next.timed = timed /\ next.offer = NoOffer
         /\ next.reason = "none" /\ next.winner = Nobody
         /\ timed => next.left = [s \in Side |-> Initial] /\ next.started = at
<1> DEFINE r == [NoMatch EXCEPT !.timed = timed]
           next == Started(r, at)
<1>1. /\ r \in Row /\ r.timed = timed /\ r.ply = 0 /\ r.offer = NoOffer
      /\ r.reason = "none" /\ r.winner = Nobody
  <2>1. r \in Row
    BY NoMatchType DEF Row
  <2> QED
    BY <2>1 DEF NoMatch
<1> HIDE DEF r
<1>2. /\ next \in Row /\ next.status = "active" /\ next.settled = at
      /\ next.left = [s \in Side |-> IF r.timed THEN Initial ELSE 0]
      /\ next.started = IF r.timed THEN at ELSE 0
      /\ next.timed = r.timed /\ next.ply = r.ply /\ next.offer = r.offer
      /\ next.reason = r.reason /\ next.winner = r.winner
  BY <1>1, StartedFields
<1>3. CreateMatch(timed, at) = next
  BY DEF CreateMatch, r
<1> HIDE DEF next
<1> QED
  BY <1>1, <1>2, <1>3

-----------------------------------------------------------------------------
(* Type correctness *)

LEMMA InitType == Init => TypeOK
<1> SUFFICES ASSUME Init PROVE TypeOK
  OBVIOUS
<1>1. NoCall \in Call /\ NoToken \in Token
  BY DEF NoCall, Call, NoToken, Token, Side
<1>2. NotOverdue \in [read : Row, at : Nat]
  BY NoMatchType DEF NotOverdue
<1> QED
  BY <1>1, <1>2, NoMatchType, MatchAssumption DEF Init, TypeOK, MatchAssumption

\* The types of what a request touches.
LEMMA RequestType ==
  ASSUME TypeOK, NEW h \in Handler,
         \/ \E request \in Requests, s \in Side : Receive(h, request, s)
         \/ Refuse(h) \/ Accept(h) \/ Decline(h) \/ OpenTheClock(h)
         \/ Move(h) \/ Command(h) \/ Commit(h) \/ Rollback(h)
  PROVE  TypeOK'
<1>c. call[h] \in Call /\ row \in Row /\ NoCall \in Call
  BY DEF TypeOK, NoCall, Call, Side
<1>f. Fault => faults' \in 0..MaxFaults
  BY MatchAssumption DEF Fault, TypeOK, MatchAssumption
<1>s. ASSUME NEW d \in Deadline, Store(d)
      PROVE  deadline' \in Deadline /\ faults' \in 0..MaxFaults
  BY <1>f, <1>s DEF Store, TypeOK
<1>1. ASSUME NEW request \in Requests, NEW s \in Side, Receive(h, request, s)
      PROVE  TypeOK'
  <2>1. [stage |-> "received", request |-> request, side |-> s, at |-> now] \in Call
    BY DEF Call, TypeOK
  <2> QED
    BY <1>1, <2>1 DEF Receive, taskVars, TypeOK
<1>2. CASE Refuse(h)
  BY <1>2, <1>c DEF Refuse, taskVars, TypeOK
<1>3. CASE Accept(h)
  <2>1. AcceptedBy(row, call[h].side, call[h].at) \in Row
    BY <1>3, <1>c, AcceptedFields DEF Accept, IsOpen, Call
  <2>2. [call[h] EXCEPT !.stage = "answered"] \in Call
    BY <1>c DEF Call
  <2>3. row' \in Row /\ draft' \in Row
    BY <1>3, <2>1 DEF Accept
  <2>4. call' \in [Handler -> Call]
    BY <1>3, <1>c, <2>2 DEF Accept, TypeOK
  <2>5. announced' \in [Lifecycle -> Nat] /\ told' \subseteq Side
    BY <1>3, <1>c DEF Accept, Announce, TypeOK, Call, Lifecycle
  <2> QED
    BY <1>3, <2>3, <2>4, <2>5 DEF Accept, taskVars, TypeOK
<1>4. CASE Decline(h)
  <2>1. [row EXCEPT !.status = "cancelled", !.settled = call[h].at] \in Row
    BY <1>c DEF Row, Call, Status
  <2> QED
    BY <1>4, <1>c, <2>1 DEF Decline, Announce, taskVars, TypeOK, Lifecycle
<1>5. CASE OpenTheClock(h)
  <2> DEFINE d == [side |-> "light", ply |-> 0, at |-> call[h].at + Initial]
  <2>1. d \in Deadline
    BY <1>c, MatchAssumption DEF MatchAssumption, Deadline, Call, Side
  <2>2. deadline' \in Deadline /\ faults' \in 0..MaxFaults
    BY <1>5, <1>s, <2>1 DEF OpenTheClock
  <2> QED
    BY <1>5, <1>c, <2>2 DEF OpenTheClock, taskVars, TypeOK
<1>w. ASSUME NEW next \in Row, Write(h, next), deadline' \in Deadline, faults' \in 0..MaxFaults
      PROVE  TypeOK'
  BY <1>w DEF Write, taskVars, TypeOK
<1>6. CASE Move(h)
  <2>1. PICK next \in Played(row, call[h].side, call[h].at) :
          /\ Write(h, next)
          /\ IF ~row.timed THEN UNCHANGED <<deadline, faults>>
             ELSE Store(IF next.status = "active" THEN DeadlineOf(next) ELSE NoDeadline)
    BY <1>6 DEF Move
  <2>2. next \in Row
    BY <1>c, PlayedFields DEF Call
  <2>3. DeadlineOf(next) \in Deadline /\ NoDeadline \in Deadline
    BY <2>2, DeadlineType, NoMatchType
  <2>4. deadline' \in Deadline /\ faults' \in 0..MaxFaults
    BY <1>s, <2>1, <2>3 DEF TypeOK
  <2> QED
    BY <1>w, <2>1, <2>2, <2>4
<1>7. CASE Command(h)
  <2> DEFINE next == Applied(row, call[h].request, call[h].side)
  <2>1. next \in Row
    BY <1>7, <1>c, AppliedFields DEF Command, Call
  <2>2. Write(h, next)
    BY <1>7 DEF Command
  <2>3. deadline' \in Deadline /\ faults' \in 0..MaxFaults
    BY <1>7, <1>s, NoMatchType DEF Command, TypeOK
  <2> HIDE DEF next
  <2> QED
    BY <1>w, <2>1, <2>2, <2>3
<1>8. CASE Commit(h)
  <2>1. draft.ply \in Int
    BY DEF TypeOK, Row
  <2>2. answeredAt' \in [Side -> Int]
    BY <1>8, <2>1 DEF Commit, TurnedDown, TypeOK
  <2>3. announced' \in [Lifecycle -> Nat]
    BY <1>8 DEF Commit, Announce, TypeOK, Lifecycle
  <2> QED
    BY <1>8, <1>c, <2>2, <2>3 DEF Commit, taskVars, TypeOK
<1>9. CASE Rollback(h)
  BY <1>9, <1>c, <1>f DEF Rollback, taskVars, TypeOK
<1> QED
  BY <1>1, <1>2, <1>3, <1>4, <1>5, <1>6, <1>7, <1>8, <1>9

\* The types of what a periodic task touches.
LEMMA TaskType ==
  ASSUME TypeOK, Task
  PROVE  TypeOK'
<1>f. Fault => faults' \in 0..MaxFaults
  BY MatchAssumption DEF Fault, TypeOK, MatchAssumption
<1>s. ASSUME NEW d \in Deadline, Store(d)
      PROVE  deadline' \in Deadline /\ faults' \in 0..MaxFaults
  BY <1>f, <1>s DEF Store, TypeOK
<1>n. NoToken \in Token /\ NoDeadline \in Deadline /\ NotOverdue \in [read : Row, at : Nat]
  BY NoMatchType DEF NoToken, Token, Side, NotOverdue
<1>1. ASSUME NEW a \in Adjudicator, ClaimExpired(a)
      PROVE  TypeOK'
  <2>1. [stage |-> "claimed", side |-> deadline.side, ply |-> deadline.ply, at |-> now] \in Token
    BY <1>1 DEF ClaimExpired, TypeOK, Deadline, Token
  <2> QED
    BY <1>1, <1>n, <2>1 DEF ClaimExpired, requestVars, TypeOK
<1>2. ASSUME NEW a \in Adjudicator, Flag(a)
      PROVE  TypeOK'
  <2>1. token[a] \in Token /\ row \in Row
    BY DEF TypeOK
  <2>2. [token[a] EXCEPT !.stage = "settled"] \in Token
    BY <2>1 DEF Token
  <2>3. Completed(row, "flag", Opponent(token[a].side)) \in Row
    <3>1. Opponent(token[a].side) \in Side
      BY <2>1, Sides DEF Token
    <3>2. "flag" \in Reason
      BY DEF Reason
    <3> QED
      BY <2>1, <3>1, <3>2, CompletedFields
  <2>4. token' = [token EXCEPT ![a] = [token[a] EXCEPT !.stage = "settled"]]
    BY <1>2 DEF Flag
  <2> QED
    BY <1>2, <2>2, <2>3, <2>4 DEF Flag, Announce, TypeOK, Lifecycle
<1>3. ASSUME NEW a \in Adjudicator, Forget(a)
      PROVE  TypeOK'
  BY <1>3, <1>s, <1>n DEF Forget, requestVars, TypeOK
<1>4. ASSUME NEW a \in Adjudicator, DropToken(a)
      PROVE  TypeOK'
  BY <1>4, <1>f, <1>n DEF DropToken, requestVars, TypeOK
<1>5. ASSUME NEW r \in Reconciler, Reread(r)
      PROVE  TypeOK'
  <2>1. DeadlineOf(row) \in Deadline
    BY DeadlineType DEF TypeOK
  <2> QED
    BY <1>5, <2>1 DEF Reread, requestVars, TypeOK
<1>6. ASSUME NEW r \in Reconciler, Reschedule(r)
      PROVE  TypeOK'
  <2>1. reread[r] \in Deadline
    BY DEF TypeOK
  <2> QED
    BY <1>6, <1>s, <1>n, <2>1 DEF Reschedule, requestVars, TypeOK
<1>7. ASSUME NEW w \in Sweeper, ClaimOverdue(w)
      PROVE  TypeOK'
  <2>1. [read |-> row, at |-> now] \in [read : Row, at : Nat]
    BY DEF TypeOK
  <2> QED
    BY <1>7, <2>1 DEF ClaimOverdue, requestVars, TypeOK
<1>8. ASSUME NEW w \in Sweeper, Expire(w)
      PROVE  TypeOK'
  <2>1. overdue[w].read \in Row /\ overdue[w].at \in Nat
    BY DEF TypeOK
  <2>2. [overdue[w].read EXCEPT !.status = "expired", !.settled = overdue[w].at] \in Row
    BY <2>1 DEF Row, Status
  <2> QED
    BY <1>8, <1>n, <2>2 DEF Expire, Announce, TypeOK, Lifecycle
<1>9. ASSUME NEW w \in Sweeper, ExpireNot(w)
      PROVE  TypeOK'
  <2>1. faults' \in 0..MaxFaults
    BY <1>9, <1>f DEF ExpireNot, TypeOK
  <2> QED
    BY <1>9, <1>n, <2>1 DEF ExpireNot, requestVars, TypeOK
<1> QED
  BY <1>1, <1>2, <1>3, <1>4, <1>5, <1>6, <1>7, <1>8, <1>9 DEF Task

LEMMA StepType ==
  ASSUME TypeOK, [Next]_vars
  PROVE  TypeOK'
<1>1. ASSUME NEW timed \in Timings, CreatePending(timed) \/ CreateActive(timed)
      PROVE  TypeOK'
  <2>1. timed \in BOOLEAN
    BY MatchAssumption DEF MatchAssumption
  <2> DEFINE next == CreateMatch(timed, now)
  <2>2. next \in Row
    BY <2>1, CreatedFields DEF TypeOK
  <2> HIDE DEF next
  <2>3. /\ [next EXCEPT !.status = "pending_acceptance", !.settled = 0] \in Row
        /\ [next EXCEPT !.accepted = Side] \in Row
    BY <2>2 DEF Row, Status
  <2>4. row' \in Row /\ draft' \in Row
    BY <1>1, <2>3 DEF CreatePending, CreateActive, next
  <2>5. announced' \in [Lifecycle -> Nat]
    BY <1>1 DEF CreatePending, CreateActive, Announce, TypeOK, Lifecycle
  <2> QED
    BY <1>1, <2>4, <2>5 DEF CreatePending, CreateActive, taskVars, TypeOK
<1>2. CASE Abort
  <2>1. Completed(row, "abort", Nobody) \in Row
    BY CompletedFields DEF TypeOK, Reason
  <2> QED
    BY <1>2, <2>1 DEF Abort, Announce, taskVars, TypeOK, Lifecycle
<1>3. CASE LoseDeadlines
  <2>1. faults' \in 0..MaxFaults
    BY <1>3, MatchAssumption DEF LoseDeadlines, Fault, TypeOK, MatchAssumption
  <2> QED
    BY <1>3, <2>1, NoMatchType DEF LoseDeadlines, requestVars, taskVars, TypeOK
<1>4. CASE Tick
  BY <1>4 DEF Tick, requestVars, taskVars, TypeOK
<1>5. CASE UNCHANGED vars
  BY <1>5 DEF vars, TypeOK
<1>6. CASE Request
  BY <1>6, RequestType DEF Request
<1> QED
  BY <1>1, <1>2, <1>3, <1>4, <1>5, <1>6, TaskType DEF Next

\* Every reachable state has the declared types.
THEOREM TypeCorrect == Spec => []TypeOK
<1>1. Init => TypeOK
  BY InitType
<1>2. TypeOK /\ [Next]_vars => TypeOK'
  BY StepType
<1> QED
  BY <1>1, <1>2, PTL DEF Spec

-----------------------------------------------------------------------------
(* The row, the open transaction's view of it and what the sweepers read *)

\* A record has a result exactly when it is complete, plies only once it was
\* active and a standing offer only while it is.
Sane(r) ==
  /\ r.status = "completed" <=> r.reason # "none"
  /\ r.status # "completed" => r.winner = Nobody
  /\ r.status \in {"absent", "pending_acceptance"} => r.ply = 0
  /\ r.status # "active" => r.offer.by = Nobody

\* An open transaction has moved or ended a live match, and never flagged it.
DraftOfLive ==
  /\ row.status = "active" /\ draft.status \in {"active", "completed"}
  /\ draft.timed = row.timed /\ draft.settled = row.settled
  /\ draft.reason # "flag"

\* None of the properties is inductive: they say nothing of the row that an
\* open transaction will commit nor of the row that a sweeper will write back.
RecordInv ==
  /\ Sane(row) /\ Sane(draft)
  /\ holder = NoHandler => draft = row
  /\ holder # NoHandler => DraftOfLive
  /\ \A w \in Sweeper :
       Sane(overdue[w].read) /\ overdue[w].read.status \in {"absent", "pending_acceptance"}

LEMMA NoMatchSane == Sane(NoMatch)
  BY DEF Sane, NoMatch, NoOffer

LEMMA CompletedSane ==
  ASSUME NEW r \in Row, NEW reason \in Reason \ {"none"}, NEW winner \in Side \cup {Nobody}
  PROVE  Sane(Completed(r, reason, winner))
<1> DEFINE next == Completed(r, reason, winner)
<1>1. next.status = "completed" /\ next.reason = reason /\ next.offer = NoOffer
  BY CompletedFields
<1> HIDE DEF next
<1>2. Sane(next)
  BY <1>1 DEF Sane, NoOffer
<1> QED
  BY <1>2 DEF next

LEMMA PlayedSane ==
  ASSUME NEW r \in Row, NEW s \in Side, NEW at \in Nat, NEW next \in Played(r, s, at),
         Sane(r), r.status = "active"
  PROVE  Sane(next) /\ next.reason # "flag"
<1>1. CASE next = Moved(r, s, at)
  <2>1. next.status = "active" /\ next.reason = r.reason /\ next.winner = r.winner
    BY <1>1, MovedFields
  <2> QED
    BY <2>1 DEF Sane
<1>2. CASE /\ next.status = "completed" /\ next.reason \in {"play", "draw"}
           /\ next.offer = NoOffer
  BY <1>2 DEF Sane, NoOffer
<1> QED
  BY <1>1, <1>2, PlayedFields

LEMMA AppliedSane ==
  ASSUME NEW r \in Row, NEW s \in Side, NEW c \in Commands, Sane(r), r.status = "active"
  PROVE  Sane(Applied(r, c, s)) /\ Applied(r, c, s).reason # "flag"
<1> DEFINE next == Applied(r, c, s)
<1>1. \/ /\ next.status = "completed" /\ next.reason \in {"resignation", "agreement"}
         /\ next.offer = NoOffer
      \/ next.status = r.status /\ next.reason = r.reason /\ next.winner = r.winner
  BY AppliedFields
<1> HIDE DEF next
<1>2. Sane(next) /\ next.reason # "flag"
  BY <1>1 DEF Sane, NoOffer
<1> QED
  BY <1>2 DEF next

recordVars == <<row, draft, holder, announced, answeredAt>>

\* The steps that write a row or a draft; every other step leaves both alone,
\* and what is said of them.
LEMMA RowWriters ==
  ASSUME [Next]_vars
  PROVE  \/ \E timed \in Timings : CreatePending(timed) \/ CreateActive(timed)
         \/ \E h \in Handler : Accept(h) \/ Decline(h) \/ Move(h) \/ Command(h)
                               \/ Commit(h) \/ Rollback(h)
         \/ \E w \in Sweeper : Expire(w)
         \/ \E a \in Adjudicator : Flag(a)
         \/ Abort
         \/ UNCHANGED recordVars
<1>1. ASSUME NEW h \in Handler,
             \/ \E request \in Requests, s \in Side : Receive(h, request, s)
             \/ Refuse(h) \/ OpenTheClock(h)
      PROVE  UNCHANGED recordVars
  BY <1>1 DEF recordVars, Receive, Refuse, OpenTheClock
<1>2. ASSUME NEW a \in Adjudicator, ClaimExpired(a) \/ Forget(a) \/ DropToken(a)
      PROVE  UNCHANGED recordVars
  BY <1>2 DEF recordVars, ClaimExpired, Forget, DropToken, requestVars
<1>3. ASSUME NEW r \in Reconciler, Reread(r) \/ Reschedule(r)
      PROVE  UNCHANGED recordVars
  BY <1>3 DEF recordVars, Reread, Reschedule, requestVars
<1>4. ASSUME NEW w \in Sweeper, ClaimOverdue(w) \/ ExpireNot(w)
      PROVE  UNCHANGED recordVars
  BY <1>4 DEF recordVars, ClaimOverdue, ExpireNot, requestVars
<1>5. CASE LoseDeadlines \/ Tick \/ UNCHANGED vars
  BY <1>5 DEF recordVars, LoseDeadlines, Tick, vars, requestVars
<1> QED
  BY <1>1, <1>2, <1>3, <1>4, <1>5 DEF Next, Request, Task

\* A flag and an abort complete a live match and leave its position alone.
LEMMA FlagWrites ==
  ASSUME TypeOK, NEW a \in Adjudicator, Flag(a)
  PROVE  /\ row.status = "active" /\ IsCurrent(token[a])
         /\ row'.status = "completed" /\ row'.reason = "flag"
         /\ row'.winner = Opponent(token[a].side) /\ row'.offer = NoOffer
         /\ row'.timed = row.timed /\ row'.ply = row.ply /\ row'.settled = row.settled
         /\ row'.left = row.left /\ row'.started = row.started
<1>1. row.status = "active" /\ IsCurrent(token[a])
  BY DEF Flag, IsCurrent
<1>2. row \in Row /\ Opponent(token[a].side) \in Side \cup {Nobody} /\ "flag" \in Reason
  BY Sides DEF TypeOK, Token, Reason
<1>3. row' = Completed(row, "flag", Opponent(token[a].side))
  BY DEF Flag
<1> QED
  BY <1>1, <1>2, <1>3, CompletedFields

LEMMA AbortWrites ==
  ASSUME TypeOK, Abort
  PROVE  /\ row.status = "active"
         /\ row'.status = "completed" /\ row'.reason = "abort"
         /\ row'.winner = Nobody /\ row'.offer = NoOffer
         /\ row'.timed = row.timed /\ row'.ply = row.ply /\ row'.settled = row.settled
         /\ row'.left = row.left /\ row'.started = row.started
<1>1. row \in Row /\ "abort" \in Reason
  BY DEF TypeOK, Reason
<1>2. row' = Completed(row, "abort", Nobody) /\ row.status = "active"
  BY DEF Abort
<1> QED
  BY <1>1, <1>2, CompletedFields

\* The sweepers read only committed pending rows.
LEMMA OverdueSane ==
  ASSUME TypeOK, RecordInv, [Next]_vars, NEW w \in Sweeper
  PROVE  /\ Sane(overdue'[w].read)
         /\ overdue'[w].read.status \in {"absent", "pending_acceptance"}
<1>1. CASE overdue' = overdue
  BY <1>1 DEF RecordInv
<1>2. ASSUME NEW v \in Sweeper, ClaimOverdue(v)
      PROVE  overdue' = [overdue EXCEPT ![v] = [read |-> row, at |-> now]]
             /\ row.status = "pending_acceptance"
  BY <1>2 DEF ClaimOverdue
<1>3. ASSUME NEW v \in Sweeper, Expire(v) \/ ExpireNot(v)
      PROVE  overdue' = [overdue EXCEPT ![v] = NotOverdue]
  BY <1>3 DEF Expire, ExpireNot
<1>4. ASSUME NEW v \in Sweeper, NEW x, overdue' = [overdue EXCEPT ![v] = x],
             Sane(x.read), x.read.status \in {"absent", "pending_acceptance"}
      PROVE  /\ Sane(overdue'[w].read)
             /\ overdue'[w].read.status \in {"absent", "pending_acceptance"}
  <2>1. CASE v = w
    BY <1>4, <2>1 DEF TypeOK
  <2>2. CASE v # w
    BY <1>4, <2>2 DEF TypeOK, RecordInv
  <2> QED
    BY <2>1, <2>2
<1>5. Sane(NotOverdue.read) /\ NotOverdue.read.status = "absent"
  BY NoMatchSane DEF NotOverdue, NoMatch
<1>6. Sane(row)
  BY DEF RecordInv
<1>7. ASSUME NEW v \in Sweeper, ClaimOverdue(v) \/ Expire(v) \/ ExpireNot(v)
      PROVE  /\ Sane(overdue'[w].read)
             /\ overdue'[w].read.status \in {"absent", "pending_acceptance"}
  BY <1>2, <1>3, <1>4, <1>5, <1>6, <1>7
<1>8. \/ \E v \in Sweeper : ClaimOverdue(v) \/ Expire(v) \/ ExpireNot(v)
      \/ overdue' = overdue
  BY DEF Next, Request, Task, vars, CreatePending, CreateActive, Receive, Refuse, Accept,
         Decline, OpenTheClock, Move, Command, Commit, Rollback, Write, Abort, ClaimExpired,
         Flag, Forget, DropToken, Reread, Reschedule, LoseDeadlines, Tick, taskVars
<1> QED
  BY <1>1, <1>7, <1>8

LEMMA InitRecord == Init => RecordInv
<1> SUFFICES ASSUME Init PROVE RecordInv
  OBVIOUS
<1>1. NoMatch.status = "absent"
  BY DEF NoMatch
<1>2. \A w \in Sweeper : overdue[w].read = NoMatch
  BY DEF Init, NotOverdue
<1>3. row = NoMatch /\ draft = NoMatch /\ holder = NoHandler
  BY DEF Init
<1> QED
  BY <1>1, <1>2, <1>3, NoMatchSane DEF RecordInv

LEMMA StepRecord ==
  ASSUME TypeOK, RecordInv, [Next]_vars
  PROVE  RecordInv'
<1>w. \A w \in Sweeper : /\ Sane(overdue'[w].read)
                         /\ overdue'[w].read.status \in {"absent", "pending_acceptance"}
  BY OverdueSane
<1>r. row \in Row /\ draft \in Row /\ now \in Nat
  BY DEF TypeOK
<1>c. \A h \in Handler : call[h].side \in Side /\ call[h].at \in Nat
  BY DEF TypeOK, Call
\* A transaction of one step commits what it writes, with nobody at the lock.
<1>t. ASSUME Sane(row'), draft' = row', holder = NoHandler, holder' = holder
      PROVE  RecordInv'
  BY <1>t, <1>w DEF RecordInv
<1>1. ASSUME NEW timed \in Timings, CreatePending(timed) \/ CreateActive(timed)
      PROVE  RecordInv'
  <2> DEFINE next == CreateMatch(timed, now)
  <2>1. /\ next \in Row /\ next.status = "active" /\ next.ply = 0 /\ next.offer = NoOffer
        /\ next.reason = "none" /\ next.winner = Nobody
    BY <1>r, CreatedFields, MatchAssumption DEF MatchAssumption
  <2> HIDE DEF next
  <2>2. /\ Sane([next EXCEPT !.status = "pending_acceptance", !.settled = 0])
        /\ Sane([next EXCEPT !.accepted = Side])
    BY <2>1 DEF Sane, Row, NoOffer
  <2>3. Sane(row') /\ draft' = row' /\ holder' = holder /\ row.status = "absent"
    BY <1>1, <2>2 DEF CreatePending, CreateActive, next
  <2> QED
    BY <1>t, <2>3 DEF RecordInv, DraftOfLive
<1>2. ASSUME NEW h \in Handler, Accept(h)
      PROVE  RecordInv'
  <2> DEFINE next == AcceptedBy(row, call[h].side, call[h].at)
  <2>1. row.status = "pending_acceptance"
    BY <1>2 DEF Accept, IsOpen
  <2>2. /\ next.status \in {"pending_acceptance", "active"} /\ next.ply = row.ply
        /\ next.offer = row.offer /\ next.reason = row.reason /\ next.winner = row.winner
    BY <1>r, <1>c, <2>1, AcceptedFields
  <2> HIDE DEF next
  <2>3. Sane(next)
    BY <2>1, <2>2 DEF RecordInv, Sane
  <2> QED
    BY <1>2, <1>t, <2>3 DEF Accept, Unlocked, next
<1>3. ASSUME NEW h \in Handler, Decline(h)
      PROVE  RecordInv'
  <2>1. Sane([row EXCEPT !.status = "cancelled", !.settled = call[h].at])
    BY <1>3, <1>r DEF Decline, IsOpen, RecordInv, Sane, Row
  <2> QED
    BY <1>3, <1>t, <2>1 DEF Decline, Unlocked
<1>4. ASSUME NEW h \in Handler, Move(h)
      PROVE  RecordInv'
  <2>1. PICK next \in Played(row, call[h].side, call[h].at) : Write(h, next)
    BY <1>4 DEF Move
  <2>2. row.status = "active" /\ Sane(row)
    BY <1>4 DEF Move, RecordInv
  <2>3. /\ Sane(next) /\ next.reason # "flag" /\ next.status \in {"active", "completed"}
        /\ next.timed = row.timed /\ next.settled = row.settled
    BY <1>r, <1>c, <2>2, PlayedSane, PlayedFields
  <2>4. h # NoHandler
    BY MatchAssumption DEF MatchAssumption
  <2> QED
    BY <1>w, <2>1, <2>2, <2>3, <2>4 DEF Write, RecordInv, DraftOfLive
<1>5. ASSUME NEW h \in Handler, Command(h)
      PROVE  RecordInv'
  <2> DEFINE next == Applied(row, call[h].request, call[h].side)
  <2>1. Write(h, next) /\ row.status = "active" /\ call[h].request \in Commands
    BY <1>5 DEF Command
  <2>2. /\ Sane(next) /\ next.reason # "flag" /\ next.status \in {"active", "completed"}
        /\ next.timed = row.timed /\ next.settled = row.settled
    BY <1>r, <1>c, <2>1, AppliedSane, AppliedFields DEF RecordInv
  <2> HIDE DEF next
  <2>3. h # NoHandler
    BY MatchAssumption DEF MatchAssumption
  <2> QED
    BY <1>w, <2>1, <2>2, <2>3 DEF Write, RecordInv, DraftOfLive
<1>6. ASSUME NEW h \in Handler, Commit(h) \/ Rollback(h)
      PROVE  RecordInv'
  BY <1>6, <1>w DEF Commit, Rollback, RecordInv
<1>7. ASSUME NEW w \in Sweeper, Expire(w)
      PROVE  RecordInv'
  <2> DEFINE read == overdue[w].read
             next == [read EXCEPT !.status = "expired", !.settled = overdue[w].at]
  <2>1. read \in Row /\ Sane(read) /\ read.status = "pending_acceptance"
    BY <1>7 DEF Expire, RecordInv, TypeOK
  <2> HIDE DEF read
  <2>2. Sane(next)
    BY <2>1 DEF Sane, Row
  <2> QED
    BY <1>7, <1>t, <2>2 DEF Expire, Unlocked, read
<1>8. ASSUME NEW a \in Adjudicator, Flag(a)
      PROVE  RecordInv'
  <2>1. Opponent(token[a].side) \in Side \cup {Nobody}
    BY Sides DEF TypeOK, Token
  <2>2. Sane(Completed(row, "flag", Opponent(token[a].side)))
    BY <1>r, <2>1, CompletedSane DEF Reason
  <2> QED
    BY <1>8, <1>t, <2>2 DEF Flag, Unlocked
<1>9. CASE Abort
  <2>1. Sane(Completed(row, "abort", Nobody))
    BY <1>r, CompletedSane DEF Reason
  <2> QED
    BY <1>9, <1>t, <2>1 DEF Abort, Unlocked
<1>10. CASE UNCHANGED recordVars
  BY <1>10, <1>w DEF recordVars, RecordInv, DraftOfLive
<1> QED
  BY <1>1, <1>2, <1>3, <1>4, <1>5, <1>6, <1>7, <1>8, <1>9, <1>10, RowWriters

-----------------------------------------------------------------------------
(* Announcements *)

\* The statuses each event announces, one by one.
LEMMA ReachedCases ==
  ASSUME NEW x \in Status
  PROVE  /\ x \in Reached("created") <=> x # "absent"
         /\ x \in Reached("activated") <=> x \in {"active", "completed"}
         /\ x \in Reached("declined") <=> x = "cancelled"
         /\ x \in Reached("expired") <=> x = "expired"
         /\ x \in Reached("completed") <=> x = "completed"
  BY DEF Reached

LEMMA InitAnnounced == Init => AnnouncedAsSettled
<1> SUFFICES ASSUME Init, NEW k \in Lifecycle
             PROVE  announced[k] = IF row.status \in Reached(k) THEN 1 ELSE 0
  BY DEF AnnouncedAsSettled
<1>1. announced[k] = 0 /\ row.status = "absent"
  BY DEF Init, NoMatch
<1>2. row.status \notin Reached(k)
  BY <1>1, ReachedCases DEF Lifecycle, Status
<1> QED
  BY <1>1, <1>2

\* A step that announces k0 as the match enters the statuses k0 stands for.
LEMMA OneAnnouncement ==
  ASSUME TypeOK, AnnouncedAsSettled, NEW k0 \in Lifecycle, Announce(k0),
         row.status \notin Reached(k0),
         \A k \in Lifecycle :
           row'.status \in Reached(k) <=> row.status \in Reached(k) \/ k = k0
  PROVE  AnnouncedAsSettled'
<1> SUFFICES ASSUME NEW k \in Lifecycle
             PROVE  announced'[k] = IF row'.status \in Reached(k) THEN 1 ELSE 0
  BY DEF AnnouncedAsSettled, Reached
<1>1. announced' = [announced EXCEPT ![k0] = announced[k0] + 1]
      /\ announced \in [Lifecycle -> Nat]
  BY DEF Announce, TypeOK
<1>2. announced[k] = IF row.status \in Reached(k) THEN 1 ELSE 0
  BY DEF AnnouncedAsSettled
<1>3. CASE k = k0
  BY <1>1, <1>2, <1>3
<1>4. CASE k # k0
  BY <1>1, <1>2, <1>4
<1> QED
  BY <1>3, <1>4

\* The steps that end a live match announce its completion.
LEMMA CompletionAnnounced ==
  ASSUME TypeOK, AnnouncedAsSettled, row.status = "active", row'.status = "completed",
         Announce("completed")
  PROVE  AnnouncedAsSettled'
<1>1. "active" \in Status /\ "completed" \in Status
  BY DEF Status
<1>2. \A k \in Lifecycle :
        row'.status \in Reached(k) <=> row.status \in Reached(k) \/ k = "completed"
  BY <1>1, ReachedCases DEF Lifecycle
<1> QED
  BY <1>1, <1>2, ReachedCases, OneAnnouncement DEF Lifecycle

LEMMA StepAnnounced ==
  ASSUME TypeOK, RecordInv, AnnouncedAsSettled, [Next]_vars
  PROVE  AnnouncedAsSettled'
<1>r. row \in Row /\ row' \in Row
  BY StepType DEF TypeOK
<1>s. row.status \in Status /\ row'.status \in Status
  BY <1>r DEF Row
<1>u. ASSUME row'.status = row.status, announced' = announced
      PROVE  AnnouncedAsSettled'
  BY <1>u DEF AnnouncedAsSettled, Reached
<1>c. \A h \in Handler : call[h].side \in Side /\ call[h].at \in Nat
  BY DEF TypeOK, Call
<1>1. ASSUME NEW timed \in Timings, CreatePending(timed)
      PROVE  AnnouncedAsSettled'
  <2> DEFINE next == CreateMatch(timed, now)
  <2>0. next \in Row
    BY CreatedFields, MatchAssumption DEF MatchAssumption, TypeOK
  <2> HIDE DEF next
  <2>1. row.status = "absent" /\ row'.status = "pending_acceptance" /\ Announce("created")
    BY <1>1, <2>0 DEF CreatePending, Row, next
  <2>2. \A k \in Lifecycle :
          row'.status \in Reached(k) <=> row.status \in Reached(k) \/ k = "created"
    BY <1>s, <2>1, ReachedCases DEF Lifecycle
  <2> QED
    BY <1>s, <2>1, <2>2, ReachedCases, OneAnnouncement DEF Lifecycle
<1>2. ASSUME NEW timed \in Timings, CreateActive(timed)
      PROVE  AnnouncedAsSettled'
  <2> DEFINE next == CreateMatch(timed, now)
  <2>0. next \in Row /\ next.status = "active"
    BY CreatedFields, MatchAssumption DEF MatchAssumption, TypeOK
  <2> HIDE DEF next
  <2>1. row.status = "absent" /\ row'.status = "active"
    BY <1>2, <2>0 DEF CreateActive, Row, next
  <2>2. \A k \in Lifecycle : announced[k] = 0
    BY <1>s, <2>1, ReachedCases DEF AnnouncedAsSettled, Lifecycle
  <2>3. \A k \in Lifecycle : announced'[k] = IF k \in {"created", "activated"} THEN 1 ELSE 0
    BY <1>2, <2>2 DEF CreateActive, TypeOK, Lifecycle
  <2>4. \A k \in Lifecycle : row'.status \in Reached(k) <=> k \in {"created", "activated"}
    BY <1>s, <2>1, ReachedCases DEF Lifecycle
  <2> QED
    BY <2>3, <2>4 DEF AnnouncedAsSettled, Reached
<1>3. ASSUME NEW h \in Handler, Accept(h)
      PROVE  AnnouncedAsSettled'
  <2> DEFINE next == AcceptedBy(row, call[h].side, call[h].at)
  <2>1. row.status = "pending_acceptance"
    BY <1>3 DEF Accept, IsOpen
  <2>2. next.status \in {"pending_acceptance", "active"}
    BY <1>r, <1>c, <2>1, AcceptedFields
  <2>3. row' = next
    BY <1>3 DEF Accept
  <2>4. IF next.status = "active" THEN Announce("activated") ELSE announced' = announced
    BY <1>3 DEF Accept
  <2> HIDE DEF next
  <2>5. CASE next.status = "pending_acceptance"
    BY <1>u, <2>1, <2>3, <2>4, <2>5
  <2>6. CASE next.status = "active"
    <3>1. \A k \in Lifecycle :
            row'.status \in Reached(k) <=> row.status \in Reached(k) \/ k = "activated"
      BY <1>s, <2>1, <2>3, <2>6, ReachedCases DEF Lifecycle
    <3> QED
      BY <1>s, <2>1, <2>4, <2>6, <3>1, ReachedCases, OneAnnouncement DEF Lifecycle
  <2> QED
    BY <2>2, <2>5, <2>6
<1>4. ASSUME NEW h \in Handler, Decline(h)
      PROVE  AnnouncedAsSettled'
  <2>1. /\ row.status = "pending_acceptance" /\ row'.status = "cancelled"
        /\ Announce("declined")
    BY <1>4, <1>r DEF Decline, IsOpen, Row
  <2>2. \A k \in Lifecycle :
          row'.status \in Reached(k) <=> row.status \in Reached(k) \/ k = "declined"
    BY <1>s, <2>1, ReachedCases DEF Lifecycle
  <2> QED
    BY <1>s, <2>1, <2>2, ReachedCases, OneAnnouncement DEF Lifecycle
<1>5. ASSUME NEW w \in Sweeper, Expire(w)
      PROVE  AnnouncedAsSettled'
  <2>0. overdue[w].read \in Row
    BY DEF TypeOK
  <2>1. /\ row.status = "pending_acceptance" /\ row'.status = "expired"
        /\ Announce("expired")
    BY <1>5, <2>0 DEF Expire, Row
  <2>2. \A k \in Lifecycle :
          row'.status \in Reached(k) <=> row.status \in Reached(k) \/ k = "expired"
    BY <1>s, <2>1, ReachedCases DEF Lifecycle
  <2> QED
    BY <1>s, <2>1, <2>2, ReachedCases, OneAnnouncement DEF Lifecycle
<1>6. ASSUME NEW h \in Handler, Commit(h)
      PROVE  AnnouncedAsSettled'
  <2>1. row.status = "active" /\ draft.status \in {"active", "completed"}
    BY <1>6, MatchAssumption DEF MatchAssumption, Commit, RecordInv, DraftOfLive
  <2> QED
    BY <1>6, <1>u, <2>1, CompletionAnnounced DEF Commit
<1>7. ASSUME NEW a \in Adjudicator, Flag(a)
      PROVE  AnnouncedAsSettled'
  <2>1. row'.status = "completed" /\ row.status = "active" /\ Announce("completed")
    BY <1>7, FlagWrites DEF Flag
  <2> QED
    BY <2>1, CompletionAnnounced
<1>8. CASE Abort
  <2>1. row'.status = "completed" /\ row.status = "active" /\ Announce("completed")
    BY <1>8, AbortWrites DEF Abort
  <2> QED
    BY <2>1, CompletionAnnounced
<1>9. ASSUME NEW h \in Handler, Move(h) \/ Command(h) \/ Rollback(h)
      PROVE  AnnouncedAsSettled'
  BY <1>9, <1>u DEF Move, Command, Rollback, Write
<1>10. CASE UNCHANGED recordVars
  BY <1>10, <1>u DEF recordVars
<1> QED
  BY <1>1, <1>2, <1>3, <1>4, <1>5, <1>6, <1>7, <1>8, <1>9, <1>10, RowWriters

\* Each lifecycle event is committed exactly once, for the state it announces,
\* however many requests and periodic tasks are in flight.
THEOREM EventsAnnouncedOnce == Spec => []AnnouncedAsSettled
<1>1. TypeOK /\ RecordInv /\ AnnouncedAsSettled /\ [Next]_vars
        => TypeOK' /\ RecordInv' /\ AnnouncedAsSettled'
  BY StepType, StepRecord, StepAnnounced
<1>2. Init => TypeOK /\ RecordInv /\ AnnouncedAsSettled
  BY InitType, InitRecord, InitAnnounced
<1> QED
  BY <1>1, <1>2, PTL DEF Spec

-----------------------------------------------------------------------------
(* Flags *)

\* A token is never from the future: the instant at which it was claimed is
\* what the adjudicator measures the clock with.
TokenInv == \A a \in Adjudicator : token[a].at <= now

LEMMA StepToken ==
  ASSUME TypeOK, TokenInv, [Next]_vars
  PROVE  TokenInv'
<1>n. now \in Nat /\ now' \in Nat
  BY StepType DEF TypeOK
<1>1. now <= now'
  <2>1. CASE Tick
    BY <1>n, <2>1 DEF Tick
  <2>2. CASE UNCHANGED now
    BY <1>n, <2>2
  <2> QED
    BY <2>1, <2>2 DEF Next, Request, Task, vars, CreatePending, CreateActive, Receive, Refuse,
         Accept, Decline, OpenTheClock, Move, Command, Commit, Rollback, Write, Abort,
         ClaimExpired, Flag, Forget, DropToken, Reread, Reschedule, ClaimOverdue, Expire,
         ExpireNot, LoseDeadlines
<1>2. \A a \in Adjudicator : token'[a].at \in Nat /\ token[a].at \in Nat
  BY StepType DEF TypeOK, Token
<1> SUFFICES ASSUME NEW a \in Adjudicator PROVE token'[a].at <= now'
  BY DEF TokenInv
<1>3. ASSUME NEW b \in Adjudicator, NEW t,
             token' = [token EXCEPT ![b] = t], t.at <= now'
      PROVE  token'[a].at <= now'
  <2>1. CASE a = b
    BY <1>3, <2>1 DEF TypeOK
  <2>2. CASE a # b
    BY <1>1, <1>2, <1>3, <1>n, <2>2 DEF TypeOK, TokenInv
  <2> QED
    BY <2>1, <2>2
<1>4. ASSUME NEW b \in Adjudicator, ClaimExpired(b)
      PROVE  token'[a].at <= now'
  <2> DEFINE t == [stage |-> "claimed", side |-> deadline.side, ply |-> deadline.ply, at |-> now]
  <2>1. token' = [token EXCEPT ![b] = t] /\ t.at = now
    BY <1>4 DEF ClaimExpired
  <2> HIDE DEF t
  <2> QED
    BY <1>1, <1>3, <2>1
<1>5. ASSUME NEW b \in Adjudicator, Flag(b)
      PROVE  token'[a].at <= now'
  <2> DEFINE t == [token[b] EXCEPT !.stage = "settled"]
  <2>1. token' = [token EXCEPT ![b] = t]
    BY <1>5 DEF Flag
  <2>2. t.at = token[b].at
    BY DEF TypeOK, Token
  <2>3. token[b].at <= now
    BY DEF TokenInv
  <2> HIDE DEF t
  <2>4. t.at <= now'
    BY <1>1, <1>2, <1>n, <2>2, <2>3
  <2> QED
    BY <1>3, <2>1, <2>4
<1>6. ASSUME NEW b \in Adjudicator, Forget(b) \/ DropToken(b)
      PROVE  token'[a].at <= now'
  <2>1. token' = [token EXCEPT ![b] = NoToken]
    BY <1>6 DEF Forget, DropToken
  <2>2. NoToken.at <= now'
    BY <1>n DEF NoToken
  <2> QED
    BY <1>3, <2>1, <2>2
<1>7. CASE token' = token
  <2>1. token[a].at <= now
    BY DEF TokenInv
  <2> QED
    BY <1>1, <1>2, <1>n, <1>7, <2>1
<1>8. \/ \E b \in Adjudicator : ClaimExpired(b) \/ Flag(b) \/ Forget(b) \/ DropToken(b)
      \/ token' = token
  BY DEF Next, Request, Task, vars, CreatePending, CreateActive, Receive, Refuse,
         Accept, Decline, OpenTheClock, Move, Command, Commit, Rollback, Write, Abort,
         Reread, Reschedule, ClaimOverdue, Expire, ExpireNot, LoseDeadlines, Tick, taskVars
<1> QED
  BY <1>4, <1>5, <1>6, <1>7, <1>8

LEMMA StepFlag ==
  ASSUME TypeOK, RecordInv, TokenInv, FlagFollowsTheRow, [Next]_vars
  PROVE  FlagFollowsTheRow'
<1>n. now \in Nat /\ now' \in Nat /\ now <= now'
  <2>1. now \in Nat /\ now' \in Nat
    BY StepType DEF TypeOK
  <2>2. CASE Tick
    BY <2>1, <2>2 DEF Tick
  <2>3. CASE UNCHANGED now
    BY <2>1, <2>3
  <2> QED
    BY <2>1, <2>2, <2>3 DEF Next, Request, Task, vars, CreatePending, CreateActive, Receive,
         Refuse, Accept, Decline, OpenTheClock, Move, Command, Commit, Rollback, Write, Abort,
         ClaimExpired, Flag, Forget, DropToken, Reread, Reschedule, ClaimOverdue, Expire,
         ExpireNot, LoseDeadlines
<1>r. row \in Row /\ row' \in Row /\ RecordInv'
  BY StepType, StepRecord DEF TypeOK
\* Only a flag writes that reason.
<1>o. ASSUME row'.reason # "flag"
      PROVE  FlagFollowsTheRow'
  BY <1>o DEF FlagFollowsTheRow
<1>u. ASSUME row'.status # "completed"
      PROVE  FlagFollowsTheRow'
  <2>1. row'.reason = "none"
    BY <1>r, <1>u DEF RecordInv, Sane
  <2> QED
    BY <1>o, <2>1
<1>k. ASSUME row' = row
      PROVE  FlagFollowsTheRow'
  <2>1. FlagsAt(row) \in Nat
    BY <1>r, FlagsAtType
  <2> QED
    BY <1>k, <1>n, <2>1 DEF FlagFollowsTheRow, FlagsAt, Running
<1>1. ASSUME NEW timed \in Timings, CreatePending(timed) \/ CreateActive(timed)
      PROVE  FlagFollowsTheRow'
  <2> DEFINE next == CreateMatch(timed, now)
  <2>1. next \in Row /\ next.reason = "none"
    BY <1>n, CreatedFields, MatchAssumption DEF MatchAssumption
  <2> HIDE DEF next
  <2>2. row'.reason = "none"
    BY <1>1, <2>1 DEF CreatePending, CreateActive, Row, next
  <2> QED
    BY <1>o, <2>2
<1>2. ASSUME NEW h \in Handler, Accept(h)
      PROVE  FlagFollowsTheRow'
  <2>1. call[h].side \in Side /\ call[h].at \in Nat /\ row.status = "pending_acceptance"
    BY <1>2 DEF TypeOK, Call, Accept, IsOpen
  <2> DEFINE next == AcceptedBy(row, call[h].side, call[h].at)
  <2>2. next.status \in {"pending_acceptance", "active"}
    BY <1>r, <2>1, AcceptedFields
  <2>3. row' = next
    BY <1>2 DEF Accept
  <2> HIDE DEF next
  <2> QED
    BY <1>u, <2>2, <2>3
<1>3. ASSUME NEW h \in Handler, Decline(h)
      PROVE  FlagFollowsTheRow'
  <2>1. row'.status = "cancelled"
    BY <1>3, <1>r DEF Decline, Row
  <2> QED
    BY <1>u, <2>1
<1>4. ASSUME NEW w \in Sweeper, Expire(w)
      PROVE  FlagFollowsTheRow'
  <2>1. row'.status = "expired"
    BY <1>4 DEF Expire, TypeOK, Row
  <2> QED
    BY <1>u, <2>1
<1>5. ASSUME NEW h \in Handler, Commit(h)
      PROVE  FlagFollowsTheRow'
  <2>1. row' = draft /\ draft.reason # "flag"
    BY <1>5, MatchAssumption DEF MatchAssumption, Commit, RecordInv, DraftOfLive
  <2> QED
    BY <1>o, <2>1
<1>6. ASSUME NEW a \in Adjudicator, Flag(a)
      PROVE  FlagFollowsTheRow'
  <2>1. /\ IsCurrent(token[a]) /\ row'.winner = Opponent(token[a].side)
        /\ row'.timed = row.timed /\ row'.ply = row.ply
        /\ row'.left = row.left /\ row'.started = row.started
    BY <1>6, FlagWrites
  <2>2. row.timed /\ Running(row) = token[a].side /\ token[a].at > FlagsAt(row)
    BY <2>1 DEF IsCurrent, HasFlagged
  <2>3. token[a].at <= now /\ token[a].at \in Nat /\ FlagsAt(row) \in Nat
    BY <1>r, FlagsAtType DEF TokenInv, TypeOK, Token
  <2>4. now' > FlagsAt(row)
    BY <1>n, <2>2, <2>3
  <2>5. Running(row') = Running(row)
    BY <2>1 DEF Running
  <2>6. FlagsAt(row') = FlagsAt(row)
    BY <2>1, <2>5 DEF FlagsAt
  <2> QED
    BY <2>1, <2>2, <2>4, <2>5, <2>6 DEF FlagFollowsTheRow, Running, FlagsAt
<1>7. CASE Abort
  BY <1>7, <1>o, AbortWrites
<1>8. ASSUME NEW h \in Handler, Move(h) \/ Command(h) \/ Rollback(h)
      PROVE  FlagFollowsTheRow'
  BY <1>8, <1>k DEF Move, Command, Rollback, Write
<1>9. CASE UNCHANGED recordVars
  BY <1>9, <1>k DEF recordVars
<1> QED
  BY <1>1, <1>2, <1>3, <1>4, <1>5, <1>6, <1>7, <1>8, <1>9, RowWriters

\* A flag falls only on the side to move and after its time ran out by the row,
\* whatever was written to Redis, lost there or claimed from it.
THEOREM FlagsFollowTheRow == Spec => []FlagFollowsTheRow
<1>1. TypeOK /\ RecordInv /\ TokenInv /\ FlagFollowsTheRow /\ [Next]_vars
        => TypeOK' /\ RecordInv' /\ TokenInv' /\ FlagFollowsTheRow'
  BY StepType, StepRecord, StepToken, StepFlag
<1>2. Init => TokenInv
  BY DEF Init, TokenInv, NoToken
<1>3. Init => FlagFollowsTheRow
  BY DEF Init, FlagFollowsTheRow, NoMatch
<1> QED
  BY <1>1, <1>2, <1>3, InitType, InitRecord, PTL DEF Spec

-----------------------------------------------------------------------------
(* The clocks *)

\* NoTimeIsCreated of any record: it holds of the row because it holds of
\* what an open transaction is about to commit.
TimeInv(r) ==
  r.timed /\ r.status \in {"active", "completed"} =>
    r.left["light"] + r.left["dark"] + (r.started - r.settled)
      <= 2 * Initial + Increment * r.ply

\* A game starts with both budgets and nothing spent.
LEMMA StartTime ==
  ASSUME NEW r, NEW at \in Nat,
         r.timed => /\ r.settled = at /\ r.started = at /\ r.ply = 0
                    /\ r.left = [s \in Side |-> Initial]
  PROVE  TimeInv(r)
<1> SUFFICES ASSUME r.timed PROVE TimeInv(r)
  BY DEF TimeInv
<1>1. r.left["light"] = Initial /\ r.left["dark"] = Initial
  BY DEF Side
<1>2. Initial \in Nat /\ Increment \in Nat
  BY MatchAssumption DEF MatchAssumption
<1>3. Increment * r.ply = 0
  BY <1>2
<1> QED
  BY <1>1, <1>2, <1>3 DEF TimeInv

\* What the mover spent left the clock, and only the increment came back,
\* unless the clock had already run out.
LEMMA ChargedTime ==
  ASSUME NEW r \in Row, NEW at \in Nat, r.timed, ~HasFlagged(r, at)
  PROVE  LET c == Charged(r, at) IN
         c.left["light"] + c.left["dark"] + c.started
           <= r.left["light"] + r.left["dark"] + r.started + Increment
<1> DEFINE kept == r.left[Running(r)] - ElapsedMs(r, at)
           gained == IF kept > 0 THEN kept ELSE 0
           left == [s \in Side |-> IF s # Running(r) THEN r.left[s] ELSE Increment + gained]
<1>1. Running(r) \in {"light", "dark"}
  BY Sides DEF Running, Row, Side
<1>2. /\ r.left["light"] \in Nat /\ r.left["dark"] \in Nat /\ r.started \in Nat
      /\ Increment \in Nat
  BY MatchAssumption DEF MatchAssumption, Row, Side
<1>3. at <= r.started + r.left[Running(r)]
  BY <1>1, <1>2 DEF HasFlagged, FlagsAt
<1>4. gained + at <= r.left[Running(r)] + r.started /\ gained \in Nat
  <2>1. ElapsedMs(r, at) = IF at > r.started THEN at - r.started ELSE 0
    BY DEF ElapsedMs
  <2>2. r.left[Running(r)] \in Nat
    BY <1>1, <1>2
  <2> QED
    BY <1>2, <1>3, <2>1, <2>2
<1>5. Charged(r, at) = [r EXCEPT !.left = left, !.started = at]
  BY DEF Charged
<1> HIDE DEF gained
<1>6. left["light"] + left["dark"] + at
        <= r.left["light"] + r.left["dark"] + r.started + Increment
  <2>1. CASE Running(r) = "light"
    <3>1. left["light"] = Increment + gained /\ left["dark"] = r.left["dark"]
      BY <2>1 DEF Side
    <3> QED
      BY <1>2, <1>4, <2>1, <3>1
  <2>2. CASE Running(r) = "dark"
    <3>1. left["dark"] = Increment + gained /\ left["light"] = r.left["light"]
      BY <2>2 DEF Side
    <3> QED
      BY <1>2, <1>4, <2>2, <3>1
  <2> QED
    BY <1>1, <2>1, <2>2
<1> HIDE DEF left
<1>7. Charged(r, at).left = left /\ Charged(r, at).started = at
  BY <1>5 DEF Row
<1> QED
  BY <1>6, <1>7

LEMMA PlayedTime ==
  ASSUME NEW r \in Row, NEW s \in Side, NEW at \in Nat, NEW next \in Played(r, s, at),
         r.status = "active", ~HasFlagged(r, at), TimeInv(r)
  PROVE  TimeInv(next)
<1>0. /\ next \in Row /\ next.timed = r.timed /\ next.settled = r.settled
      /\ next.ply = r.ply + 1
      /\ next.left = Charged(r, at).left /\ next.started = Charged(r, at).started
  BY PlayedFields
<1> SUFFICES ASSUME next.timed PROVE TimeInv(next)
  BY DEF TimeInv
<1> DEFINE c == Charged(r, at)
<1>1. /\ next \in Row /\ next.timed = r.timed /\ next.settled = r.settled
      /\ next.ply = r.ply + 1 /\ next.left = c.left /\ next.started = c.started
  BY <1>0
<1>2. c.left["light"] + c.left["dark"] + c.started
        <= r.left["light"] + r.left["dark"] + r.started + Increment
  BY <1>1, ChargedTime
<1> HIDE DEF c
<1>3. r.left["light"] + r.left["dark"] + (r.started - r.settled)
        <= 2 * Initial + Increment * r.ply
  BY <1>1 DEF TimeInv
<1>4. Initial \in Nat /\ Increment \in Nat /\ r.ply \in Nat
  BY MatchAssumption DEF MatchAssumption, Row
<1>5. Increment * (r.ply + 1) = Increment * r.ply + Increment
  BY <1>4
<1>6. Increment * r.ply \in Nat
  BY <1>4
<1>7. /\ r.left["light"] \in Nat /\ r.left["dark"] \in Nat
      /\ r.started \in Nat /\ r.settled \in Nat
      /\ next.left["light"] \in Nat /\ next.left["dark"] \in Nat /\ next.started \in Nat
  BY <1>1 DEF Row, Side
<1> DEFINE base == Increment * r.ply
<1>8. base \in Nat /\ Increment * next.ply = base + Increment
  BY <1>1, <1>5, <1>6
<1>9. r.left["light"] + r.left["dark"] + (r.started - r.settled) <= 2 * Initial + base
  BY <1>3
<1> HIDE DEF base
<1>10. next.left["light"] + next.left["dark"] + (next.started - next.settled)
         <= 2 * Initial + (base + Increment)
  BY <1>1, <1>2, <1>4, <1>7, <1>8, <1>9
<1> QED
  BY <1>8, <1>10 DEF TimeInv

\* A record with the same clock, plies and start that is no more than live.
LEMMA SameTime ==
  ASSUME NEW r, NEW next, TimeInv(r), r.status \in {"active", "completed"},
         next.timed = r.timed, next.settled = r.settled, next.ply = r.ply,
         next.left = r.left, next.started = r.started
  PROVE  TimeInv(next)
  BY DEF TimeInv

ClockInv == TimeInv(row) /\ TimeInv(draft)

LEMMA StepClock ==
  ASSUME TypeOK, RecordInv, ClockInv, [Next]_vars
  PROVE  ClockInv'
<1>r. row \in Row /\ draft \in Row /\ now \in Nat /\ RecordInv'
  BY StepRecord DEF TypeOK
<1>c. \A h \in Handler : call[h].side \in Side /\ call[h].at \in Nat
  BY DEF TypeOK, Call
<1>t. ASSUME TimeInv(row'), draft' = row' \/ draft' = draft
      PROVE  ClockInv'
  BY <1>t DEF ClockInv, TimeInv
<1>v. ASSUME row'.status \notin {"active", "completed"}
      PROVE  TimeInv(row')
  BY <1>v DEF TimeInv
<1>1. ASSUME NEW timed \in Timings, CreatePending(timed)
      PROVE  ClockInv'
  <2> DEFINE next == CreateMatch(timed, now)
  <2>1. next \in Row
    BY <1>r, CreatedFields, MatchAssumption DEF MatchAssumption
  <2> HIDE DEF next
  <2>2. row'.status = "pending_acceptance" /\ draft' = row'
    BY <1>1, <2>1 DEF CreatePending, Row, next
  <2> QED
    BY <1>t, <1>v, <2>2
<1>2. ASSUME NEW timed \in Timings, CreateActive(timed)
      PROVE  ClockInv'
  <2>0. timed \in BOOLEAN
    BY MatchAssumption DEF MatchAssumption
  <2> DEFINE next == CreateMatch(timed, now)
  <2>1. /\ next \in Row /\ next.timed = timed /\ next.settled = now /\ next.ply = 0
        /\ timed => next.left = [s \in Side |-> Initial] /\ next.started = now
    BY <1>r, <2>0, CreatedFields
  <2> HIDE DEF next
  <2>2. row' = [next EXCEPT !.accepted = Side] /\ draft' = row'
    BY <1>2 DEF CreateActive, next
  <2>3. /\ row'.timed = timed /\ row'.settled = now /\ row'.ply = 0
        /\ row'.left = next.left /\ row'.started = next.started
    BY <2>1, <2>2 DEF Row
  <2>4. TimeInv(row')
    BY <1>r, <2>1, <2>3, StartTime
  <2> QED
    BY <1>t, <2>2, <2>4
<1>3. ASSUME NEW h \in Handler, Accept(h)
      PROVE  ClockInv'
  <2> DEFINE at == call[h].at
             next == AcceptedBy(row, call[h].side, at)
  <2>1. row.status = "pending_acceptance" /\ row.ply = 0
    BY <1>3 DEF Accept, IsOpen, RecordInv, Sane
  <2>2. /\ next.status \in {"pending_acceptance", "active"}
        /\ next.timed = row.timed /\ next.ply = row.ply
        /\ next.status = "active" =>
             /\ next.settled = at
             /\ next.left = [s \in Side |-> IF row.timed THEN Initial ELSE 0]
             /\ next.started = IF row.timed THEN at ELSE 0
    BY ZenonT(60), <1>r, <1>c, <2>1, AcceptedFields
  <2>3. row' = next /\ draft' = next
    BY <1>3 DEF Accept
  <2> HIDE DEF next
  <2>4. CASE next.status = "pending_acceptance"
    BY <1>t, <1>v, <2>3, <2>4
  <2>5. CASE next.status = "active"
    <3>1. next.timed => /\ next.settled = at /\ next.started = at /\ next.ply = 0
                        /\ next.left = [s \in Side |-> Initial]
      BY <2>1, <2>2, <2>5
    <3>2. TimeInv(next)
      BY <1>c, <3>1, StartTime
    <3> QED
      BY <1>t, <2>3, <3>2
  <2> QED
    BY <2>2, <2>4, <2>5
<1>4. ASSUME NEW h \in Handler, Decline(h)
      PROVE  ClockInv'
  <2>1. row'.status = "cancelled" /\ draft' = row'
    BY <1>4, <1>r DEF Decline, Row
  <2> QED
    BY <1>t, <1>v, <2>1
<1>5. ASSUME NEW w \in Sweeper, Expire(w)
      PROVE  ClockInv'
  <2>1. row'.status = "expired" /\ draft' = row'
    BY <1>5 DEF Expire, TypeOK, Row
  <2> QED
    BY <1>t, <1>v, <2>1
<1>6. ASSUME NEW h \in Handler, Move(h)
      PROVE  ClockInv'
  <2>1. PICK next \in Played(row, call[h].side, call[h].at) : Write(h, next)
    BY <1>6 DEF Move
  <2>2. row.status = "active" /\ ~HasFlagged(row, call[h].at) /\ TimeInv(row)
    BY <1>6 DEF Move, ClockInv
  <2>3. TimeInv(next)
    BY <1>r, <1>c, <2>2, PlayedTime
  <2> QED
    BY <2>1, <2>2, <2>3 DEF Write, ClockInv, TimeInv
<1>7. ASSUME NEW h \in Handler, Command(h)
      PROVE  ClockInv'
  <2> DEFINE next == Applied(row, call[h].request, call[h].side)
  <2>1. Write(h, next) /\ row.status = "active" /\ call[h].request \in Commands
    BY <1>7 DEF Command
  <2>2. /\ next.timed = row.timed /\ next.settled = row.settled /\ next.ply = row.ply
        /\ next.left = row.left /\ next.started = row.started
    BY <1>r, <1>c, <2>1, AppliedFields
  <2> HIDE DEF next
  <2>3. TimeInv(next)
    BY <2>1, <2>2, SameTime DEF ClockInv
  <2> QED
    BY <2>1, <2>3 DEF Write, ClockInv, TimeInv
<1>8. ASSUME NEW h \in Handler, Commit(h) \/ Rollback(h)
      PROVE  ClockInv'
  BY <1>8 DEF Commit, Rollback, ClockInv, TimeInv
<1>9. ASSUME NEW a \in Adjudicator, Flag(a)
      PROVE  ClockInv'
  <2>1. draft' = row'
    BY <1>9 DEF Flag
  <2>2. TimeInv(row')
    BY <1>9, FlagWrites, SameTime DEF ClockInv
  <2> QED
    BY <1>t, <2>1, <2>2
<1>10. CASE Abort
  <2>1. draft' = row'
    BY <1>10 DEF Abort
  <2>2. TimeInv(row')
    BY <1>10, AbortWrites, SameTime DEF ClockInv
  <2> QED
    BY <1>t, <2>1, <2>2
<1>11. CASE UNCHANGED recordVars
  BY <1>11 DEF recordVars, ClockInv, TimeInv
<1> QED
  BY <1>1, <1>2, <1>3, <1>4, <1>5, <1>6, <1>7, <1>8, <1>9, <1>10, <1>11, RowWriters

\* However requests are stamped, delayed and committed, the players never have
\* more time than their budgets and the increments they earned.
THEOREM TimeIsConserved == Spec => []NoTimeIsCreated
<1>1. TypeOK /\ RecordInv /\ ClockInv /\ [Next]_vars => TypeOK' /\ RecordInv' /\ ClockInv'
  BY StepType, StepRecord, StepClock
<1>2. Init => ClockInv
  BY DEF Init, ClockInv, TimeInv, NoMatch
<1>3. ClockInv => NoTimeIsCreated
  BY DEF ClockInv, TimeInv, NoTimeIsCreated
<1> QED
  BY <1>1, <1>2, <1>3, InitType, InitRecord, PTL DEF Spec

-----------------------------------------------------------------------------
(* Draw offers *)

\* OfferIsFresh of any record.
OfferInv(r) ==
  r.offer.by # Nobody => \A p \in r.offer.ply .. r.ply - 1 : ActiveSide(p) = r.offer.by

LEMMA NoOfferInv ==
  ASSUME NEW r, r.offer.by = Nobody
  PROVE  OfferInv(r)
  BY DEF OfferInv

LEMMA PlayedOffer ==
  ASSUME NEW r \in Row, NEW s \in Side, NEW at \in Nat, NEW next \in Played(r, s, at),
         s = Running(r), OfferInv(r)
  PROVE  OfferInv(next)
<1>1. CASE next = Moved(r, s, at)
  <2>1. next.ply = r.ply + 1 /\ next.offer = AfterMoveBy(r, s).offer
    BY <1>1, MovedFields
  <2>2. CASE r.offer.by = Opponent(s)
    <3>1. r.ply + 1 \in Nat
      BY DEF Row
    <3>2. AfterMoveBy(r, s) = Resolved(r, r.ply + 1)
      BY <2>2 DEF AfterMoveBy
    <3>3. AfterMoveBy(r, s).offer = NoOffer
      BY <3>2 DEF Resolved, Row
    <3> QED
      BY <2>1, <3>3 DEF OfferInv, NoOffer
  <2>3. CASE r.offer.by # Opponent(s)
    <3>1. next.offer = r.offer
      BY <2>1, <2>3 DEF AfterMoveBy
    <3>2. r.offer.by # Nobody => r.offer.by = s
      BY <2>3, Sides DEF Row, Offer, Side, Opponent
    <3>3. ActiveSide(r.ply) = s /\ r.ply \in Nat /\ r.offer.ply \in Nat
      BY DEF Running, Row, Offer
    <3>4. \A p \in r.offer.ply .. r.ply : p \in r.offer.ply .. r.ply - 1 \/ p = r.ply
      BY <3>3
    <3>5. next.ply - 1 = r.ply
      BY <2>1, <3>3
    <3>6. r.offer.by # Nobody =>
            \A p \in r.offer.ply .. r.ply : ActiveSide(p) = r.offer.by
      BY <3>2, <3>3, <3>4 DEF OfferInv
    <3> QED
      BY <3>1, <3>5, <3>6 DEF OfferInv
  <2> QED
    BY <2>2, <2>3
<1>2. CASE next.offer = NoOffer
  BY <1>2 DEF OfferInv, NoOffer
<1> QED
  BY <1>1, <1>2, PlayedFields

LEMMA AppliedOffer ==
  ASSUME NEW r \in Row, NEW s \in Side, NEW c \in Commands
  PROVE  OfferInv(Applied(r, c, s))
<1> DEFINE next == Applied(r, c, s)
<1>1. next.ply = r.ply /\ next.offer \in {NoOffer, [by |-> s, ply |-> r.ply]}
  BY AppliedFields
<1> HIDE DEF next
<1>2. ASSUME next.offer = NoOffer
      PROVE  OfferInv(next)
  BY <1>2 DEF OfferInv, NoOffer
<1>3. ASSUME next.offer = [by |-> s, ply |-> r.ply]
      PROVE  OfferInv(next)
  <2>1. r.ply \in Nat
    BY DEF Row
  <2>2. next.offer.ply .. next.ply - 1 = {}
    BY <1>1, <1>3, <2>1
  <2> QED
    BY <2>2 DEF OfferInv
<1>4. OfferInv(next)
  BY <1>1, <1>2, <1>3
<1> QED
  BY <1>4 DEF next

OffersInv == OfferInv(row) /\ OfferInv(draft)

LEMMA StepOffers ==
  ASSUME TypeOK, RecordInv, OffersInv, [Next]_vars
  PROVE  OffersInv'
<1>r. row \in Row /\ now \in Nat /\ Sane(row) /\ Sane(row')
  BY StepRecord DEF TypeOK, RecordInv
<1>c. \A h \in Handler : call[h].side \in Side /\ call[h].at \in Nat
  BY DEF TypeOK, Call
<1>n. ASSUME row'.offer.by = Nobody, draft' = row'
      PROVE  OffersInv'
  BY <1>n DEF OffersInv, OfferInv
<1>1. ASSUME NEW timed \in Timings, CreatePending(timed) \/ CreateActive(timed)
      PROVE  OffersInv'
  <2> DEFINE next == CreateMatch(timed, now)
  <2>1. next \in Row /\ next.offer = NoOffer
    BY <1>r, CreatedFields, MatchAssumption DEF MatchAssumption
  <2> HIDE DEF next
  <2>2. row'.offer = NoOffer /\ draft' = row'
    BY <1>1, <2>1 DEF CreatePending, CreateActive, Row, next
  <2> QED
    BY <1>n, <2>2 DEF NoOffer
<1>2. ASSUME NEW h \in Handler, Accept(h)
      PROVE  OffersInv'
  <2>1. row.status = "pending_acceptance"
    BY <1>2 DEF Accept, IsOpen
  <2> DEFINE next == AcceptedBy(row, call[h].side, call[h].at)
  <2>2. next.offer = row.offer
    BY <1>r, <1>c, <2>1, AcceptedFields
  <2>3. row.offer.by = Nobody
    BY <1>r, <2>1 DEF Sane
  <2>4. row' = next /\ draft' = row'
    BY <1>2 DEF Accept
  <2> HIDE DEF next
  <2> QED
    BY <1>n, <2>2, <2>3, <2>4
<1>3. ASSUME row'.status # "active", draft' = row'
      PROVE  OffersInv'
  BY <1>3, <1>n, <1>r DEF Sane
<1>4. ASSUME NEW h \in Handler, Decline(h)
      PROVE  OffersInv'
  <2>1. row'.status = "cancelled" /\ draft' = row'
    BY <1>4, <1>r DEF Decline, Row
  <2> QED
    BY <1>3, <2>1
<1>5. ASSUME NEW w \in Sweeper, Expire(w)
      PROVE  OffersInv'
  <2>1. row'.status = "expired" /\ draft' = row'
    BY <1>5 DEF Expire, TypeOK, Row
  <2> QED
    BY <1>3, <2>1
<1>6. ASSUME NEW h \in Handler, Move(h)
      PROVE  OffersInv'
  <2>1. PICK next \in Played(row, call[h].side, call[h].at) : Write(h, next)
    BY <1>6 DEF Move
  <2>2. call[h].side = Running(row) /\ OfferInv(row)
    BY <1>6 DEF Move, OffersInv
  <2>3. OfferInv(next)
    BY <1>r, <1>c, <2>2, PlayedOffer
  <2> QED
    BY <2>1, <2>2, <2>3 DEF Write, OffersInv, OfferInv
<1>7. ASSUME NEW h \in Handler, Command(h)
      PROVE  OffersInv'
  <2> DEFINE next == Applied(row, call[h].request, call[h].side)
  <2>1. Write(h, next) /\ call[h].request \in Commands
    BY <1>7 DEF Command
  <2>2. OfferInv(next)
    BY <1>r, <1>c, <2>1, AppliedOffer
  <2> HIDE DEF next
  <2> QED
    BY <2>1, <2>2 DEF Write, OffersInv, OfferInv
<1>8. ASSUME NEW h \in Handler, Commit(h) \/ Rollback(h)
      PROVE  OffersInv'
  BY <1>8 DEF Commit, Rollback, OffersInv, OfferInv
<1>9. ASSUME NEW a \in Adjudicator, Flag(a)
      PROVE  OffersInv'
  BY <1>9, <1>3, FlagWrites DEF Flag
<1>10. CASE Abort
  BY <1>10, <1>3, AbortWrites DEF Abort
<1>11. CASE UNCHANGED recordVars
  BY <1>11 DEF recordVars, OffersInv, OfferInv
<1> QED
  BY <1>1, <1>2, <1>4, <1>5, <1>6, <1>7, <1>8, <1>9, <1>10, <1>11, RowWriters

\* A standing offer was never played past, whatever transactions were lost.
THEOREM OffersAreFresh == Spec => []OfferIsFresh
<1>1. TypeOK /\ RecordInv /\ OffersInv /\ [Next]_vars => TypeOK' /\ RecordInv' /\ OffersInv'
  BY StepType, StepRecord, StepOffers
<1>2. Init => OffersInv
  BY DEF Init, OffersInv, OfferInv, NoMatch, NoOffer
<1>3. RecordInv /\ OffersInv => OfferIsFresh
  BY DEF RecordInv, Sane, OffersInv, OfferInv, OfferIsFresh
<1> QED
  BY <1>1, <1>2, <1>3, InitType, InitRecord, PTL DEF Spec

\* `from` remembers every refusal until the opponent's next ply.
RefusalKept ==
  \A s \in Side :
    /\ answeredAt[s] = -1 \/ answeredAt[s] \in Nat
    /\ row.status \in {"absent", "pending_acceptance"} => answeredAt[s] = -1
    /\ row.status = "active" /\ answeredAt[s] # -1 =>
         row.from[s] = NextPlyOf(Opponent(s), answeredAt[s])

\* What a move or a command makes of the refusals and offers of r.
Heeds(r, next) ==
  /\ next.status = "active" =>
       \A s \in Side :
         next.from[s] = IF s = r.offer.by /\ next.offer.by = Nobody
                        THEN NextPlyOf(Opponent(s), next.ply) ELSE r.from[s]
  /\ next.offer.by \notin {r.offer.by, Nobody} => r.ply >= r.from[next.offer.by]

RefusalInv ==
  /\ RefusalKept
  /\ holder # NoHandler => Heeds(row, draft)

LEMMA PlayedHeeds ==
  ASSUME NEW r \in Row, NEW s \in Side, NEW at \in Nat, NEW next \in Played(r, s, at)
  PROVE  Heeds(r, next)
<1>1. CASE next = Moved(r, s, at)
  <2>1. /\ next.ply = r.ply + 1 /\ next.offer = AfterMoveBy(r, s).offer
        /\ next.from = AfterMoveBy(r, s).from
    BY <1>1, MovedFields
  <2>2. CASE r.offer.by = Opponent(s)
    <3>1. AfterMoveBy(r, s) = Resolved(r, next.ply)
      BY <2>1, <2>2 DEF AfterMoveBy
    <3>2. next.offer = NoOffer
      BY <2>1, <3>1 DEF Resolved, Row
    <3>3. next.from = [t \in Side |-> IF t = r.offer.by THEN NextPlyOf(Opponent(t), next.ply)
                                      ELSE r.from[t]]
      BY <2>1, <3>1 DEF Resolved, Row
    <3> QED
      BY <3>2, <3>3 DEF Heeds, NoOffer
  <2>3. CASE r.offer.by # Opponent(s)
    <3>1. next.offer = r.offer /\ next.from = r.from
      BY <2>1, <2>3 DEF AfterMoveBy
    <3> QED
      BY <3>1, Sides DEF Heeds
  <2> QED
    BY <2>2, <2>3
<1>2. CASE next.status = "completed" /\ next.offer = NoOffer
  BY <1>2 DEF Heeds, NoOffer
<1> QED
  BY <1>1, <1>2, PlayedFields

LEMMA AppliedHeeds ==
  ASSUME NEW r \in Row, NEW s \in Side, NEW c \in Commands, Permitted(r, c, s)
  PROVE  Heeds(r, Applied(r, c, s))
<1> DEFINE next == Applied(r, c, s)
<1>1. ASSUME next.status = "completed", next.offer = NoOffer
      PROVE  Heeds(r, next)
  BY <1>1 DEF Heeds, NoOffer
<1>2. CASE c \in {"resign", "accept_draw"}
  <2>1. /\ "resignation" \in Reason /\ "agreement" \in Reason
        /\ Opponent(s) \in Side \cup {Nobody} /\ Nobody \in Side \cup {Nobody}
    BY Sides DEF Reason
  <2>2. next = Completed(r, "resignation", Opponent(s)) \/ next = Completed(r, "agreement", Nobody)
    BY <1>2, AppliedCases
  <2>3. next.status = "completed" /\ next.offer = NoOffer
    BY <2>1, <2>2, CompletedFields
  <2> QED
    BY <1>1, <2>3
<1>3. CASE c = "offer_draw"
  <2>1. next = [r EXCEPT !.offer = [by |-> s, ply |-> r.ply]]
    BY <1>3, AppliedCases
  <2>2. r.offer.by = Nobody /\ r.ply >= r.from[s]
    BY <1>3 DEF Permitted, MayOffer
  <2> HIDE DEF next
  <2>3. next.offer.by = s /\ next.from = r.from
    BY <2>1 DEF Row
  <2>4. Heeds(r, next)
    BY <2>2, <2>3, Sides DEF Heeds
  <2> QED
    BY <2>4 DEF next
<1>4. CASE c = "decline_draw"
  <2>1. next = Resolved(r, r.ply)
    BY <1>4, AppliedCases
  <2> HIDE DEF next
  <2>2. /\ next.offer = NoOffer /\ next.ply = r.ply
        /\ next.from = [t \in Side |-> IF t = r.offer.by THEN NextPlyOf(Opponent(t), r.ply)
                                       ELSE r.from[t]]
    BY <2>1 DEF Resolved, Row
  <2>3. Heeds(r, next)
    BY <2>2 DEF Heeds, NoOffer
  <2> QED
    BY <2>3 DEF next
<1> QED
  BY <1>2, <1>3, <1>4 DEF Commands

LEMMA StepRefusals ==
  ASSUME TypeOK, RecordInv, RefusalInv, [Next]_vars
  PROVE  RefusalInv'
<1>r. row \in Row /\ draft \in Row /\ row' \in Row /\ now \in Nat /\ RecordInv'
  BY StepType, StepRecord DEF TypeOK
<1>c. \A h \in Handler : call[h].side \in Side /\ call[h].at \in Nat /\ h # NoHandler
  BY MatchAssumption DEF MatchAssumption, TypeOK, Call
\* Nothing has been refused in a match that was not live, and refusals do not
\* matter in one that is over.
<1>o. ASSUME row.status \in {"absent", "pending_acceptance"}, answeredAt' = answeredAt,
             holder' = NoHandler
      PROVE  RefusalInv'
  <2>1. \A s \in Side : answeredAt'[s] = -1
    BY <1>o DEF RefusalInv, RefusalKept
  <2> QED
    BY <1>o, <2>1 DEF RefusalInv, RefusalKept
<1>e. ASSUME row'.status = "completed", answeredAt' = answeredAt, holder' = NoHandler
      PROVE  RefusalInv'
  BY <1>e DEF RefusalInv, RefusalKept
<1>1. ASSUME NEW timed \in Timings, CreatePending(timed) \/ CreateActive(timed)
      PROVE  RefusalInv'
  <2>1. row.status = "absent" /\ answeredAt' = answeredAt /\ holder' = holder
    BY <1>1 DEF CreatePending, CreateActive
  <2> QED
    BY <1>o, <2>1 DEF RecordInv, DraftOfLive
<1>2. ASSUME NEW h \in Handler, Accept(h) \/ Decline(h)
      PROVE  RefusalInv'
  BY <1>2, <1>o DEF Accept, Decline, IsOpen, Unlocked
<1>3. ASSUME NEW w \in Sweeper, Expire(w)
      PROVE  RefusalInv'
  BY <1>3, <1>o DEF Expire, Unlocked
<1>4. ASSUME NEW a \in Adjudicator, Flag(a)
      PROVE  RefusalInv'
  BY <1>4, <1>e, FlagWrites DEF Flag, Unlocked
<1>5. CASE Abort
  BY <1>5, <1>e, AbortWrites DEF Abort, Unlocked
<1>w. ASSUME NEW h \in Handler, NEW next, Write(h, next), Heeds(row, next)
      PROVE  RefusalInv'
  <2>1. /\ row' = row /\ draft' = next /\ holder' = h /\ answeredAt' = answeredAt
    BY <1>w DEF Write
  <2> QED
    BY <1>w, <2>1 DEF RefusalInv, RefusalKept, Heeds
<1>6. ASSUME NEW h \in Handler, Move(h)
      PROVE  RefusalInv'
  <2>1. PICK next \in Played(row, call[h].side, call[h].at) : Write(h, next)
    BY <1>6 DEF Move
  <2>2. Heeds(row, next)
    BY <1>r, <1>c, PlayedHeeds
  <2> QED
    BY <1>w, <2>1, <2>2
<1>7. ASSUME NEW h \in Handler, Command(h)
      PROVE  RefusalInv'
  <2> DEFINE next == Applied(row, call[h].request, call[h].side)
  <2>1. /\ Write(h, next) /\ call[h].request \in Commands
        /\ Permitted(row, call[h].request, call[h].side)
    BY <1>7 DEF Command
  <2>2. Heeds(row, next)
    BY <1>r, <1>c, <2>1, AppliedHeeds
  <2> HIDE DEF next
  <2> QED
    BY <1>w, <2>1, <2>2
<1>8. ASSUME NEW h \in Handler, Commit(h)
      PROVE  RefusalInv'
  <2>1. /\ row' = draft /\ holder' = NoHandler /\ row.status = "active" /\ Heeds(row, draft)
        /\ draft.status \in {"active", "completed"}
    BY <1>8, <1>c DEF Commit, RecordInv, DraftOfLive, RefusalInv
  <2>2. \A s \in Side : answeredAt'[s] =
          IF s = row.offer.by /\ draft.offer.by = Nobody THEN draft.ply ELSE answeredAt[s]
    BY <1>8 DEF Commit, TurnedDown
  <2>3. draft.ply \in Nat
    BY <1>r DEF Row
  <2>4. ASSUME NEW s \in Side
        PROVE  /\ answeredAt'[s] = -1 \/ answeredAt'[s] \in Nat
               /\ row'.status = "active" /\ answeredAt'[s] # -1 =>
                    row'.from[s] = NextPlyOf(Opponent(s), answeredAt'[s])
    <3>1. CASE s = row.offer.by /\ draft.offer.by = Nobody
      BY <2>1, <2>2, <2>3, <3>1 DEF Heeds
    <3>2. CASE ~(s = row.offer.by /\ draft.offer.by = Nobody)
      BY <2>1, <2>2, <3>2 DEF Heeds, RefusalInv, RefusalKept
    <3> QED
      BY <3>1, <3>2
  <2> QED
    BY <2>1, <2>4 DEF RefusalInv, RefusalKept, NextPlyOf
<1>9. ASSUME NEW h \in Handler, Rollback(h)
      PROVE  RefusalInv'
  BY <1>9 DEF Rollback, RefusalInv, RefusalKept
<1>10. CASE UNCHANGED recordVars
  BY <1>10 DEF recordVars, RefusalInv, RefusalKept, Heeds
<1> QED
  BY <1>1, <1>2, <1>3, <1>4, <1>5, <1>6, <1>7, <1>8, <1>9, <1>10, RowWriters

\* Once s may offer again, its opponent has completed a ply since.
LEMMA PlyBetween ==
  ASSUME NEW s \in Side, NEW a \in Nat, NEW n \in Nat, n >= NextPlyOf(Opponent(s), a)
  PROVE  \E p \in a .. n - 1 : ActiveSide(p) = Opponent(s)
<1>1. CASE ActiveSide(a) = Opponent(s)
  <2>1. a \in a .. n - 1
    BY <1>1 DEF NextPlyOf
  <2> QED
    BY <1>1, <2>1
<1>2. CASE ActiveSide(a) # Opponent(s)
  <2>1. a + 1 \in a .. n - 1
    BY <1>2 DEF NextPlyOf
  <2>2. (a % 2 = 0 /\ (a + 1) % 2 # 0) \/ (a % 2 # 0 /\ (a + 1) % 2 = 0)
    OBVIOUS
  <2>3. ActiveSide(a + 1) # ActiveSide(a) /\ ActiveSide(a + 1) \in Side
    BY <2>2, Sides DEF ActiveSide
  <2>4. ActiveSide(a + 1) = Opponent(s)
    BY <1>2, <2>3, Sides DEF Side, Opponent, ActiveSide
  <2> QED
    BY <2>1, <2>4
<1> QED
  BY <1>1, <1>2

\* An offer enters the committed row only with a transaction's commit.
LEMMA OfferedByCommit ==
  ASSUME TypeOK, RecordInv, [Next]_vars, NEW s \in Side, row.offer.by # s, row'.offer.by = s
  PROVE  \E h \in Handler : Commit(h)
<1>r. row \in Row /\ now \in Nat
  BY DEF TypeOK
<1>c. \A h \in Handler : call[h].side \in Side /\ call[h].at \in Nat
  BY DEF TypeOK, Call
<1>s. s # Nobody
  BY Sides
<1>1. ASSUME NEW timed \in Timings, CreatePending(timed) \/ CreateActive(timed)
      PROVE  FALSE
  <2> DEFINE next == CreateMatch(timed, now)
  <2>1. next \in Row /\ next.offer = NoOffer
    BY <1>r, CreatedFields, MatchAssumption DEF MatchAssumption
  <2> HIDE DEF next
  <2>2. row'.offer = NoOffer
    BY <1>1, <2>1 DEF CreatePending, CreateActive, Row, next
  <2> QED
    BY <1>s, <2>2 DEF NoOffer
<1>2. ASSUME NEW h \in Handler, Accept(h)
      PROVE  FALSE
  <2> DEFINE next == AcceptedBy(row, call[h].side, call[h].at)
  <2>1. next.offer = row.offer
    BY <1>2, <1>r, <1>c, AcceptedFields DEF Accept, IsOpen
  <2>2. row' = next
    BY <1>2 DEF Accept
  <2> HIDE DEF next
  <2> QED
    BY <2>1, <2>2
<1>3. ASSUME NEW h \in Handler, Decline(h)
      PROVE  FALSE
  <2>1. row'.offer = row.offer
    BY <1>3, <1>r DEF Decline, Row
  <2> QED
    BY <2>1
<1>4. ASSUME NEW w \in Sweeper, Expire(w)
      PROVE  FALSE
  <2> DEFINE read == overdue[w].read
  <2>1. read \in Row /\ Sane(read) /\ read.status \in {"absent", "pending_acceptance"}
    BY DEF TypeOK, RecordInv
  <2>2. row' = [read EXCEPT !.status = "expired", !.settled = overdue[w].at]
    BY <1>4 DEF Expire
  <2> HIDE DEF read
  <2>3. row'.offer.by = Nobody
    BY <2>1, <2>2 DEF Sane, Row
  <2> QED
    BY <1>s, <2>3
<1>5. ASSUME NEW h \in Handler, Move(h) \/ Command(h) \/ Rollback(h)
      PROVE  FALSE
  BY <1>5 DEF Move, Command, Rollback, Write
<1>6. ASSUME NEW a \in Adjudicator, Flag(a)
      PROVE  FALSE
  BY <1>6, <1>s, FlagWrites DEF NoOffer
<1>7. CASE Abort
  BY <1>7, <1>s, AbortWrites DEF NoOffer
<1>8. CASE UNCHANGED recordVars
  BY <1>8 DEF recordVars
<1> QED
  BY <1>1, <1>2, <1>3, <1>4, <1>5, <1>6, <1>7, <1>8, RowWriters

\* A refused offer is not repeated before the opponent has moved once more.
THEOREM RefusalsAreRespected == Spec => NoRepeatedOffer
<1>1. TypeOK /\ RecordInv /\ RefusalInv /\ [Next]_vars => TypeOK' /\ RecordInv' /\ RefusalInv'
  BY StepType, StepRecord, StepRefusals
<1>2. Init => RefusalInv
  BY DEF Init, RefusalInv, RefusalKept, NoMatch
<1>3. ASSUME TypeOK, RecordInv, RefusalInv, [Next]_vars, NEW s \in Side,
             row.offer.by # s, row'.offer.by = s, answeredAt[s] # -1
      PROVE  \E p \in answeredAt[s] .. row.ply - 1 : ActiveSide(p) = Opponent(s)
  <2>1. PICK h \in Handler : Commit(h)
    BY <1>3, OfferedByCommit
  <2>2. /\ holder # NoHandler /\ row' = draft /\ row.status = "active"
    BY <1>3, <2>1, MatchAssumption DEF MatchAssumption, Commit, RecordInv, DraftOfLive
  <2>3. row.ply >= row.from[s]
    BY <1>3, <2>2, Sides DEF RefusalInv, Heeds
  <2>4. answeredAt[s] \in Nat /\ row.from[s] = NextPlyOf(Opponent(s), answeredAt[s])
    BY <1>3, <2>2 DEF RefusalInv, RefusalKept
  <2>5. row.ply \in Nat
    BY <1>3 DEF TypeOK, Row
  <2> QED
    BY <2>3, <2>4, <2>5, PlyBetween
<1>4. TypeOK /\ RecordInv /\ RefusalInv /\ [Next]_vars =>
        [\A s \in Side :
           row.offer.by # s /\ row'.offer.by = s /\ answeredAt[s] # -1 =>
             \E p \in answeredAt[s] .. row.ply - 1 : ActiveSide(p) = Opponent(s)]_vars
  BY <1>3
<1> QED
  BY <1>1, <1>2, <1>4, InitType, InitRecord, PTL DEF Spec, NoRepeatedOffer

-----------------------------------------------------------------------------
(* LiveMatch implements MatchLife *)

Heard == [created |-> announced["created"], activated |-> announced["activated"],
          voided |-> announced["declined"] + announced["expired"],
          completed |-> announced["completed"]]

ResultOf(r) == <<r.reason, r.winner>>

LEMMA HeardOne ==
  ASSUME TypeOK
  PROVE  /\ Announce("created") => Heard' = [Heard EXCEPT !.created = @ + 1]
         /\ Announce("activated") => Heard' = [Heard EXCEPT !.activated = @ + 1]
         /\ Announce("declined") => Heard' = [Heard EXCEPT !.voided = @ + 1]
         /\ Announce("expired") => Heard' = [Heard EXCEPT !.voided = @ + 1]
         /\ Announce("completed") => Heard' = [Heard EXCEPT !.completed = @ + 1]
<1>1. announced \in [Lifecycle -> Nat]
  BY DEF TypeOK
<1>2. /\ announced["created"] \in Nat /\ announced["activated"] \in Nat
      /\ announced["declined"] \in Nat /\ announced["expired"] \in Nat
      /\ announced["completed"] \in Nat
  BY <1>1 DEF Lifecycle
<1>3. ASSUME Announce("created")
      PROVE  Heard' = [Heard EXCEPT !.created = @ + 1]
  BY <1>1, <1>3 DEF Announce, Heard, Lifecycle
<1>4. ASSUME Announce("activated")
      PROVE  Heard' = [Heard EXCEPT !.activated = @ + 1]
  BY <1>1, <1>4 DEF Announce, Heard, Lifecycle
<1>5. ASSUME Announce("declined")
      PROVE  Heard' = [Heard EXCEPT !.voided = @ + 1]
  BY <1>1, <1>2, <1>5 DEF Announce, Heard, Lifecycle
<1>6. ASSUME Announce("expired")
      PROVE  Heard' = [Heard EXCEPT !.voided = @ + 1]
  BY <1>1, <1>2, <1>6 DEF Announce, Heard, Lifecycle
<1>7. ASSUME Announce("completed")
      PROVE  Heard' = [Heard EXCEPT !.completed = @ + 1]
  BY <1>1, <1>7 DEF Announce, Heard, Lifecycle
<1> QED
  BY <1>3, <1>4, <1>5, <1>6, <1>7

\* A step that changes neither the status, the result nor what was announced
\* is invisible to the consumers.
LEMMA Invisible ==
  ASSUME row'.status = row.status, row'.reason = row.reason, row'.winner = row.winner,
         announced' = announced
  PROVE  UNCHANGED Life!vars
  BY DEF Life!vars, Phase

\* A record without a result has the result every unfinished match has.
LEMMA NoResultYet ==
  ASSUME NEW r, Sane(r), r.status # "completed"
  PROVE  r.reason = "none" /\ r.winner = Nobody
  BY DEF Sane

\* The steps that complete a live match are MatchLife's Finish.
LEMMA Finishes ==
  ASSUME TypeOK, row.status = "active", row'.status = "completed", row' \in Row, Sane(row'),
         Announce("completed")
  PROVE  Life!Next
<1> DEFINE r == ResultOf(row')
<1>1. r \in (Reason \ {"none"}) \X (Side \cup {Nobody})
  BY DEF ResultOf, Sane, Row
<1>2. Phase = "playing" /\ Phase' = "over"
  BY DEF Phase
<1>3. Heard' = [Heard EXCEPT !.completed = @ + 1]
  BY HeardOne
<1>4. Life!Finish(r)
  BY <1>2, <1>3 DEF Life!Finish, ResultOf, Heard
<1> QED
  BY <1>1, <1>4, Zenon DEF Life!Next

LEMMA StepLives ==
  ASSUME TypeOK, RecordInv, [Next]_vars
  PROVE  [Life!Next]_(Life!vars)
<1>r. row \in Row /\ row' \in Row /\ now \in Nat /\ Sane(row) /\ Sane(row')
  BY StepType, StepRecord DEF TypeOK, RecordInv
<1>c. \A h \in Handler : call[h].side \in Side /\ call[h].at \in Nat /\ h # NoHandler
  BY MatchAssumption DEF MatchAssumption, TypeOK, Call
\* Neither an unfinished match nor what it becomes has a result.
<1>u. ASSUME row.status # "completed", row'.status # "completed"
      PROVE  row'.reason = row.reason /\ row'.winner = row.winner
  BY <1>u, <1>r, NoResultYet
<1>1. ASSUME NEW timed \in Timings, CreatePending(timed)
      PROVE  Life!Propose
  <2> DEFINE next == CreateMatch(timed, now)
  <2>1. next \in Row
    BY <1>r, CreatedFields, MatchAssumption DEF MatchAssumption
  <2> HIDE DEF next
  <2>2. row.status = "absent" /\ row'.status = "pending_acceptance" /\ Announce("created")
    BY <1>1, <2>1 DEF CreatePending, Row, next
  <2>3. Phase = "absent" /\ Phase' = "proposed"
    BY <2>2 DEF Phase
  <2>4. Heard' = [Heard EXCEPT !.created = @ + 1]
    BY <2>2, HeardOne
  <2> QED
    BY <1>u, <2>2, <2>3, <2>4 DEF Life!Propose, Heard
<1>2. ASSUME NEW timed \in Timings, CreateActive(timed)
      PROVE  Life!BeginOutright
  <2> DEFINE next == CreateMatch(timed, now)
  <2>1. next \in Row /\ next.status = "active"
    BY <1>r, CreatedFields, MatchAssumption DEF MatchAssumption
  <2> HIDE DEF next
  <2>2. row.status = "absent" /\ row'.status = "active"
    BY <1>2, <2>1 DEF CreateActive, Row, next
  <2>3. Phase = "absent" /\ Phase' = "playing"
    BY <2>2 DEF Phase
  <2>4. /\ announced'["created"] = announced["created"] + 1
        /\ announced'["activated"] = announced["activated"] + 1
        /\ \A k \in {"declined", "expired", "completed"} : announced'[k] = announced[k]
    <3>1. announced' = [announced EXCEPT !["created"] = @ + 1, !["activated"] = @ + 1]
      BY <1>2 DEF CreateActive
    <3>2. announced \in [Lifecycle -> Nat]
      BY DEF TypeOK
    <3> QED
      BY <3>1, <3>2 DEF Lifecycle
  <2>5. Heard' = [Heard EXCEPT !.created = @ + 1, !.activated = @ + 1]
    <3> DEFINE Counts == [created : Nat, activated : Nat, voided : Nat, completed : Nat]
    <3>1. Heard \in Counts /\ Heard' \in Counts
      <4>1. announced \in [Lifecycle -> Nat] /\ announced' \in [Lifecycle -> Nat]
        BY StepType DEF TypeOK
      <4> QED
        BY <4>1 DEF Heard, Lifecycle
    <3>2. /\ Heard'.created = Heard.created + 1 /\ Heard'.activated = Heard.activated + 1
          /\ Heard'.voided = Heard.voided /\ Heard'.completed = Heard.completed
      BY <2>4 DEF Heard
    <3> QED
      BY <3>1, <3>2
  <2> QED
    BY <1>u, <2>2, <2>3, <2>5 DEF Life!BeginOutright, Heard
<1>3. ASSUME NEW h \in Handler, Accept(h)
      PROVE  Life!Begin \/ UNCHANGED Life!vars
  <2> DEFINE next == AcceptedBy(row, call[h].side, call[h].at)
  <2>1. row.status = "pending_acceptance"
    BY <1>3 DEF Accept, IsOpen
  <2>2. next.status \in {"pending_acceptance", "active"}
    BY <1>r, <1>c, <2>1, AcceptedFields
  <2>3. /\ row' = next
        /\ IF next.status = "active" THEN Announce("activated") ELSE announced' = announced
    BY <1>3 DEF Accept
  <2> HIDE DEF next
  <2>4. row'.reason = row.reason /\ row'.winner = row.winner
    BY <1>u, <2>1, <2>2, <2>3
  <2>5. CASE next.status = "pending_acceptance"
    BY <2>1, <2>3, <2>4, <2>5, Invisible
  <2>6. CASE next.status = "active"
    <3>1. Phase = "proposed" /\ Phase' = "playing"
      BY <2>1, <2>3, <2>6 DEF Phase
    <3>2. Heard' = [Heard EXCEPT !.activated = @ + 1]
      BY <2>3, <2>6, HeardOne
    <3> QED
      BY <2>4, <3>1, <3>2 DEF Life!Begin, Heard
  <2> QED
    BY <2>2, <2>5, <2>6
<1>v. ASSUME row.status = "pending_acceptance", row'.status \in {"cancelled", "expired"},
             Announce("declined") \/ Announce("expired")
      PROVE  Life!ComeToNothing
  <2>1. Phase = "proposed" /\ Phase' = "void"
    BY <1>v DEF Phase
  <2>2. Heard' = [Heard EXCEPT !.voided = @ + 1]
    BY <1>v, HeardOne
  <2>3. row'.reason = row.reason /\ row'.winner = row.winner
    BY <1>u, <1>v
  <2> QED
    BY <2>1, <2>2, <2>3 DEF Life!ComeToNothing, Heard
<1>4. ASSUME NEW h \in Handler, Decline(h)
      PROVE  Life!ComeToNothing
  <2>1. /\ row.status = "pending_acceptance" /\ row'.status = "cancelled"
        /\ Announce("declined")
    BY <1>4, <1>r DEF Decline, IsOpen, Row
  <2> QED
    BY <1>v, <2>1
<1>5. ASSUME NEW w \in Sweeper, Expire(w)
      PROVE  Life!ComeToNothing
  <2>1. overdue[w].read \in Row
    BY DEF TypeOK
  <2>2. /\ row.status = "pending_acceptance" /\ row'.status = "expired"
        /\ Announce("expired")
    BY <1>5, <2>1 DEF Expire, Row
  <2> QED
    BY <1>v, <2>2
<1>6. ASSUME NEW h \in Handler, Commit(h)
      PROVE  Life!Next \/ UNCHANGED Life!vars
  <2>1. /\ row.status = "active" /\ draft.status \in {"active", "completed"} /\ row' = draft
        /\ IF draft.status = "completed" THEN Announce("completed") ELSE announced' = announced
    BY <1>6, <1>c DEF Commit, RecordInv, DraftOfLive
  <2>2. CASE draft.status = "completed"
    BY <1>r, <2>1, <2>2, Finishes
  <2>3. CASE draft.status = "active"
    <3>1. row'.reason = row.reason /\ row'.winner = row.winner
      BY <1>u, <2>1, <2>3
    <3> QED
      BY <2>1, <2>3, <3>1, Invisible
  <2> QED
    BY <2>1, <2>2, <2>3
<1>7. ASSUME NEW a \in Adjudicator, Flag(a)
      PROVE  Life!Next
  <2>1. row.status = "active" /\ row'.status = "completed" /\ Announce("completed")
    BY <1>7, FlagWrites DEF Flag
  <2> QED
    BY <1>r, <2>1, Finishes
<1>8. CASE Abort
  <2>1. row.status = "active" /\ row'.status = "completed" /\ Announce("completed")
    BY <1>8, AbortWrites DEF Abort
  <2> QED
    BY <1>r, <2>1, Finishes
<1>9. ASSUME NEW h \in Handler, Move(h) \/ Command(h) \/ Rollback(h)
      PROVE  UNCHANGED Life!vars
  <2>1. row' = row /\ announced' = announced
    BY <1>9 DEF Move, Command, Rollback, Write
  <2> QED
    BY <2>1, Invisible
<1>10. CASE UNCHANGED recordVars
  BY <1>10, Invisible DEF recordVars
<1> QED
  BY <1>1, <1>2, <1>3, <1>4, <1>5, <1>6, <1>7, <1>8, <1>9, <1>10, RowWriters DEF Life!Next

\* Whatever the requests, the tasks and Redis do, a match lives the life that
\* MatchLife describes: the modules that consume its events may rely on it.
THEOREM MatchLivesOnce == Spec => LifeSpec
<1>1. Init => Life!Init
  <2> SUFFICES ASSUME Init PROVE Life!Init
    OBVIOUS
  <2>1. row.status = "absent" /\ row.reason = "none" /\ row.winner = Nobody
    BY DEF Init, NoMatch
  <2>2. Phase = "absent"
    BY <2>1 DEF Phase
  <2>3. Heard = [created |-> 0, activated |-> 0, voided |-> 0, completed |-> 0]
    BY DEF Init, Heard, Lifecycle
  <2> QED
    BY <2>1, <2>2, <2>3 DEF Life!Init, Heard
<1>2. TypeOK /\ RecordInv /\ [Next]_vars => [Life!Next]_(Life!vars)
  BY StepLives
<1>3. TypeOK /\ RecordInv /\ [Next]_vars => TypeOK' /\ RecordInv'
  BY StepType, StepRecord
<1> QED
  BY <1>1, <1>2, <1>3, InitType, InitRecord, PTL DEF Spec, LifeSpec, Life!Spec
=============================================================================
