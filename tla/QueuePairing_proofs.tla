------------------------- MODULE QueuePairing_proofs -------------------------
(***************************************************************************)
(* Theorems about QueuePairing, for any players, tickets and processes.     *)
(***************************************************************************)
EXTENDS QueuePairing, TLAPS

(* One write to one ticket *)

\* A live ticket moves: where it may come from depends on where it goes.
Moves(a, b) ==
  /\ a.status \in {"waiting", "reserved"}
  /\ b \in Ticket /\ b.status # "none"
  /\ b.expires = a.expires /\ b.source = a.source
  /\ b.status = "matched" => a.status = "reserved"
  /\ b.status \in {"cancelled", "reserved"} => a.status = "waiting"
  /\ b.status = "reserved" <=> b.until # 0

\* What TypeOK says of the tickets.
Rows(f) ==
  /\ f \in [Tickets -> Ticket]
  /\ \A t \in Tickets : (f[t].status = "reserved") <=> (f[t].until # 0)
  /\ \A s, t \in Tickets :
       /\ OwnerOf[s] = OwnerOf[t]
       /\ f[s].status \in {"waiting", "reserved"}
       /\ f[t].status \in {"waiting", "reserved"}
       => s = t

\* A transaction on live tickets, and an insert.
Settling(f, g) ==
  /\ g \in [Tickets -> Ticket]
  /\ \A t \in Tickets : g[t] = f[t] \/ Moves(f[t], g[t])

Entering(f, g) ==
  \E t \in Tickets, source \in Tickets \cup {NoTicket} :
    /\ f[t].status = "none"
    /\ \A s \in Tickets : OwnerOf[s] = OwnerOf[t] => f[s].status \notin {"waiting", "reserved"}
    /\ g = [f EXCEPT ![t] = Entered(source)]

\* Neither leaves a player with two live tickets.
LEMMA SettlingRows ==
  ASSUME NEW f, NEW g, Rows(f), Settling(f, g)
  PROVE  Rows(g)
<1>1. \A t \in Tickets : (g[t].status = "reserved") <=> (g[t].until # 0)
  BY DEF Rows, Settling, Moves
<1>2. \A t \in Tickets : g[t].status \in {"waiting", "reserved"}
                         => f[t].status \in {"waiting", "reserved"}
  BY DEF Settling, Moves
<1> QED
  BY <1>1, <1>2 DEF Rows, Settling

LEMMA EnteringRows ==
  ASSUME NEW f, NEW g, now \in Nat, Rows(f), Entering(f, g)
  PROVE  Rows(g)
<1>1. PICK t \in Tickets, source \in Tickets \cup {NoTicket} :
        /\ f[t].status = "none"
        /\ \A s \in Tickets : OwnerOf[s] = OwnerOf[t] => f[s].status \notin {"waiting", "reserved"}
        /\ g = [f EXCEPT ![t] = Entered(source)]
  BY DEF Entering
<1>2. Entered(source) \in Ticket /\ Entered(source).until = 0
      /\ Entered(source).status = "waiting"
  BY PairingConstants DEF Entered, Ticket, TicketStatus
<1>3. g \in [Tickets -> Ticket] /\ g[t] = Entered(source)
      /\ \A s \in Tickets \ {t} : g[s] = f[s]
  BY <1>1, <1>2 DEF Rows
<1>4. \A s \in Tickets : (g[s].status = "reserved") <=> (g[s].until # 0)
  BY <1>2, <1>3 DEF Rows
<1> QED
  BY <1>1, <1>3, <1>4 DEF Rows

(* The writers *)

Updated(a, status, until) == [a EXCEPT !.status = status, !.until = until]

LEMMA UpdatedFields ==
  ASSUME NEW a \in Ticket, NEW status \in TicketStatus, NEW until \in Nat
  PROVE  /\ Updated(a, status, until) \in Ticket
         /\ Updated(a, status, until).status = status
         /\ Updated(a, status, until).until = until
         /\ Updated(a, status, until).expires = a.expires
         /\ Updated(a, status, until).source = a.source
BY DEF Ticket, Updated

\* `_transition` moves live tickets, if its target is one Moves allows.
LEMMA MovedSettles ==
  ASSUME TypeOK, NEW S, NEW expected \in {"waiting", "reserved"},
         NEW status \in {"waiting", "reserved", "matched", "cancelled"}, NEW until \in Nat,
         status = "matched" => expected = "reserved",
         status \in {"cancelled", "reserved"} => expected = "waiting",
         status = "reserved" <=> until # 0
  PROVE  Settling(ticket, Moved(S, expected, status, until))
<1>1. CASE ~All(S, expected)
  BY <1>1 DEF Settling, Moved, TypeOK
<1>2. CASE All(S, expected)
  <2> DEFINE g == Moved(S, expected, status, until)
  <2>1. g = [t \in Tickets |-> IF t \in S
                          THEN [ticket[t] EXCEPT !.status = status, !.until = until]
                          ELSE ticket[t]]
    BY <1>2 DEF Moved
  <2>2. \A t \in Tickets : g[t] \in Ticket /\ (g[t] = ticket[t] \/ Moves(ticket[t], g[t]))
    <3> SUFFICES ASSUME NEW t \in Tickets
                 PROVE  g[t] \in Ticket /\ (g[t] = ticket[t] \/ Moves(ticket[t], g[t]))
      OBVIOUS
    <3>1. ticket[t] \in Ticket
      BY DEF TypeOK
    <3>2. CASE t \notin S
      BY <2>1, <3>1, <3>2
    <3>3. CASE t \in S
      <4>1. g[t] = Updated(ticket[t], status, until)
        BY <2>1, <3>3 DEF Updated
      <4>2. ticket[t].status = expected
        BY <1>2, <3>3 DEF All, Has
      <4> HIDE DEF g
      <4>3. status \in TicketStatus
        BY DEF TicketStatus
      <4>4. /\ g[t] \in Ticket
            /\ g[t].status = status /\ g[t].until = until
            /\ g[t].expires = ticket[t].expires /\ g[t].source = ticket[t].source
        BY <3>1, <4>1, <4>3, UpdatedFields
      <4> QED
        BY <4>2, <4>4 DEF Moves
    <3> QED
      BY <3>2, <3>3
  <2> QED
    BY <2>1, <2>2 DEF Settling
<1> QED
  BY <1>1, <1>2

\* `expire` writes only what is still live.
LEMMA ExpiredSettles ==
  ASSUME TypeOK, NEW S
  PROVE  Settling(ticket, Expired(S))
<1> DEFINE g == Expired(S)
<1>1. g = [t \in Tickets |-> IF t \in S /\ Live(t)
                     THEN [ticket[t] EXCEPT !.status = "expired", !.until = 0]
                     ELSE ticket[t]]
  BY DEF Expired
<1>2. \A t \in Tickets : g[t] \in Ticket /\ (g[t] = ticket[t] \/ Moves(ticket[t], g[t]))
  <2> SUFFICES ASSUME NEW t \in Tickets
               PROVE  g[t] \in Ticket /\ (g[t] = ticket[t] \/ Moves(ticket[t], g[t]))
    OBVIOUS
  <2>1. ticket[t] \in Ticket
    BY DEF TypeOK
  <2>2. CASE ~(t \in S /\ Live(t))
    BY <1>1, <2>1, <2>2
  <2>3. CASE t \in S /\ Live(t)
    <3>1. g[t] = Updated(ticket[t], "expired", 0)
      BY <1>1, <2>3 DEF Updated
    <3> HIDE DEF g
    <3>2. "expired" \in TicketStatus
      BY DEF TicketStatus
    <3>3. /\ g[t] \in Ticket
          /\ g[t].status = "expired" /\ g[t].until = 0
          /\ g[t].expires = ticket[t].expires /\ g[t].source = ticket[t].source
      BY <2>1, <3>1, <3>2, UpdatedFields
    <3> QED
      BY <2>3, <3>3 DEF Moves, Live
  <2> QED
    BY <2>2, <2>3
<1> QED
  BY <1>1, <1>2 DEF Settling

\* `_apply` settles and releases what is still reserved and expires what is live.
LEMMA ApplySettles ==
  ASSUME TypeOK, NEW r \in Reconcilers, Apply(r)
  PROVE  Settling(ticket, ticket')
<1> DEFINE batch == recon[r].batch
           settled == {t \in recon[r].found : Has(t, "reserved")}
           lapsed == {t \in batch \ recon[r].found : Due(t)}
           returned == (batch \ recon[r].found) \ lapsed
           released == IF All(returned, "reserved") THEN returned ELSE {}
           overdue == {t \in lapsed : Live(t)}
<1>1. ticket' = [t \in Tickets |->
         IF t \in settled THEN Updated(ticket[t], "matched", 0)
         ELSE IF t \in released THEN Updated(ticket[t], "waiting", 0)
         ELSE IF t \in overdue THEN Updated(ticket[t], "expired", 0)
         ELSE ticket[t]]
  BY DEF Apply, Updated
<1>2. /\ \A t \in settled : ticket[t].status = "reserved"
      /\ \A t \in released : ticket[t].status = "reserved"
      /\ \A t \in overdue : ticket[t].status \in {"waiting", "reserved"}
  BY DEF All, Has, Live
<1> HIDE DEF settled, released, overdue
<1>3. {"matched", "waiting", "expired"} \subseteq TicketStatus
  BY DEF TicketStatus
<1>4. \A t \in Tickets : ticket'[t] \in Ticket
                          /\ (ticket'[t] = ticket[t] \/ Moves(ticket[t], ticket'[t]))
  <2> SUFFICES ASSUME NEW t \in Tickets
               PROVE  ticket'[t] \in Ticket
                      /\ (ticket'[t] = ticket[t] \/ Moves(ticket[t], ticket'[t]))
    OBVIOUS
  <2>1. ticket[t] \in Ticket
    BY DEF TypeOK
  <2>2. CASE t \in settled
    BY <1>1, <1>2, <1>3, <2>1, <2>2, UpdatedFields DEF Moves
  <2>3. CASE t \notin settled /\ t \in released
    BY <1>1, <1>2, <1>3, <2>1, <2>3, UpdatedFields DEF Moves
  <2>4. CASE t \notin settled /\ t \notin released /\ t \in overdue
    BY <1>1, <1>2, <1>3, <2>1, <2>4, UpdatedFields DEF Moves
  <2>5. CASE t \notin settled /\ t \notin released /\ t \notin overdue
    BY <1>1, <2>1, <2>5
  <2> QED
    BY <2>2, <2>3, <2>4, <2>5
<1> QED
  BY SMTT(60), <1>1, <1>4 DEF Settling

\* An insert that the two indexes admit.
LEMMA AdmittedEnters ==
  ASSUME NEW p, NEW source \in Tickets \cup {NoTicket}, Admits(p, source),
         NEW t \in Unused(p), NEW g, g = [ticket EXCEPT ![t] = Entered(source)]
  PROVE  Entering(ticket, g)
BY DEF Admits, Unused, Entering, Live, Has

\* Every row of `match` is about tickets of its pairing.
LEMMA PairingTickets == \A p \in Pairings : p \subseteq Tickets
BY DEF Pairings

LEMMA RequeueEnters ==
  ASSUME TypeOK, NEW p \in Pairings, RequeueAll(p)
  PROVE  ticket' = ticket \/ Entering(ticket, ticket')
<1>1. CASE match[p].accepted = {}
  BY <1>1 DEF RequeueAll
<1>2. CASE match[p].accepted # {}
  <2>1. PICK t \in match[p].accepted : Requeue(t)
    BY <1>2 DEF RequeueAll
  <2>2. t \in Tickets
    BY <2>1 DEF TypeOK, Match
  <2>3. CASE ~Restores(t)
    BY <2>1, <2>3 DEF Requeue
  <2>4. CASE Restores(t)
    <3>1. PICK s \in Unused(OwnerOf[t]) : ticket' = [ticket EXCEPT ![s] = Entered(t)]
      BY <2>1, <2>4 DEF Requeue
    <3>2. Admits(OwnerOf[t], t)
      BY <2>4 DEF Restores
    <3> QED
      BY <2>2, <3>1, <3>2, AdmittedEnters
  <2> QED
    BY <2>3, <2>4
<1> QED
  BY <1>1, <1>2

Job ==
  \/ Tick \/ UNCHANGED vars
  \/ \E w \in Workers : Pair(w)
  \/ \E s \in Sweepers : Sweep(s)
  \/ \E r \in Reconcilers : Reconcile(r)

\* Only players and the policy enter tickets.
LEMMA JobsSettle ==
  ASSUME TypeOK, Job
  PROVE  Settling(ticket, ticket')
<1>1. ASSUME ticket' = ticket
      PROVE  Settling(ticket, ticket')
  BY <1>1 DEF Settling, TypeOK
<1>2. ASSUME NEW w \in Workers, Pair(w)
      PROVE  Settling(ticket, ticket')
  <2>1. CASE Claim(w)
    <3>1. now + ReservationTtl \in Nat \ {0}
      BY PairingConstants DEF TypeOK
    <3>2. ticket' = ticket
          \/ ticket' = Moved(worker[w].pair, "waiting", "reserved", now + ReservationTtl)
      BY <2>1 DEF Claim
    <3> QED
      BY <1>1, <3>1, <3>2, MovedSettles
  <2>2. CASE Complete(w)
    <3>1. ticket' = Moved(worker[w].pair, "reserved", "matched", 0)
      BY <2>2 DEF Complete
    <3> QED
      BY <3>1, MovedSettles
  <2>3. CASE Release(w)
    <3>1. ticket' = Moved(worker[w].pair, "reserved", "waiting", 0)
      BY <2>3 DEF Release
    <3> QED
      BY <3>1, MovedSettles
  <2>4. CASE Select(w) \/ BeginCreate(w) \/ Refused(w) \/ CommitCreate(w) \/ CrashWorker(w)
    BY <1>1, <2>4 DEF Select, BeginCreate, Refused, CommitCreate, CrashWorker
  <2> QED
    BY <1>2, <2>1, <2>2, <2>3, <2>4 DEF Pair
<1>3. ASSUME NEW s \in Sweepers, Sweep(s)
      PROVE  Settling(ticket, ticket')
  <2>1. CASE ExpireDue(s)
    BY <2>1, ExpiredSettles DEF ExpireDue
  <2>2. CASE ClaimDue(s) \/ CrashSweeper(s)
    BY <1>1, <2>2 DEF ClaimDue, CrashSweeper
  <2> QED
    BY <1>3, <2>1, <2>2 DEF Sweep
<1>4. ASSUME NEW r \in Reconcilers, Reconcile(r)
      PROVE  Settling(ticket, ticket')
  <2>1. CASE Apply(r)
    BY <2>1, ApplySettles
  <2>2. CASE ExpireMatches(r) \/ ClaimStale(r) \/ ReadSettlements(r) \/ CrashReconciler(r)
    BY <1>1, <2>2 DEF ExpireMatches, ClaimStale, ReadSettlements, CrashReconciler
  <2> QED
    BY <1>4, <2>1, <2>2 DEF Reconcile
<1>5. CASE Tick \/ UNCHANGED vars
  BY <1>1, <1>5 DEF Tick, vars
<1> QED
  BY <1>2, <1>3, <1>4, <1>5 DEF Job

\* Every step settles live tickets, enters one ticket, or leaves them alone.
LEMMA TicketWriters ==
  ASSUME TypeOK, [Next]_vars
  PROVE  Settling(ticket, ticket') \/ Entering(ticket, ticket')
<1>1. ASSUME ticket' = ticket
      PROVE  Settling(ticket, ticket')
  BY <1>1 DEF Settling, TypeOK
<1>2. ASSUME NEW p \in Players, Queue(p)
      PROVE  Settling(ticket, ticket') \/ Entering(ticket, ticket')
  <2>1. CASE Join(p)
    <3>1. PICK t \in Unused(p) : ticket' = [ticket EXCEPT ![t] = Entered(NoTicket)]
      BY <2>1 DEF Join
    <3>2. Admits(p, NoTicket)
      BY <2>1 DEF Join
    <3> QED
      BY <3>1, <3>2, AdmittedEnters
  <2>2. CASE Leave(p)
    <3>1. PICK t \in Tickets : ticket' = Moved({t}, "waiting", "cancelled", 0)
      BY <2>2 DEF Leave
    <3> QED
      BY <3>1, MovedSettles
  <2> QED
    BY <1>2, <2>1, <2>2 DEF Queue
<1>3. ASSUME NEW p \in Pairings, Handshake(p)
      PROVE  Settling(ticket, ticket') \/ Entering(ticket, ticket')
  <2>1. CASE ApplyPolicy(p) \/ PolicyInterrupted(p)
    <3>1. RequeueAll(p)
      BY <2>1 DEF ApplyPolicy, PolicyInterrupted
    <3> QED
      BY <1>1, <3>1, RequeueEnters
  <2>2. CASE \E t \in p : Accept(p, t) \/ Decline(p, t)
    BY <1>1, <2>2 DEF Accept, Decline
  <2> QED
    BY <1>3, <2>1, <2>2 DEF Handshake
<1> QED
  BY <1>2, <1>3, JobsSettle DEF Next, Job

-----------------------------------------------------------------------------
(* Matches *)

\* What no step does to a match: forget it, or reopen one that failed.
Kept(m, n) ==
  /\ n \in [Pairings -> Match]
  /\ \A p \in Pairings :
       /\ m[p].status # "none" => n[p].status # "none"
       /\ m[p].status \in {"cancelled", "expired"} => n[p] = m[p]

LEMMA MatchWriters ==
  ASSUME TypeOK, [Next]_vars
  PROVE  Kept(match, match')
<1>1. ASSUME match' = match
      PROVE  Kept(match, match')
  BY <1>1 DEF Kept, TypeOK
<1>2. ASSUME NEW p \in Pairings, NEW t \in p, Accept(p, t)
      PROVE  Kept(match, match')
  <2> DEFINE accepted == match[p].accepted \cup {t}
             status == IF accepted = p THEN "active" ELSE match[p].status
  <2>1. match[p] \in Match /\ match[p].status = "pending_acceptance"
    BY <1>2 DEF Accept, IsOpen, TypeOK
  <2>2. accepted \in SUBSET Tickets
    BY <2>1, PairingTickets DEF Match
  <2>3. status \in MatchStatus \ {"none"}
    BY <2>1 DEF MatchStatus
  <2>4. match' = [match EXCEPT ![p] = [[match[p] EXCEPT !.accepted = accepted]
                                                 EXCEPT !.status = status]]
    BY <1>2, <2>1 DEF Accept, TypeOK, Match
  <2> HIDE DEF accepted, status
  <2>5. [[match[p] EXCEPT !.accepted = accepted] EXCEPT !.status = status] \in Match
        /\ [[match[p] EXCEPT !.accepted = accepted] EXCEPT !.status = status].status = status
    BY <2>1, <2>2, <2>3 DEF Match
  <2> QED
    BY <2>1, <2>3, <2>4, <2>5 DEF Kept, TypeOK
<1>3. ASSUME NEW p \in Pairings, NEW t \in p, Decline(p, t)
      PROVE  Kept(match, match')
  <2>1. match[p] \in Match /\ match[p].status = "pending_acceptance"
    BY <1>3 DEF Decline, IsOpen, TypeOK
  <2>2. t \in Tickets
    BY PairingTickets
  <2>3. match' = [match EXCEPT ![p] = [[match[p] EXCEPT !.status = "cancelled"]
                                                 EXCEPT !.decliner = t]]
    BY <1>3, <2>1 DEF Decline, TypeOK, Match
  <2>4. [[match[p] EXCEPT !.status = "cancelled"] EXCEPT !.decliner = t] \in Match
        /\ [[match[p] EXCEPT !.status = "cancelled"] EXCEPT !.decliner = t].status = "cancelled"
    BY <2>1, <2>2 DEF Match, MatchStatus
  <2> QED
    BY <2>1, <2>3, <2>4 DEF Kept, TypeOK
<1>4. ASSUME NEW w \in Workers, CommitCreate(w)
      PROVE  Kept(match, match')
  <2> DEFINE p == worker[w].pair
             m == [NoMatch EXCEPT !.status = "pending_acceptance", !.deadline = worker[w].until]
  <2>1. \/ match' = match
        \/ /\ match[p].status = "none"
           /\ match' = [match EXCEPT ![p] = m]
    BY <1>4 DEF CommitCreate
  <2>2. worker[w].until \in Nat
    BY DEF TypeOK, Worker
  <2>3. m \in Match /\ m.status = "pending_acceptance"
    BY <2>2 DEF NoMatch, Match, MatchStatus
  <2> HIDE DEF m
  <2>4. CASE match[p].status = "none" /\ match' = [match EXCEPT ![p] = m]
    <3>1. match' \in [Pairings -> Match]
      BY <2>3, <2>4 DEF TypeOK
    <3>2. \A q \in Pairings : match'[q] = IF q = p THEN m ELSE match[q]
      BY <2>4 DEF TypeOK
    <3> QED
      BY <2>3, <2>4, <3>1, <3>2 DEF Kept
  <2> QED
    BY <1>1, <2>1, <2>4
<1>5. ASSUME NEW r \in Reconcilers, ExpireMatches(r)
      PROVE  Kept(match, match')
  <2>1. match' = [p \in Pairings |-> IF p \in Overdue
                                  THEN [match[p] EXCEPT !.status = "expired"] ELSE match[p]]
    BY <1>5 DEF ExpireMatches
  <2>2. ASSUME NEW p \in Pairings
        PROVE  /\ match'[p] \in Match
               /\ match[p].status # "none" => match'[p].status # "none"
               /\ match[p].status \in {"cancelled", "expired"} => match'[p] = match[p]
    <3>1. match[p] \in Match
      BY DEF TypeOK
    <3>2. CASE p \notin Overdue
      BY <2>1, <3>1, <3>2
    <3>3. CASE p \in Overdue
      <4>1. match'[p] = [match[p] EXCEPT !.status = "expired"]
        BY <2>1, <3>3
      <4>2. [match[p] EXCEPT !.status = "expired"] \in Match
            /\ [match[p] EXCEPT !.status = "expired"].status = "expired"
        BY <3>1 DEF Match, MatchStatus
      <4>3. match[p].status = "pending_acceptance"
        BY <3>3 DEF Overdue
      <4> QED
        BY <4>1, <4>2, <4>3
    <3> QED
      BY <3>2, <3>3
  <2> QED
    BY <2>1, <2>2 DEF Kept
<1>6. ASSUME NEW p \in Players, Queue(p)
      PROVE  match' = match
  BY <1>6 DEF Queue, Join, Leave, gameVars
<1>7. ASSUME NEW w \in Workers, Pair(w), ~CommitCreate(w)
      PROVE  match' = match
  BY <1>7 DEF Pair, Select, Claim, BeginCreate, Refused, Complete, Release, CrashWorker, gameVars
<1>8. ASSUME NEW s \in Sweepers, Sweep(s)
      PROVE  match' = match
  BY <1>8 DEF Sweep, ClaimDue, ExpireDue, CrashSweeper, gameVars
<1>9. ASSUME NEW r \in Reconcilers, Reconcile(r), ~ExpireMatches(r)
      PROVE  match' = match
  BY <1>9 DEF Reconcile, ClaimStale, ReadSettlements, Apply, CrashReconciler, gameVars
<1>10. ASSUME NEW p \in Pairings, ApplyPolicy(p) \/ PolicyInterrupted(p)
       PROVE  match' = match
  BY <1>10 DEF ApplyPolicy, PolicyInterrupted
<1>11. CASE Tick \/ UNCHANGED vars
  BY <1>1, <1>11 DEF Tick, vars, gameVars
<1> QED
  BY <1>1, <1>2, <1>3, <1>4, <1>5, <1>6, <1>7, <1>8, <1>9, <1>10, <1>11 DEF Next, Handshake

-----------------------------------------------------------------------------
(* Type correctness *)

LEMMA InitType == Init => TypeOK
<1> SUFFICES ASSUME Init
             PROVE  TypeOK
  OBVIOUS
<1>1. NotEntered \in Ticket /\ NotEntered.status = "none" /\ NotEntered.until = 0
  BY DEF NotEntered, Ticket, TicketStatus
<1>2. NoMatch \in Match
  BY DEF NoMatch, Match, MatchStatus
<1>3. Idle \in Worker /\ Resting \in Recon
  BY DEF Idle, Worker, Resting, Recon
<1>4. /\ now = 0 /\ late = FALSE /\ retaken = FALSE /\ crashes = 0 /\ owed = {}
      /\ barred \in [Players -> Nat] /\ sweeping \in [Sweepers -> SUBSET Tickets]
  BY DEF Init
<1>5. ticket \in [Tickets -> Ticket] /\ \A t \in Tickets : ticket[t] = NotEntered
  BY <1>1 DEF Init
<1>6. /\ match \in [Pairings -> Match] /\ worker \in [Workers -> Worker]
      /\ recon \in [Reconcilers -> Recon]
  BY <1>2, <1>3 DEF Init
<1>7. \A t \in Tickets : /\ ticket[t].status \notin {"waiting", "reserved"}
                          /\ ticket[t].until = 0
  BY <1>1, <1>5
<1>8. crashes \in 0..MaxCrashes
  BY <1>4, PairingConstants
<1> QED
  BY <1>4, <1>5, <1>6, <1>7, <1>8 DEF TypeOK

LEMMA PolicyTypes ==
  ASSUME TypeOK, NEW p \in Pairings, ApplyPolicy(p) \/ PolicyInterrupted(p)
  PROVE  barred' \in [Players -> Nat] /\ owed' \in SUBSET Pairings /\ crashes' \in 0..MaxCrashes
<1>1. match[p].decliner \in Tickets \cup {NoTicket}
  BY DEF TypeOK, Match
<1>2. now + CooldownTtl \in Nat
  BY PairingConstants DEF TypeOK
<1>3. Barred(p) \in [Players -> Nat]
  <2>1. CASE match[p].decliner = NoTicket
    BY <2>1 DEF Barred, TypeOK
  <2>2. CASE match[p].decliner # NoTicket
    <3> DEFINE d == OwnerOf[match[p].decliner]
               bar == IF barred[d] < now + CooldownTtl THEN now + CooldownTtl ELSE barred[d]
    <3>1. d \in Players
      BY <1>1, <2>2, PairingConstants
    <3>2. bar \in Nat
      BY <1>2, <3>1 DEF TypeOK
    <3>3. Barred(p) = [barred EXCEPT ![d] = bar]
      BY <2>2 DEF Barred
    <3> HIDE DEF d, bar
    <3> QED
      BY <3>1, <3>2, <3>3 DEF TypeOK
  <2> QED
    BY <2>1, <2>2
<1>4. barred' \in [Players -> Nat]
  BY <1>3 DEF ApplyPolicy, PolicyInterrupted, TypeOK
<1>5. owed' \in SUBSET Pairings /\ crashes' \in 0..MaxCrashes
  BY PairingConstants DEF ApplyPolicy, PolicyInterrupted, TypeOK
<1> QED
  BY <1>4, <1>5

LEMMA WorkerTypes ==
  ASSUME TypeOK, NEW w \in Workers, Pair(w)
  PROVE  worker' \in [Workers -> Worker] /\ crashes' \in 0..MaxCrashes
<1>1. worker[w] \in Worker
  BY DEF TypeOK
<1>2. Idle \in Worker
  BY DEF Idle, Worker
<1>3. ASSUME NEW step \in {"claimed", "creating", "created", "refused"}, Goes(w, step)
      PROVE  worker' \in [Workers -> Worker]
  <2>1. [worker[w] EXCEPT !.at = step] \in Worker
    BY <1>1 DEF Worker
  <2> QED
    BY <1>3, <2>1 DEF Goes, TypeOK
<1>4. ASSUME Ends(w)
      PROVE  worker' \in [Workers -> Worker]
  BY <1>2, <1>4 DEF Ends, TypeOK
<1>5. CASE Select(w)
  <2>1. PICK p \in Pairings :
          worker' = [worker EXCEPT ![w] = [at |-> "selected", pair |-> p, until |-> 0]]
    BY <1>5 DEF Select
  <2>2. [at |-> "selected", pair |-> p, until |-> 0] \in Worker
    BY DEF Worker
  <2> QED
    BY <1>5, <2>1, <2>2 DEF Select, TypeOK
<1>6. CASE Claim(w)
  <2> DEFINE until == now + ReservationTtl
  <2>1. until \in Nat
    BY PairingConstants DEF TypeOK
  <2>2. Ends(w) \/ worker' = [worker EXCEPT ![w].at = "claimed", ![w].until = until]
    BY <1>6 DEF Claim
  <2> HIDE DEF until
  <2>3. ASSUME worker' = [worker EXCEPT ![w].at = "claimed", ![w].until = until]
        PROVE  worker' \in [Workers -> Worker]
    <3> DEFINE next == [[worker[w] EXCEPT !.at = "claimed"] EXCEPT !.until = until]
    <3>1. worker' = [worker EXCEPT ![w] = next]
      BY <1>1, <2>3 DEF TypeOK, Worker
    <3>2. next \in Worker
      BY <1>1, <2>1 DEF Worker
    <3> HIDE DEF next
    <3> QED
      BY <3>1, <3>2 DEF TypeOK
  <2>4. crashes' \in 0..MaxCrashes
    BY <1>6 DEF Claim, TypeOK
  <2> QED
    BY <1>4, <2>2, <2>3, <2>4
<1>7. CASE BeginCreate(w)
  <2>1. Goes(w, "creating") \/ Goes(w, "refused")
    BY <1>7 DEF BeginCreate
  <2> QED
    BY <1>3, <1>7, <2>1 DEF BeginCreate, TypeOK
<1>8. CASE Refused(w)
  BY <1>3, <1>8, PairingConstants DEF Refused, TypeOK
<1>9. CASE CommitCreate(w)
  <2>1. Goes(w, "created") \/ Goes(w, "refused")
    BY <1>9 DEF CommitCreate
  <2> QED
    BY <1>3, <1>9, <2>1 DEF CommitCreate, TypeOK
<1>10. CASE Complete(w) \/ Release(w)
  BY <1>4, <1>10 DEF Complete, Release, TypeOK
<1>11. CASE CrashWorker(w)
  BY <1>4, <1>11, PairingConstants DEF CrashWorker, TypeOK
<1> QED
  BY <1>5, <1>6, <1>7, <1>8, <1>9, <1>10, <1>11 DEF Pair

LEMMA ReconTypes ==
  ASSUME TypeOK, NEW r \in Reconcilers, Reconcile(r)
  PROVE  /\ recon' \in [Reconcilers -> Recon]
         /\ owed' \in SUBSET Pairings
         /\ crashes' \in 0..MaxCrashes
<1>1. recon[r] \in Recon /\ Resting \in Recon
  BY DEF TypeOK, Resting, Recon
<1>2. CASE ExpireMatches(r)
  <2>1. [recon[r] EXCEPT !.at = "claim"] \in Recon
    BY <1>1 DEF Recon
  <2>2. Overdue \subseteq Pairings
    BY DEF Overdue
  <2> QED
    BY <1>2, <2>1, <2>2 DEF ExpireMatches, TypeOK
<1>3. CASE ClaimStale(r)
  <2>1. [at |-> "read", batch |-> Stale, found |-> {}] \in Recon
    BY DEF Recon, Stale
  <2> QED
    BY <1>1, <1>3, <2>1 DEF ClaimStale, TypeOK, gameVars
<1>4. CASE ReadSettlements(r)
  <2> DEFINE found == recon[r].batch \cap Seated
  <2>1. recon' = [recon EXCEPT ![r] = [[recon[r] EXCEPT !.at = "apply"]
                                                   EXCEPT !.found = found]]
    BY <1>1, <1>4 DEF ReadSettlements, TypeOK, Recon
  <2>2. found \subseteq Tickets
    BY <1>1 DEF Recon
  <2> HIDE DEF found
  <2>3. [[recon[r] EXCEPT !.at = "apply"] EXCEPT !.found = found] \in Recon
    BY <1>1, <2>2 DEF Recon
  <2> QED
    BY ZenonT(60), <1>4, <2>1, <2>3 DEF ReadSettlements, TypeOK, gameVars
<1>5. CASE Apply(r)
  BY <1>1, <1>5 DEF Apply, TypeOK, gameVars
<1>6. CASE CrashReconciler(r)
  BY <1>1, <1>6, PairingConstants DEF CrashReconciler, TypeOK, gameVars
<1> QED
  BY <1>2, <1>3, <1>4, <1>5, <1>6 DEF Reconcile

LEMMA StepType ==
  ASSUME TypeOK, [Next]_vars
  PROVE  TypeOK'
<1>1. Rows(ticket)
  BY DEF Rows, TypeOK
<1>2. now \in Nat
  BY DEF TypeOK
<1>3. Rows(ticket')
  BY <1>1, <1>2, TicketWriters, SettlingRows, EnteringRows
<1>4. match' \in [Pairings -> Match]
  BY MatchWriters DEF Kept
<1>5. SUFFICES /\ now' \in Nat /\ late' \in BOOLEAN /\ retaken' \in BOOLEAN
               /\ barred' \in [Players -> Nat] /\ owed' \in SUBSET Pairings
               /\ worker' \in [Workers -> Worker]
               /\ sweeping' \in [Sweepers -> SUBSET Tickets]
               /\ recon' \in [Reconcilers -> Recon]
               /\ crashes' \in 0..MaxCrashes
  BY <1>3, <1>4 DEF TypeOK, Rows
<1>6. CASE Tick
  BY <1>6 DEF Tick, TypeOK, gameVars, jobVars
<1>7. ASSUME NEW p \in Players, Queue(p)
      PROVE  UNCHANGED <<now, late, retaken, barred, owed, worker, sweeping, recon, crashes>>
  BY <1>7 DEF Queue, Join, Leave, gameVars, jobVars, history
<1>8. ASSUME NEW w \in Workers, Pair(w)
      PROVE  UNCHANGED <<now, late, barred, owed, sweeping, recon>> /\ retaken' \in BOOLEAN
  <2>1. CASE Claim(w)
    <3>1. retaken' \in BOOLEAN
      BY Zenon, <2>1 DEF Claim, TypeOK
    <3> QED
      BY <2>1, <3>1 DEF Claim, gameVars
  <2>2. CASE ~Claim(w)
    BY <1>8, <2>2 DEF Pair, Select, BeginCreate, Refused, CommitCreate, Complete, Release,
                      CrashWorker, gameVars, history, TypeOK
  <2> QED
    BY <2>1, <2>2
<1>9. ASSUME NEW s \in Sweepers, Sweep(s)
      PROVE  /\ UNCHANGED <<now, late, retaken, barred, owed, worker, recon>>
             /\ sweeping' \in [Sweepers -> SUBSET Tickets]
             /\ crashes' \in 0..MaxCrashes
  BY SMTT(60), <1>9, PairingConstants
     DEF Sweep, ClaimDue, ExpireDue, CrashSweeper, gameVars, history, TypeOK
<1>10. ASSUME NEW r \in Reconcilers, Reconcile(r)
       PROVE  UNCHANGED <<now, late, retaken, barred, worker, sweeping>>
  BY <1>10 DEF Reconcile, ExpireMatches, ClaimStale, ReadSettlements, Apply, CrashReconciler,
               gameVars, history
<1>11. ASSUME NEW p \in Pairings, ApplyPolicy(p) \/ PolicyInterrupted(p)
       PROVE  UNCHANGED <<now, late, retaken, worker, sweeping, recon>>
  BY <1>11 DEF ApplyPolicy, PolicyInterrupted, jobVars, history
<1>12. ASSUME NEW p \in Pairings, NEW t \in p, Accept(p, t) \/ Decline(p, t)
       PROVE  /\ UNCHANGED <<now, late, retaken, barred, worker, sweeping, recon, crashes>>
              /\ owed' \in SUBSET Pairings
  BY <1>12 DEF Accept, Decline, jobVars, history, TypeOK
<1>13. CASE UNCHANGED vars
  BY <1>13 DEF vars, gameVars, jobVars, history, TypeOK
<1>14. CASE \E p \in Players : Queue(p)
  BY <1>7, <1>14 DEF TypeOK
<1>15. CASE \E w \in Workers : Pair(w)
  BY <1>8, <1>15, WorkerTypes DEF TypeOK
<1>16. CASE \E s \in Sweepers : Sweep(s)
  BY <1>9, <1>16 DEF TypeOK
<1>17. CASE \E r \in Reconcilers : Reconcile(r)
  BY <1>10, <1>17, ReconTypes DEF TypeOK
<1>18. CASE \E p \in Pairings : Handshake(p)
  BY <1>11, <1>12, <1>18, PolicyTypes DEF Handshake, TypeOK
<1> QED
  BY <1>6, <1>13, <1>14, <1>15, <1>16, <1>17, <1>18 DEF Next

\* Every variable keeps its type, a ticket has a reservation deadline exactly
\* while it is reserved, and no player ever holds two live tickets, however
\* joins, requeues, scans and sweeps interleave.
THEOREM TypeCorrect == Spec => []TypeOK
BY InitType, StepType, PTL DEF Spec

-----------------------------------------------------------------------------
(* The life of a ticket *)

\* A ticket is resolved once, from where its writer expects it, whatever the
\* processes remember of it from an earlier transaction.
THEOREM TicketsResolveOnce == Spec => TicketLife
<1>1. ASSUME TypeOK, [Next]_vars, NEW t \in Tickets
      PROVE  /\ ticket[t].status \in {"matched", "cancelled", "expired"} => ticket'[t] = ticket[t]
             /\ ticket'[t].status = "matched" => ticket[t].status \in {"reserved", "matched"}
             /\ ticket'[t].status = "cancelled" => ticket[t].status \in {"waiting", "cancelled"}
             /\ ticket[t].status = "reserved" /\ ticket'[t].status = "reserved"
                  => ticket'[t].until = ticket[t].until
             /\ ticket[t].status # "none" => ticket'[t].expires = ticket[t].expires
  <2>1. CASE Settling(ticket, ticket')
    BY <2>1 DEF Settling, Moves
  <2>2. CASE Entering(ticket, ticket')
    <3>1. PICK s \in Tickets, source \in Tickets \cup {NoTicket} :
            ticket[s].status = "none" /\ ticket' = [ticket EXCEPT ![s] = Entered(source)]
      BY <2>2 DEF Entering
    <3>2. Entered(source).status = "waiting"
      BY DEF Entered
    <3>3. ticket'[s].status = "waiting" /\ \A u \in Tickets \ {s} : ticket'[u] = ticket[u]
      BY <1>1, <3>1, <3>2 DEF TypeOK
    <3> QED
      BY <3>1, <3>3
  <2> QED
    BY <1>1, <2>1, <2>2, TicketWriters
<1>2. TypeOK /\ [Next]_vars => [\A t \in Tickets :
       /\ ticket[t].status \in {"matched", "cancelled", "expired"} => ticket'[t] = ticket[t]
       /\ ticket'[t].status = "matched" => ticket[t].status \in {"reserved", "matched"}
       /\ ticket'[t].status = "cancelled" => ticket[t].status \in {"waiting", "cancelled"}
       /\ ticket[t].status = "reserved" /\ ticket'[t].status = "reserved"
            => ticket'[t].until = ticket[t].until
       /\ ticket[t].status # "none" => ticket'[t].expires = ticket[t].expires]_vars
  BY <1>1
<1> QED
  BY <1>2, TypeCorrect, PTL DEF Spec, TicketLife

-----------------------------------------------------------------------------
(* Matched tickets have a match *)

\* What `_transition` leaves in a ticket it wrote.
LEMMA MovedStatus ==
  ASSUME TypeOK, NEW S, NEW expected, NEW status \in TicketStatus, NEW until \in Nat,
         NEW t \in Tickets
  PROVE  \/ Moved(S, expected, status, until)[t] = ticket[t]
         \/ t \in S /\ Moved(S, expected, status, until)[t].status = status
<1>1. ticket[t] \in Ticket
  BY DEF TypeOK
<1>2. CASE ~(All(S, expected) /\ t \in S)
  BY <1>2 DEF Moved
<1>3. CASE All(S, expected) /\ t \in S
  <2>1. Moved(S, expected, status, until)[t] = Updated(ticket[t], status, until)
    BY <1>3 DEF Moved, Updated
  <2> QED
    BY <1>1, <1>3, <2>1, UpdatedFields
<1> QED
  BY <1>2, <1>3

\* Only a worker whose match was created and a reconciler that found one mark a
\* ticket matched.
LEMMA MatchedBy ==
  ASSUME TypeOK, [Next]_vars, NEW t \in Tickets,
         ~Has(t, "matched"), Has(t, "matched")'
  PROVE  \/ \E w \in Workers : At(w, "created") /\ t \in worker[w].pair
         \/ \E r \in Reconcilers : recon[r].at = "apply" /\ t \in recon[r].found
<1> USE DEF Has
<1>1. ticket'[t] # ticket[t]
  OBVIOUS
<1>2. {"waiting", "reserved", "matched", "cancelled", "expired"} \subseteq TicketStatus
  BY DEF TicketStatus
<1>3. ~Entering(ticket, ticket')
  <2> SUFFICES ASSUME NEW s \in Tickets, NEW source \in Tickets \cup {NoTicket},
                      ticket' = [ticket EXCEPT ![s] = Entered(source)]
               PROVE  FALSE
    BY DEF Entering
  <2>1. Entered(source).status = "waiting"
    BY DEF Entered
  <2> QED
    BY <1>1, <2>1 DEF TypeOK
<1>4. ASSUME NEW p \in Players, Queue(p)
      PROVE  FALSE
  <2>1. CASE Join(p)
    <3>1. PICK s \in Unused(p) : ticket' = [ticket EXCEPT ![s] = Entered(NoTicket)]
      BY <2>1 DEF Join
    <3>2. Admits(p, NoTicket)
      BY <2>1 DEF Join
    <3> QED
      BY <1>3, <3>1, <3>2, AdmittedEnters
  <2>2. CASE Leave(p)
    <3>1. PICK s \in Tickets : ticket' = Moved({s}, "waiting", "cancelled", 0)
      BY <2>2 DEF Leave
    <3> QED
      BY <1>1, <1>2, <3>1, MovedStatus
  <2> QED
    BY <1>4, <2>1, <2>2 DEF Queue
<1>5. ASSUME NEW w \in Workers, Pair(w)
      PROVE  At(w, "created") /\ t \in worker[w].pair
  <2>1. CASE Claim(w)
    <3>1. now + ReservationTtl \in Nat
      BY PairingConstants DEF TypeOK
    <3>2. ticket' = Moved(worker[w].pair, "waiting", "reserved", now + ReservationTtl)
      BY <1>1, <2>1 DEF Claim
    <3> QED
      BY <1>1, <1>2, <3>1, <3>2, MovedStatus
  <2>2. CASE Complete(w)
    <3>1. ticket' = Moved(worker[w].pair, "reserved", "matched", 0) /\ At(w, "created")
      BY <2>2 DEF Complete
    <3> QED
      BY <1>1, <1>2, <3>1, MovedStatus
  <2>3. CASE Release(w)
    <3>1. ticket' = Moved(worker[w].pair, "reserved", "waiting", 0)
      BY <2>3 DEF Release
    <3> QED
      BY <1>1, <1>2, <3>1, MovedStatus
  <2>4. CASE Select(w) \/ BeginCreate(w) \/ Refused(w) \/ CommitCreate(w) \/ CrashWorker(w)
    BY <1>1, <2>4 DEF Select, BeginCreate, Refused, CommitCreate, CrashWorker
  <2> QED
    BY <1>5, <2>1, <2>2, <2>3, <2>4 DEF Pair
<1>6. ASSUME NEW s \in Sweepers, Sweep(s)
      PROVE  FALSE
  <2>1. CASE ExpireDue(s)
    <3>1. ticket' = Expired(sweeping[s]) /\ ticket[t] \in Ticket
      BY <2>1 DEF ExpireDue, TypeOK
    <3>2. ticket'[t] = Updated(ticket[t], "expired", 0)
      BY <1>1, <3>1 DEF Expired, Updated
    <3> QED
      BY <1>2, <3>1, <3>2, UpdatedFields
  <2>2. CASE ClaimDue(s) \/ CrashSweeper(s)
    BY <1>1, <2>2 DEF ClaimDue, CrashSweeper
  <2> QED
    BY <1>6, <2>1, <2>2 DEF Sweep
<1>7. ASSUME NEW r \in Reconcilers, Reconcile(r)
      PROVE  recon[r].at = "apply" /\ t \in recon[r].found
  <2>1. CASE Apply(r)
    <3> SUFFICES ASSUME t \notin recon[r].found
                 PROVE  FALSE
      BY ZenonT(60), <2>1 DEF Apply
    <3>1. /\ ticket[t] \in Ticket
          /\ \/ ticket'[t] = ticket[t]
             \/ ticket'[t] = Updated(ticket[t], "waiting", 0)
             \/ ticket'[t] = Updated(ticket[t], "expired", 0)
      BY <2>1 DEF Apply, Updated, TypeOK
    <3> QED
      BY SMTT(60), <1>1, <1>2, <3>1, UpdatedFields
  <2>2. CASE ExpireMatches(r) \/ ClaimStale(r) \/ ReadSettlements(r) \/ CrashReconciler(r)
    BY <1>1, <2>2 DEF ExpireMatches, ClaimStale, ReadSettlements, CrashReconciler
  <2> QED
    BY <1>7, <2>1, <2>2 DEF Reconcile
<1>8. ASSUME NEW p \in Pairings, Handshake(p)
      PROVE  FALSE
  <2>1. CASE ApplyPolicy(p) \/ PolicyInterrupted(p)
    <3>1. RequeueAll(p)
      BY <2>1 DEF ApplyPolicy, PolicyInterrupted
    <3> QED
      BY <1>1, <1>3, <3>1, RequeueEnters
  <2>2. CASE \E s \in p : Accept(p, s) \/ Decline(p, s)
    BY <1>1, <2>2 DEF Accept, Decline
  <2> QED
    BY <1>8, <2>1, <2>2 DEF Handshake
<1>9. CASE Tick \/ UNCHANGED vars
  BY <1>1, <1>9 DEF Tick, vars
<1> QED
  BY <1>4, <1>5, <1>6, <1>7, <1>8, <1>9 DEF Next

\* MatchedHasMatch is not inductive: it rests on what a worker and a reconciler
\* learnt of `game` in an earlier transaction, which stays true because no match
\* is ever forgotten.
SettledInv ==
  /\ MatchedHasMatch
  /\ \A w \in Workers : ~At(w, "idle") => worker[w].pair \in Pairings
  /\ \A w \in Workers : At(w, "created") => match[worker[w].pair].status # "none"
  /\ \A r \in Reconcilers : recon[r].at = "apply" => recon[r].found \subseteq Seated

LEMMA SeatedGrows ==
  ASSUME Kept(match, match')
  PROVE  Seated \subseteq Seated'
BY DEF Kept, Seated

\* A worker knows which pair it is pairing, and that its match was created.
LEMMA StepWorkers ==
  ASSUME TypeOK, SettledInv, [Next]_vars, NEW w \in Workers
  PROVE  /\ ~At(w, "idle")' => worker'[w].pair \in Pairings
         /\ At(w, "created")' => match'[worker'[w].pair].status # "none"
<1> USE DEF At
<1>1. Kept(match, match')
  BY MatchWriters
<1>2. ASSUME worker'[w] = worker[w]
      PROVE  /\ ~At(w, "idle")' => worker'[w].pair \in Pairings
             /\ At(w, "created")' => match'[worker'[w].pair].status # "none"
  BY <1>1, <1>2 DEF SettledInv, Kept
<1>3. worker[w] \in Worker /\ Idle.at = "idle"
  BY DEF TypeOK, Idle
<1>4. ASSUME NEW v \in Workers, Pair(v), v # w
      PROVE  worker'[w] = worker[w]
  BY <1>4 DEF TypeOK, Pair, Select, Claim, BeginCreate, Refused, CommitCreate, Complete, Release,
              CrashWorker, Goes, Ends
<1>5. ASSUME NEW step \in {"claimed", "creating", "created", "refused"}, Goes(w, step)
      PROVE  worker'[w].at = step /\ worker'[w].pair = worker[w].pair
  BY <1>3, <1>5 DEF Goes, TypeOK, Worker
<1>6. ASSUME Ends(w)
      PROVE  At(w, "idle")'
  BY <1>3, <1>6 DEF Ends, TypeOK
<1>7. CASE Select(w)
  <2>1. PICK p \in Pairings :
          worker' = [worker EXCEPT ![w] = [at |-> "selected", pair |-> p, until |-> 0]]
    BY <1>7 DEF Select
  <2> QED
    BY <2>1 DEF TypeOK
<1>8. CASE Claim(w)
  <2> DEFINE until == now + ReservationTtl
  <2>1. At(w, "selected")
    BY <1>8 DEF Claim
  <2>2. Ends(w) \/ worker' = [worker EXCEPT ![w].at = "claimed", ![w].until = until]
    BY <1>8 DEF Claim
  <2> HIDE DEF until
  <2>3. ASSUME worker' = [worker EXCEPT ![w].at = "claimed", ![w].until = until]
        PROVE  worker'[w].at = "claimed" /\ worker'[w].pair = worker[w].pair
    BY <1>3, <2>3 DEF TypeOK, Worker
  <2> QED
    BY <1>6, <2>1, <2>2, <2>3 DEF SettledInv
<1>9. CASE BeginCreate(w) \/ Refused(w)
  <2>1. ~At(w, "idle") /\ (Goes(w, "creating") \/ Goes(w, "refused"))
    BY <1>9 DEF BeginCreate, Refused
  <2> QED
    BY <1>5, <2>1 DEF SettledInv
<1>10. CASE CommitCreate(w)
  <2> DEFINE p == worker[w].pair
             m == [NoMatch EXCEPT !.status = "pending_acceptance", !.deadline = worker[w].until]
  <2>1. p \in Pairings
    BY <1>10 DEF CommitCreate, SettledInv
  <2>2. m.status = "pending_acceptance"
    BY DEF NoMatch
  <2>3. \/ Goes(w, "refused")
        \/ Goes(w, "created") /\ match[p].status # "none"
        \/ Goes(w, "created") /\ match' = [match EXCEPT ![p] = m]
    BY <1>10 DEF CommitCreate
  <2> HIDE DEF m
  <2>4. CASE Goes(w, "refused")
    BY <1>5, <2>1, <2>4
  <2>5. CASE Goes(w, "created") /\ match[p].status # "none"
    BY <1>1, <1>5, <2>1, <2>5 DEF Kept
  <2>6. CASE Goes(w, "created") /\ match' = [match EXCEPT ![p] = m]
    BY <1>5, <2>1, <2>2, <2>6 DEF TypeOK
  <2> QED
    BY <2>3, <2>4, <2>5, <2>6
<1>11. CASE Complete(w) \/ Release(w) \/ CrashWorker(w)
  BY <1>6, <1>11 DEF Complete, Release, CrashWorker
<1>12. ASSUME NEW p \in Players, Queue(p)
       PROVE  worker' = worker
  BY <1>12 DEF Queue, Join, Leave, jobVars
<1>13. ASSUME NEW s \in Sweepers, Sweep(s)
       PROVE  worker' = worker
  BY SMTT(60), <1>13 DEF Sweep, ClaimDue, ExpireDue, CrashSweeper
<1>14. ASSUME NEW r \in Reconcilers, Reconcile(r)
       PROVE  worker' = worker
  BY <1>14 DEF Reconcile, ExpireMatches, ClaimStale, ReadSettlements, Apply, CrashReconciler
<1>15. ASSUME NEW p \in Pairings, Handshake(p)
       PROVE  worker' = worker
  BY <1>15 DEF Handshake, ApplyPolicy, PolicyInterrupted, Accept, Decline, jobVars
<1>16. CASE Tick \/ UNCHANGED vars
  BY <1>2, <1>16 DEF Tick, vars, jobVars
<1> QED
  BY <1>2, <1>4, <1>7, <1>8, <1>9, <1>10, <1>11, <1>12, <1>13, <1>14, <1>15, <1>16 DEF Next, Pair

\* What a reconciler found in `game` is still there.
LEMMA StepFound ==
  ASSUME TypeOK, SettledInv, [Next]_vars, NEW r \in Reconcilers, recon'[r].at = "apply"
  PROVE  recon'[r].found \subseteq Seated'
<1>1. Seated \subseteq Seated'
  BY MatchWriters, SeatedGrows
<1>2. ASSUME recon'[r] = recon[r]
      PROVE  recon'[r].found \subseteq Seated'
  BY <1>1, <1>2 DEF SettledInv
<1>3. recon[r] \in Recon
  BY DEF TypeOK
<1>4. ASSUME NEW q \in Reconcilers, Reconcile(q), q # r
      PROVE  recon'[r] = recon[r]
  BY <1>4 DEF TypeOK, Reconcile, ExpireMatches, ClaimStale, ReadSettlements, Apply,
              CrashReconciler
<1>5. CASE ReadSettlements(r)
  <2> DEFINE found == recon[r].batch \cap Seated
  <2>1. recon' = [recon EXCEPT ![r].at = "apply", ![r].found = found]
    BY <1>5 DEF ReadSettlements
  <2>2. found \subseteq Seated
    OBVIOUS
  <2> HIDE DEF found
  <2>3. recon'[r].found = found
    BY <1>3, <2>1 DEF TypeOK, Recon
  <2> QED
    BY <1>1, <2>2, <2>3
<1>6. ASSUME ExpireMatches(r)
      PROVE  FALSE
  <2>1. recon'[r].at = "claim"
    BY <1>3, <1>6 DEF ExpireMatches, TypeOK, Recon
  <2> QED
    BY <2>1
<1>7. ASSUME ClaimStale(r)
      PROVE  FALSE
  <2>1. recon' = [recon EXCEPT ![r] = Resting]
        \/ recon' = [recon EXCEPT ![r] = [at |-> "read", batch |-> Stale, found |-> {}]]
    BY <1>7 DEF ClaimStale
  <2>2. recon'[r].at \in {"idle", "read"}
    BY <2>1 DEF TypeOK, Resting
  <2> QED
    BY <2>2
<1>8. ASSUME Apply(r) \/ CrashReconciler(r)
      PROVE  FALSE
  <2>1. recon' = [recon EXCEPT ![r] = Resting]
    BY <1>8 DEF Apply, CrashReconciler
  <2>2. recon'[r].at = "idle"
    BY <2>1 DEF TypeOK, Resting
  <2> QED
    BY <2>2
<1>9. ASSUME NEW p \in Players, Queue(p)
      PROVE  recon' = recon
  BY <1>9 DEF Queue, Join, Leave, jobVars
<1>10. ASSUME NEW w \in Workers, Pair(w)
       PROVE  recon' = recon
  BY <1>10 DEF Pair, Select, Claim, BeginCreate, Refused, CommitCreate, Complete, Release,
               CrashWorker
<1>11. ASSUME NEW s \in Sweepers, Sweep(s)
       PROVE  recon' = recon
  BY <1>11 DEF Sweep, ClaimDue, ExpireDue, CrashSweeper
<1>12. ASSUME NEW p \in Pairings, Handshake(p)
       PROVE  recon' = recon
  BY <1>12 DEF Handshake, ApplyPolicy, PolicyInterrupted, Accept, Decline, jobVars
<1>13. CASE Tick \/ UNCHANGED vars
  BY <1>2, <1>13 DEF Tick, vars, jobVars
<1> QED
  BY <1>2, <1>4, <1>5, <1>6, <1>7, <1>8, <1>9, <1>10, <1>11, <1>12, <1>13 DEF Next, Reconcile

LEMMA StepSettled ==
  ASSUME TypeOK, SettledInv, [Next]_vars
  PROVE  SettledInv'
<1>1. Seated \subseteq Seated'
  BY MatchWriters, SeatedGrows
<1>2. ASSUME NEW t \in Tickets, Has(t, "matched")'
      PROVE  t \in Seated'
  <2>1. CASE Has(t, "matched")
    BY <1>1, <2>1 DEF SettledInv, MatchedHasMatch
  <2>2. CASE \E w \in Workers : At(w, "created") /\ t \in worker[w].pair
    <3>1. PICK w \in Workers : At(w, "created") /\ t \in worker[w].pair
      BY <2>2
    <3>2. worker[w].pair \in Pairings /\ match[worker[w].pair].status # "none"
      BY <3>1 DEF SettledInv, At
    <3> QED
      BY <1>1, <3>1, <3>2 DEF Seated
  <2>3. CASE \E r \in Reconcilers : recon[r].at = "apply" /\ t \in recon[r].found
    BY <1>1, <2>3 DEF SettledInv
  <2> QED
    BY <1>2, <2>1, <2>2, <2>3, MatchedBy
<1> QED
  BY <1>2, StepWorkers, StepFound DEF SettledInv, MatchedHasMatch

LEMMA InitSettled == Init => SettledInv
<1> SUFFICES ASSUME Init
             PROVE  SettledInv
  OBVIOUS
<1>1. \A t \in Tickets : ~Has(t, "matched")
  BY DEF Init, NotEntered, Has
<1>2. \A w \in Workers : At(w, "idle") /\ ~At(w, "created")
  BY DEF Init, Idle, At
<1>3. \A r \in Reconcilers : recon[r].at # "apply"
  BY DEF Init, Resting
<1> QED
  BY <1>1, <1>2, <1>3 DEF SettledInv, MatchedHasMatch

\* A ticket is marked matched only for a match that was committed, however many
\* workers and reconcilers settle it and however late they do.
THEOREM MatchedTicketsHaveMatches == Spec => []MatchedHasMatch
<1>1. TypeOK /\ SettledInv /\ [Next]_vars => TypeOK' /\ SettledInv'
  BY StepType, StepSettled
<1>2. SettledInv => MatchedHasMatch
  BY DEF SettledInv
<1> QED
  BY <1>1, <1>2, InitType, InitSettled, PTL DEF Spec

-----------------------------------------------------------------------------
(* Requeues follow a failure *)

\* The outbox owes the policy only failed handshakes, and a failed handshake
\* stays failed.
OwedInv ==
  /\ RequeuesFollowAFailure
  /\ \A p \in owed : match[p].status \in {"cancelled", "expired"}

Failed(t) == \E p \in Pairings : /\ t \in match[p].accepted
                                 /\ match[p].status \in {"cancelled", "expired"}

LEMMA FailedStays ==
  ASSUME TypeOK, [Next]_vars, NEW t, Failed(t)
  PROVE  Failed(t)'
BY MatchWriters DEF Failed, Kept

\* A match enters `owed` as it fails.
LEMMA StepOwed ==
  ASSUME TypeOK, [Next]_vars, NEW p \in owed',
         \A q \in owed : match[q].status \in {"cancelled", "expired"}
  PROVE  match'[p].status \in {"cancelled", "expired"}
<1>1. Kept(match, match')
  BY MatchWriters
<1>2. owed \subseteq Pairings
  BY DEF TypeOK
<1>3. CASE p \in owed
  BY <1>1, <1>2, <1>3 DEF Kept
<1>4. ASSUME owed' = owed
      PROVE  p \in owed
  BY <1>4
<1>5. ASSUME NEW q \in Players, Queue(q)
      PROVE  owed' = owed
  BY <1>5 DEF Queue, Join, Leave, gameVars
<1>6. ASSUME NEW w \in Workers, Pair(w)
      PROVE  owed' = owed
  BY <1>6 DEF Pair, Select, Claim, BeginCreate, Refused, CommitCreate, Complete, Release,
              CrashWorker, gameVars
<1>7. ASSUME NEW s \in Sweepers, Sweep(s)
      PROVE  owed' = owed
  BY <1>7 DEF Sweep, ClaimDue, ExpireDue, CrashSweeper, gameVars
<1>8. ASSUME NEW r \in Reconcilers, Reconcile(r), p \notin owed
      PROVE  match'[p].status \in {"cancelled", "expired"}
  <2>1. ASSUME ~ExpireMatches(r)
        PROVE  owed' = owed
    BY <1>8, <2>1 DEF Reconcile, ClaimStale, ReadSettlements, Apply, CrashReconciler, gameVars
  <2>2. ExpireMatches(r)
    BY <1>4, <1>8, <2>1
  <2>3. p \in Overdue /\ p \in Pairings /\ match[p] \in Match
    BY <1>8, <2>2 DEF ExpireMatches, Overdue, TypeOK
  <2>4. match'[p] = [match[p] EXCEPT !.status = "expired"]
    BY <2>2, <2>3 DEF ExpireMatches
  <2> QED
    BY SMTT(60), <2>3, <2>4 DEF Match
<1>9. ASSUME NEW q \in Pairings, Handshake(q), p \notin owed
      PROVE  match'[p].status \in {"cancelled", "expired"}
  <2>1. ASSUME NEW t \in q, Decline(q, t)
        PROVE  match'[p].status \in {"cancelled", "expired"}
    <3>1. p = q /\ match[p] \in Match
      BY <1>9, <2>1 DEF Decline, TypeOK
    <3>2. match' = [match EXCEPT ![p] = [[match[p] EXCEPT !.status = "cancelled"]
                                                   EXCEPT !.decliner = t]]
      BY <2>1, <3>1 DEF Decline, TypeOK, Match
    <3>3. [[match[p] EXCEPT !.status = "cancelled"] EXCEPT !.decliner = t].status = "cancelled"
      BY <3>1 DEF Match
    <3> QED
      BY <1>9, <3>1, <3>2, <3>3 DEF TypeOK
  <2>2. ASSUME ApplyPolicy(q) \/ PolicyInterrupted(q) \/ \E t \in q : Accept(q, t)
        PROVE  owed' \subseteq owed
    BY <2>2 DEF ApplyPolicy, PolicyInterrupted, Accept
  <2> QED
    BY <1>9, <2>1, <2>2 DEF Handshake
<1>10. CASE Tick \/ UNCHANGED vars
  BY <1>3, <1>4, <1>10 DEF Tick, vars, gameVars
<1> QED
  BY <1>3, <1>4, <1>5, <1>6, <1>7, <1>8, <1>9, <1>10 DEF Next

\* A ticket that enters with a source is a requeue the policy owed.
LEMMA EnteredOwed ==
  ASSUME TypeOK, OwedInv, [Next]_vars,
         NEW s \in Tickets, ticket'[s].source # NoTicket, ~Settling(ticket, ticket')
  PROVE  \/ ticket'[s] = ticket[s]
         \/ LET t == ticket'[s].source IN
            t \in Tickets /\ Has(t, "matched") /\ OwnerOf[s] = OwnerOf[t] /\ Failed(t)
<1>1. ticket' # ticket
  BY DEF Settling, TypeOK
<1>2. ASSUME NEW p \in Players, Queue(p)
      PROVE  ticket'[s] = ticket[s]
  <2>1. CASE Join(p)
    <3>1. PICK t \in Unused(p) : ticket' = [ticket EXCEPT ![t] = Entered(NoTicket)]
      BY <2>1 DEF Join
    <3>2. Entered(NoTicket).source = NoTicket
      BY DEF Entered
    <3> QED
      BY <3>1, <3>2 DEF TypeOK
  <2>2. CASE Leave(p)
    <3>1. PICK t \in Tickets : ticket' = Moved({t}, "waiting", "cancelled", 0)
      BY <2>2 DEF Leave
    <3> QED
      BY <3>1, MovedSettles
  <2> QED
    BY <1>2, <2>1, <2>2 DEF Queue
<1>3. ASSUME NEW p \in Pairings, Handshake(p)
      PROVE  \/ ticket'[s] = ticket[s]
             \/ LET t == ticket'[s].source IN
                t \in Tickets /\ Has(t, "matched") /\ OwnerOf[s] = OwnerOf[t] /\ Failed(t)
  <2>1. p \in owed /\ RequeueAll(p)
    BY <1>1, <1>3 DEF Handshake, Accept, Decline, ApplyPolicy, PolicyInterrupted
  <2>2. PICK t \in match[p].accepted : Requeue(t)
    BY <1>1, <2>1 DEF RequeueAll
  <2>3. Restores(t)
    BY <1>1, <2>2 DEF Requeue
  <2>4. PICK u \in Unused(OwnerOf[t]) : ticket' = [ticket EXCEPT ![u] = Entered(t)]
    BY <2>2, <2>3 DEF Requeue
  <2>5. t \in Tickets /\ Has(t, "matched") /\ Failed(t)
    BY <2>1, <2>2, <2>3 DEF Restores, Failed, OwedInv, TypeOK, Match
  <2>6. Entered(t).source = t
    BY DEF Entered
  <2>7. CASE s # u
    BY <2>4, <2>7 DEF TypeOK
  <2>8. CASE s = u
    <3>1. ticket'[s] = Entered(t) /\ OwnerOf[s] = OwnerOf[t]
      BY <2>4, <2>8 DEF TypeOK, Unused
    <3> QED
      BY <2>5, <2>6, <3>1
  <2> QED
    BY <2>7, <2>8
<1>4. ~Job
  BY JobsSettle
<1> QED
  BY <1>2, <1>3, <1>4 DEF Next, Job

LEMMA StepOwedInv ==
  ASSUME TypeOK, OwedInv, [Next]_vars
  PROVE  OwedInv'
<1>1. ASSUME NEW s \in Tickets, ticket'[s].source # NoTicket
      PROVE  LET t == ticket'[s].source IN
             t \in Tickets /\ Has(t, "matched") /\ OwnerOf[s] = OwnerOf[t] /\ Failed(t)
  <2>1. ticket[s] \in Ticket
    BY DEF TypeOK
  <2>2. ASSUME ticket'[s].source = ticket[s].source
        PROVE  LET t == ticket'[s].source IN
               t \in Tickets /\ Has(t, "matched") /\ OwnerOf[s] = OwnerOf[t] /\ Failed(t)
    BY <1>1, <2>1, <2>2 DEF OwedInv, RequeuesFollowAFailure, Failed, Ticket
  <2>3. CASE Settling(ticket, ticket')
    BY <2>2, <2>3 DEF Settling, Moves
  <2>4. CASE ~Settling(ticket, ticket')
    BY <1>1, <2>2, <2>4, EnteredOwed
  <2> QED
    BY <2>3, <2>4
<1>2. ASSUME NEW t \in Tickets, Has(t, "matched")
      PROVE  Has(t, "matched")'
  <2>1. CASE Settling(ticket, ticket')
    BY <1>2, <2>1 DEF Settling, Moves, Has
  <2>2. CASE Entering(ticket, ticket')
    BY <1>2, <2>2 DEF Entering, Has, TypeOK
  <2> QED
    BY <2>1, <2>2, TicketWriters
<1>3. ASSUME NEW s \in Tickets, NEW t, t = ticket'[s].source, t # NoTicket
      PROVE  Has(t, "matched")' /\ OwnerOf[s] = OwnerOf[t] /\ Failed(t)'
  <2>1. t \in Tickets /\ Has(t, "matched") /\ OwnerOf[s] = OwnerOf[t] /\ Failed(t)
    BY <1>1, <1>3
  <2> QED
    BY <1>2, <2>1, FailedStays
<1>4. \A p \in owed' : match'[p].status \in {"cancelled", "expired"}
  BY StepOwed DEF OwedInv
<1>5. RequeuesFollowAFailure'
  BY <1>3 DEF RequeuesFollowAFailure, Has, Failed
<1> QED
  BY <1>4, <1>5 DEF OwedInv

\* A place in the queue is given back only to the owner of a matched ticket whose
\* match they accepted and which then failed, whatever is redelivered.
THEOREM RequeuesFollowFailures == Spec => []RequeuesFollowAFailure
<1>1. Init => OwedInv
  <2> SUFFICES ASSUME Init
               PROVE  OwedInv
    OBVIOUS
  <2>1. \A s \in Tickets : ticket[s].source = NoTicket
    BY DEF Init, NotEntered
  <2> QED
    BY <2>1 DEF Init, OwedInv, RequeuesFollowAFailure
<1>2. TypeOK /\ OwedInv /\ [Next]_vars => TypeOK' /\ OwedInv'
  BY StepType, StepOwedInv
<1>3. OwedInv => RequeuesFollowAFailure
  BY DEF OwedInv
<1> QED
  BY <1>1, <1>2, <1>3, InitType, PTL DEF Spec

-----------------------------------------------------------------------------
(* One match for each ticket *)

Held(t) == \E w \in Workers : Busy(w) /\ t \in worker[w].pair
Fresh == {"none", "waiting", "cancelled"}

\* NoSecondMatch is not inductive: it rests on who may still write a ticket.
\* While no pairing outlasted its reservation, and no ticket was reserved again
\* under a reconciler, a worker between its claim and its last transaction holds
\* both its tickets alone; only a sweep can take them, and no match was created of
\* them before it created one ...
WorkersHold ==
  \A w \in Workers : Busy(w) =>
    /\ now < worker[w].until
    /\ \A t \in worker[w].pair :
         \/ Has(t, "expired")
         \/ Has(t, "reserved") /\ ticket[t].until = worker[w].until
    /\ At(w, "created") \/ worker[w].pair \cap Seated = {}

HeldOnce ==
  \A v, w \in Workers :
    v # w /\ Busy(v) /\ Busy(w) => worker[v].pair \cap worker[w].pair = {}

\* ... and what a reconciler claimed no worker holds, nor will a worker create a
\* match of what it found without one, whatever other reconcilers made of it.
ReconHolds ==
  \A r \in Reconcilers :
    /\ recon[r].found \subseteq recon[r].batch
    /\ \A t \in recon[r].batch :
         /\ ~Held(t)
         /\ recon[r].at = "apply" /\ t \notin recon[r].found => t \notin Seated

FreshUnseated == \A t \in Tickets : ticket[t].status \in Fresh => t \notin Seated

OneMatch ==
  \A p, q \in Pairings :
    match[p].status # "none" /\ match[q].status # "none" /\ p \cap q # {} => p = q

Holding == WorkersHold /\ HeldOnce /\ ReconHolds /\ FreshUnseated /\ OneMatch

\* A ticket that waits, or was never entered, or left, is nobody's.
LEMMA FreshFree ==
  ASSUME Holding, NEW t \in Tickets, ticket[t].status \in Fresh
  PROVE  ~Held(t) /\ t \notin Seated
<1>1. ~Has(t, "expired") /\ ~Has(t, "reserved")
  BY DEF Has, Fresh
<1>2. ~Held(t)
  BY <1>1 DEF Holding, WorkersHold, Held
<1> QED
  BY <1>2 DEF Holding, FreshUnseated

\* A step that gives nobody a ticket, creates no match, and moves only tickets
\* that are nobody's afterwards (or expires them), keeps what is held.
Releases ==
  /\ now' = now
  /\ \A w \in Workers : Busy(w)' =>
       /\ Busy(w)
       /\ worker'[w].pair = worker[w].pair /\ worker'[w].until = worker[w].until
       /\ At(w, "created") => At(w, "created")'
  /\ \A r \in Reconcilers :
       /\ recon'[r].found \subseteq recon'[r].batch
       /\ \A t \in recon'[r].batch :
            /\ t \in recon[r].batch
            /\ recon'[r].at = "apply" /\ t \notin recon'[r].found => t \notin Seated
  /\ \A t \in Tickets :
       \/ ticket'[t] = ticket[t]
       \/ ticket'[t].status = "expired"
       \/ /\ ~Held(t)'
          /\ ticket'[t].status \in Fresh => t \notin Seated
  /\ \A p \in Pairings : (match[p].status = "none") <=> (match'[p].status = "none")

LEMMA SeatedSame ==
  ASSUME \A p \in Pairings : (match[p].status = "none") <=> (match'[p].status = "none")
  PROVE  Seated' = Seated
BY DEF Seated

LEMMA ReleasesHold ==
  ASSUME TypeOK, SettledInv, Holding, Releases
  PROVE  Holding'
<1> USE DEF Has
<1>1. Seated' = Seated
  BY SeatedSame DEF Releases
<1>2. \A w \in Workers : Busy(w) => worker[w].pair \subseteq Tickets
  <2>1. \A w \in Workers : Busy(w) => worker[w].pair \in Pairings
    BY DEF SettledInv, Busy, At
  <2> QED
    BY <2>1, PairingTickets
<1>4. WorkersHold'
  <2> SUFFICES ASSUME NEW w \in Workers, Busy(w)'
               PROVE  /\ now' < worker'[w].until
                      /\ \A t \in worker'[w].pair :
                           \/ ticket'[t].status = "expired"
                           \/ /\ ticket'[t].status = "reserved"
                              /\ ticket'[t].until = worker'[w].until
                      /\ At(w, "created")' \/ worker'[w].pair \cap Seated' = {}
    BY DEF WorkersHold
  <2>1. /\ Busy(w) /\ now' = now
        /\ worker'[w].pair = worker[w].pair /\ worker'[w].until = worker[w].until
        /\ At(w, "created") => At(w, "created")'
    BY DEF Releases
  <2>2. ASSUME NEW t \in worker[w].pair
        PROVE  ticket'[t] = ticket[t] \/ ticket'[t].status = "expired"
    <3>1. t \in Tickets /\ Held(t)'
      BY <1>2, <2>1, <2>2 DEF Held
    <3> QED
      BY <3>1 DEF Releases
  <2> QED
    BY <1>1, <2>1, <2>2 DEF Holding, WorkersHold
<1>5. HeldOnce'
  BY DEF Holding, HeldOnce, Releases
<1>6. ReconHolds'
  <2> SUFFICES ASSUME NEW r \in Reconcilers
               PROVE  /\ recon'[r].found \subseteq recon'[r].batch
                      /\ \A t \in recon'[r].batch :
                           /\ ~Held(t)'
                           /\ recon'[r].at = "apply" /\ t \notin recon'[r].found
                                => t \notin Seated'
    BY DEF ReconHolds
  <2>1. /\ recon'[r].found \subseteq recon'[r].batch
        /\ \A t \in recon'[r].batch :
            /\ t \in recon[r].batch
            /\ recon'[r].at = "apply" /\ t \notin recon'[r].found => t \notin Seated
    BY DEF Releases
  <2>2. ASSUME NEW t \in recon'[r].batch
        PROVE  ~Held(t)'
    <3>1. ~Held(t)
      BY <2>1, <2>2 DEF Holding, ReconHolds
    <3> QED
      BY <3>1 DEF Held, Releases
  <2> QED
    BY <1>1, <2>1, <2>2
<1>7. FreshUnseated'
  <2> SUFFICES ASSUME NEW t \in Tickets, ticket'[t].status \in Fresh
               PROVE  t \notin Seated
    BY <1>1 DEF FreshUnseated
  <2>1. ticket'[t].status # "expired"
    BY DEF Fresh
  <2> QED
    BY <2>1 DEF Releases, Holding, FreshUnseated
<1>8. OneMatch'
  BY DEF Holding, OneMatch, Releases
<1> QED
  BY <1>4, <1>5, <1>6, <1>7, <1>8 DEF Holding

\* The parts of Releases that a step which leaves a variable alone has at once.
LEMMA SameWorkers ==
  ASSUME worker' = worker
  PROVE  /\ \A w \in Workers : Busy(w)' =>
              /\ Busy(w)
              /\ worker'[w].pair = worker[w].pair /\ worker'[w].until = worker[w].until
              /\ At(w, "created") => At(w, "created")'
         /\ \A t : Held(t)' <=> Held(t)
BY DEF Busy, At, Held

LEMMA SameRecon ==
  ASSUME Holding, recon' = recon
  PROVE  \A r \in Reconcilers :
           /\ recon'[r].found \subseteq recon'[r].batch
           /\ \A t \in recon'[r].batch :
                /\ t \in recon[r].batch
                /\ recon'[r].at = "apply" /\ t \notin recon'[r].found => t \notin Seated
BY DEF Holding, ReconHolds

\* A step of the queue or of the handshake: it moves only tickets nobody holds,
\* to where nobody holds them.
LEMMA FreshMoves ==
  ASSUME TypeOK, Holding, UNCHANGED <<now, worker, recon>>,
         \A p \in Pairings : (match[p].status = "none") <=> (match'[p].status = "none"),
         \A t \in Tickets : ticket'[t] = ticket[t] \/ ticket[t].status \in Fresh
  PROVE  Releases
<1>1. ASSUME NEW t \in Tickets, ticket'[t] # ticket[t]
      PROVE  ~Held(t)' /\ t \notin Seated
  BY <1>1, FreshFree, SameWorkers
<1> QED
  BY <1>1, SameWorkers, SameRecon DEF Releases

LEMMA EnteringFresh ==
  ASSUME TypeOK, Entering(ticket, ticket')
  PROVE  \A t \in Tickets : ticket'[t] = ticket[t] \/ ticket[t].status \in Fresh
BY DEF Entering, TypeOK, Fresh

LEMMA QueueReleases ==
  ASSUME TypeOK, Holding, NEW p \in Players, Queue(p)
  PROVE  Releases
<1>1. UNCHANGED <<now, worker, recon, match>>
  BY DEF Queue, Join, Leave, gameVars, jobVars
<1>2. \A t \in Tickets : ticket'[t] = ticket[t] \/ ticket[t].status \in Fresh
  <2>1. CASE Join(p)
    <3>1. PICK t \in Unused(p) : ticket' = [ticket EXCEPT ![t] = Entered(NoTicket)]
      BY <2>1 DEF Join
    <3>2. Admits(p, NoTicket)
      BY <2>1 DEF Join
    <3> QED
      BY <3>1, <3>2, AdmittedEnters, EnteringFresh
  <2>2. CASE Leave(p)
    <3>1. PICK s \in Tickets : Has(s, "waiting")
                               /\ ticket' = Moved({s}, "waiting", "cancelled", 0)
      BY <2>2 DEF Leave
    <3>2. "cancelled" \in TicketStatus
      BY DEF TicketStatus
    <3>3. \A t \in Tickets : ticket'[t] = ticket[t] \/ t = s
      BY <3>1, <3>2, MovedStatus
    <3> QED
      BY <3>1, <3>3 DEF Has, Fresh
  <2> QED
    BY <2>1, <2>2 DEF Queue
<1> QED
  BY <1>1, <1>2, FreshMoves

LEMMA HandshakeReleases ==
  ASSUME TypeOK, Holding, NEW p \in Pairings, Handshake(p)
  PROVE  Releases
<1>1. UNCHANGED <<now, worker, recon>>
  BY DEF Handshake, ApplyPolicy, PolicyInterrupted, Accept, Decline, jobVars
<1>2. CASE ApplyPolicy(p) \/ PolicyInterrupted(p)
  <2>1. RequeueAll(p) /\ match' = match
    BY <1>2 DEF ApplyPolicy, PolicyInterrupted
  <2>2. \A t \in Tickets : ticket'[t] = ticket[t] \/ ticket[t].status \in Fresh
    BY <2>1, RequeueEnters, EnteringFresh
  <2> QED
    BY <1>1, <2>1, <2>2, FreshMoves
<1>3. ASSUME NEW t \in p, Accept(p, t) \/ Decline(p, t)
      PROVE  Releases
  <2>1. /\ ticket' = ticket /\ match[p].status # "none"
        /\ \A q \in Pairings : q # p => match'[q] = match[q]
    BY <1>3 DEF Accept, Decline, IsOpen, TypeOK
  <2>2. Kept(match, match')
    BY <1>3, MatchWriters DEF Next, Handshake
  <2>3. \A q \in Pairings : (match[q].status = "none") <=> (match'[q].status = "none")
    BY <2>1, <2>2 DEF Kept
  <2> QED
    BY <1>1, <2>1, <2>3, FreshMoves
<1> QED
  BY <1>2, <1>3 DEF Handshake

LEMMA SweepReleases ==
  ASSUME TypeOK, Holding, NEW s \in Sweepers, Sweep(s)
  PROVE  Releases
<1>1. UNCHANGED <<now, worker, recon, match>>
  BY DEF Sweep, ClaimDue, ExpireDue, CrashSweeper, gameVars
<1>2. ASSUME NEW t \in Tickets, ticket'[t] # ticket[t]
      PROVE  ticket'[t].status = "expired"
  <2>1. ticket' = Expired(sweeping[s])
    BY <1>2 DEF Sweep, ClaimDue, ExpireDue, CrashSweeper
  <2>2. ticket'[t] = Updated(ticket[t], "expired", 0) /\ ticket[t] \in Ticket
    BY <1>2, <2>1 DEF Expired, Updated, TypeOK
  <2> QED
    BY <2>2 DEF Updated, Ticket
<1> QED
  BY <1>1, <1>2, SameWorkers, SameRecon DEF Releases

-----------------------------------------------------------------------------
(* The worker's steps *)

\* Worker w is the only one to change; what it holds it held before.
WorkerKeeps(w) ==
  /\ UNCHANGED <<now, recon>>
  /\ \A v \in Workers \ {w} : worker'[v] = worker[v]
  /\ Busy(w)' =>
       /\ Busy(w)
       /\ worker'[w].pair = worker[w].pair /\ worker'[w].until = worker[w].until
       /\ At(w, "created") => At(w, "created")'

LEMMA WorkerFields ==
  ASSUME TypeOK, NEW w \in Workers, NEW step, Goes(w, step)
  PROVE  /\ worker'[w].at = step
         /\ worker'[w].pair = worker[w].pair /\ worker'[w].until = worker[w].until
         /\ \A v \in Workers \ {w} : worker'[v] = worker[v]
<1>1. worker[w] \in Worker
  BY DEF TypeOK
<1> QED
  BY <1>1 DEF Goes, TypeOK, Worker

LEMMA WorkerEnds ==
  ASSUME TypeOK, NEW w \in Workers, Ends(w)
  PROVE  ~Busy(w)' /\ \A v \in Workers \ {w} : worker'[v] = worker[v]
<1>1. worker'[w] = Idle /\ Idle.at = "idle"
  BY DEF Ends, Idle, TypeOK
<1> QED
  BY <1>1 DEF Busy, Ends, TypeOK

\* A worker that keeps or gives up what it holds, and moves only its own tickets.
LEMMA WorkerReleases ==
  ASSUME TypeOK, Holding, NEW w \in Workers, WorkerKeeps(w),
         \A p \in Pairings : (match[p].status = "none") <=> (match'[p].status = "none"),
         \A t \in Tickets :
           \/ ticket'[t] = ticket[t]
           \/ /\ Busy(w) /\ t \in worker[w].pair /\ ~Busy(w)'
              /\ ticket'[t].status \in Fresh => ~At(w, "created")
  PROVE  Releases
<1>1. \A v \in Workers : Busy(v)' =>
        /\ Busy(v)
        /\ worker'[v].pair = worker[v].pair /\ worker'[v].until = worker[v].until
        /\ At(v, "created") => At(v, "created")'
  BY DEF WorkerKeeps, Busy, At
<1>2. ASSUME NEW t \in Tickets, ticket'[t] # ticket[t]
      PROVE  ~Held(t)' /\ (ticket'[t].status \in Fresh => t \notin Seated)
  <2>1. Busy(w) /\ t \in worker[w].pair /\ ~Busy(w)'
        /\ (ticket'[t].status \in Fresh => ~At(w, "created"))
    BY <1>2
  <2>2. ~Held(t)'
    <3> SUFFICES ASSUME NEW v \in Workers, Busy(v)', t \in worker'[v].pair
                 PROVE  FALSE
      BY DEF Held
    <3>1. v # w /\ Busy(v) /\ t \in worker[v].pair
      BY <1>1, <2>1
    <3> QED
      BY <2>1, <3>1 DEF Holding, HeldOnce
  <2> QED
    BY <2>1, <2>2 DEF Holding, WorkersHold
<1>3. recon' = recon /\ now' = now
  BY DEF WorkerKeeps
<1> QED
  BY <1>1, <1>2, <1>3, SameRecon DEF Releases

\* Everything a worker does but its claim and its insert.
LEMMA PairReleases ==
  ASSUME TypeOK, Holding, NEW w \in Workers,
         \/ Select(w) \/ BeginCreate(w) \/ Refused(w) \/ Complete(w) \/ Release(w)
         \/ CrashWorker(w)
  PROVE  Releases
<1> USE DEF At
<1>1. CASE Select(w)
  <2>1. PICK p \in Pairings :
          worker' = [worker EXCEPT ![w] = [at |-> "selected", pair |-> p, until |-> 0]]
    BY <1>1 DEF Select
  <2>2. ~Busy(w)' /\ \A v \in Workers \ {w} : worker'[v] = worker[v]
    BY <2>1 DEF Busy, TypeOK
  <2> QED
    BY <1>1, <2>2, WorkerReleases DEF Select, WorkerKeeps, gameVars
<1>2. CASE BeginCreate(w) \/ Refused(w)
  <2>1. /\ UNCHANGED <<now, recon, ticket, match>>
        /\ Goes(w, "creating") \/ Goes(w, "refused")
        /\ Busy(w) /\ ~At(w, "created")
    BY <1>2 DEF BeginCreate, Refused, Busy, gameVars
  <2>2. WorkerKeeps(w)
    BY <2>1, WorkerFields DEF WorkerKeeps
  <2> QED
    BY <2>1, <2>2, WorkerReleases
<1>3. CASE Complete(w)
  <2>1. /\ UNCHANGED <<now, recon, match>> /\ At(w, "created") /\ Ends(w)
        /\ ticket' = Moved(worker[w].pair, "reserved", "matched", 0)
    BY <1>3 DEF Complete, gameVars
  <2>2. ~Busy(w)' /\ WorkerKeeps(w) /\ Busy(w)
    BY <2>1, WorkerEnds DEF WorkerKeeps, Busy
  <2>3. "matched" \in TicketStatus /\ "matched" \notin Fresh
    BY DEF TicketStatus, Fresh
  <2>4. \A t \in Tickets : \/ ticket'[t] = ticket[t]
                           \/ t \in worker[w].pair /\ ticket'[t].status = "matched"
    BY <2>1, <2>3, MovedStatus
  <2> QED
    BY <2>1, <2>2, <2>3, <2>4, WorkerReleases
<1>4. CASE Release(w)
  <2>1. /\ UNCHANGED <<now, recon, match>> /\ At(w, "refused") /\ Ends(w)
        /\ ticket' = Moved(worker[w].pair, "reserved", "waiting", 0)
    BY <1>4 DEF Release, gameVars
  <2>2. ~Busy(w)' /\ WorkerKeeps(w) /\ Busy(w) /\ ~At(w, "created")
    BY <2>1, WorkerEnds DEF WorkerKeeps, Busy
  <2>3. "waiting" \in TicketStatus
    BY DEF TicketStatus
  <2>4. \A t \in Tickets : ticket'[t] = ticket[t] \/ t \in worker[w].pair
    BY <2>1, <2>3, MovedStatus
  <2> QED
    BY <2>1, <2>2, <2>4, WorkerReleases
<1>5. CASE CrashWorker(w)
  <2>1. UNCHANGED <<now, recon, ticket, match>> /\ Ends(w)
    BY <1>5 DEF CrashWorker, gameVars
  <2> QED
    BY <2>1, WorkerEnds, WorkerReleases DEF WorkerKeeps
<1> QED
  BY <1>1, <1>2, <1>3, <1>4, <1>5

\* The claim takes two waiting tickets, which are nobody's; `retaken` says that no
\* reconciler has them in its batch.
LEMMA ClaimHolds ==
  ASSUME TypeOK, SettledInv, Holding, NEW w \in Workers, Claim(w), ~retaken'
  PROVE  Holding'
<1> DEFINE p == worker[w].pair
           until == now + ReservationTtl
<1>1. CASE Ends(w) /\ ticket' = ticket
  <2>1. UNCHANGED <<now, recon, match>>
    BY DEF Claim, gameVars
  <2>2. WorkerKeeps(w)
    BY <1>1, <2>1, WorkerEnds DEF WorkerKeeps
  <2> QED
    BY <1>1, <2>1, <2>2, WorkerReleases, ReleasesHold
<1>2. CASE ~(Ends(w) /\ ticket' = ticket)
  <2>1. /\ \A t \in p : Has(t, "waiting")
        /\ ticket' = Moved(p, "waiting", "reserved", until)
        /\ worker' = [worker EXCEPT ![w].at = "claimed", ![w].until = until]
        /\ \A r \in Reconcilers : p \cap recon[r].batch = {}
        /\ UNCHANGED <<now, match, recon>>
    BY <1>2 DEF Claim, gameVars
  <2>2. p \in Pairings /\ p \subseteq Tickets
    BY PairingTickets DEF Claim, SettledInv, At
  <2>3. until \in Nat /\ now < until
    BY PairingConstants DEF TypeOK
  <2>4. \A t \in p : ticket[t].status \in Fresh
    BY <2>1 DEF Has, Fresh
  <2>5. \A t \in p : ~Held(t) /\ t \notin Seated
    BY <2>2, <2>4, FreshFree
  <2>6. /\ worker'[w].at = "claimed" /\ worker'[w].pair = p /\ worker'[w].until = until
        /\ \A v \in Workers \ {w} : worker'[v] = worker[v]
    <3>1. worker[w] \in Worker
      BY DEF TypeOK
    <3> HIDE DEF until
    <3> QED
      BY <2>1, <3>1 DEF TypeOK, Worker
  <2>7. ASSUME NEW t \in Tickets
        PROVE  /\ t \in p => ticket'[t].status = "reserved" /\ ticket'[t].until = until
               /\ t \notin p => ticket'[t] = ticket[t]
    <3>1. All(p, "waiting") /\ ticket[t] \in Ticket /\ "reserved" \in TicketStatus
      BY <2>1 DEF All, TypeOK, TicketStatus
    <3>2. ticket'[t] = IF t \in p THEN Updated(ticket[t], "reserved", until) ELSE ticket[t]
      BY <2>1, <3>1 DEF Moved, Updated
    <3> HIDE DEF until
    <3> QED
      BY <2>3, <3>1, <3>2, UpdatedFields
  <2> HIDE DEF p, until
  <2>8. Seated' = Seated
    BY <2>1, SeatedSame
  <2>9. ASSUME NEW v \in Workers, Busy(v)', v # w
        PROVE  /\ Busy(v) /\ worker'[v] = worker[v]
               /\ worker[v].pair \subseteq Tickets /\ worker[v].pair \cap p = {}
    <3>1. Busy(v) /\ worker'[v] = worker[v]
      BY <2>6, <2>9 DEF Busy
    <3>2. worker[v].pair \subseteq Tickets
      BY <3>1, PairingTickets DEF SettledInv, Busy, At
    <3> QED
      BY <2>5, <3>1, <3>2 DEF Held
  <2>10. WorkersHold'
    <3> SUFFICES ASSUME NEW v \in Workers, Busy(v)'
                 PROVE  /\ now' < worker'[v].until
                        /\ \A t \in worker'[v].pair :
                             \/ ticket'[t].status = "expired"
                             \/ /\ ticket'[t].status = "reserved"
                                /\ ticket'[t].until = worker'[v].until
                        /\ At(v, "created")' \/ worker'[v].pair \cap Seated' = {}
      BY DEF WorkersHold, Has
    <3>1. CASE v = w
      BY <2>1, <2>2, <2>3, <2>5, <2>6, <2>7, <2>8, <3>1
    <3>2. CASE v # w
      <4>1. \A t \in worker[v].pair : ticket'[t] = ticket[t]
        BY <2>7, <2>9, <3>2
      <4>2. Busy(v) /\ worker'[v] = worker[v]
        BY <2>9, <3>2
      <4>3. /\ now < worker[v].until
            /\ \A t \in worker[v].pair :
                 \/ ticket[t].status = "expired"
                 \/ ticket[t].status = "reserved" /\ ticket[t].until = worker[v].until
            /\ worker[v].at = "created" \/ worker[v].pair \cap Seated = {}
        BY <4>2 DEF Holding, WorkersHold, Has, At
      <4> QED
        BY <2>1, <2>8, <4>1, <4>2, <4>3 DEF At
    <3> QED
      BY <3>1, <3>2
  <2>11. HeldOnce'
    <3> SUFFICES ASSUME NEW u \in Workers, NEW v \in Workers, u # v, Busy(u)', Busy(v)'
                 PROVE  worker'[u].pair \cap worker'[v].pair = {}
      BY DEF HeldOnce
    <3> QED
      BY <2>6, <2>9 DEF Holding, HeldOnce
  <2>12. ReconHolds'
    <3> SUFFICES ASSUME NEW r \in Reconcilers, NEW t \in recon[r].batch
                 PROVE  /\ ~Held(t)'
                        /\ recon[r].at = "apply" /\ t \notin recon[r].found
                             => t \notin Seated
      BY <2>1, <2>8 DEF Holding, ReconHolds
    <3>1. t \notin p
      BY <2>1
    <3>2. ~Held(t)
      BY DEF Holding, ReconHolds
    <3>3. ~Held(t)'
      BY <2>6, <2>9, <3>1, <3>2 DEF Held
    <3> QED
      BY <3>3 DEF Holding, ReconHolds
  <2>13. FreshUnseated'
    <3>1. \A t \in Tickets : ticket'[t].status \in Fresh => t \notin p
      BY <2>7 DEF Fresh
    <3> QED
      BY <2>7, <2>8, <3>1 DEF Holding, FreshUnseated
  <2>14. OneMatch'
    BY <2>1 DEF Holding, OneMatch
  <2> QED
    BY <2>10, <2>11, <2>12, <2>13, <2>14 DEF Holding
<1> QED
  BY <1>1, <1>2

\* The insert seats two tickets that no match had: the worker holds them, so no
\* other worker, no batch and no waiting player has them.
LEMMA CommitCreateHolds ==
  ASSUME TypeOK, SettledInv, Holding, NEW w \in Workers, CommitCreate(w)
  PROVE  Holding'
<1> DEFINE p == worker[w].pair
<1>1. /\ UNCHANGED <<now, ticket, recon>> /\ At(w, "creating")
      /\ Busy(w) /\ p \in Pairings /\ p \subseteq Tickets
      /\ p \cap Seated = {} /\ now < worker[w].until
      /\ \A t \in p : Has(t, "expired") \/ (Has(t, "reserved") /\ ticket[t].until = worker[w].until)
  BY PairingTickets DEF CommitCreate, SettledInv, Busy, At, Holding, WorkersHold
<1>2. match[p].status = "none"
  <2>1. LightOf[p] \in p
    BY <1>1, PairingConstants
  <2> QED
    BY <1>1, <2>1 DEF Seated
<1>3. CASE Goes(w, "refused") /\ match' = match
  <2>1. WorkerKeeps(w)
    BY <1>1, <1>3, WorkerFields DEF WorkerKeeps, At, Busy
  <2> QED
    BY <1>1, <1>3, <2>1, WorkerReleases, ReleasesHold
<1>4. CASE ~(Goes(w, "refused") /\ match' = match)
  <2>1. /\ Goes(w, "created")
        /\ match' = [match EXCEPT ![p] = [NoMatch EXCEPT !.status = "pending_acceptance",
                                                         !.deadline = worker[w].until]]
    BY <1>2, <1>4 DEF CommitCreate
  <2>2. /\ match'[p].status = "pending_acceptance"
        /\ \A q \in Pairings \ {p} : match'[q] = match[q]
    BY <1>1, <2>1 DEF TypeOK, NoMatch
  <2>3. /\ worker'[w].at = "created"
        /\ worker'[w].pair = p /\ worker'[w].until = worker[w].until
        /\ \A v \in Workers \ {w} : worker'[v] = worker[v]
    BY <2>1, WorkerFields
  <2> HIDE DEF p
  <2>4. Seated' = Seated \cup p
    BY <1>1, <1>2, <2>2 DEF Seated
  <2>5. ASSUME NEW v \in Workers, Busy(v)'
        PROVE  /\ Busy(v) /\ worker'[v].pair = worker[v].pair
               /\ worker'[v].until = worker[v].until
    BY <1>1, <2>3, <2>5 DEF Busy, p
  <2>6. \A t : Held(t)' <=> Held(t)
    <3>1. \A v \in Workers : Busy(v) => Busy(v)'
      BY <1>1, <2>3 DEF Busy
    <3> QED
      BY <2>5, <3>1 DEF Held
  <2>7. \A t \in p : Held(t)
    BY <1>1 DEF Held, p
  <2>8. WorkersHold'
    <3> SUFFICES ASSUME NEW v \in Workers, Busy(v)'
                 PROVE  /\ now' < worker'[v].until
                        /\ \A t \in worker'[v].pair :
                             \/ ticket'[t].status = "expired"
                             \/ /\ ticket'[t].status = "reserved"
                                /\ ticket'[t].until = worker'[v].until
                        /\ At(v, "created")' \/ worker'[v].pair \cap Seated' = {}
      BY DEF WorkersHold, Has
    <3>1. /\ now' < worker'[v].until
          /\ \A t \in worker'[v].pair :
               \/ ticket'[t].status = "expired"
               \/ ticket'[t].status = "reserved" /\ ticket'[t].until = worker'[v].until
          /\ At(v, "created") \/ worker[v].pair \cap Seated = {}
      BY <1>1, <2>5 DEF Holding, WorkersHold, Has
    <3>2. CASE v = w
      BY <2>3, <3>1, <3>2 DEF At
    <3>3. CASE v # w
      <4>1. worker[v].pair \cap p = {}
        BY <1>1, <2>5, <3>3 DEF Holding, HeldOnce, p
      <4>2. At(v, "created") => At(v, "created")'
        BY <2>3, <3>3 DEF At
      <4> QED
        BY <2>4, <2>5, <3>1, <4>1, <4>2
    <3> QED
      BY <3>2, <3>3
  <2>9. HeldOnce'
    BY <2>5 DEF Holding, HeldOnce
  <2>10. ReconHolds'
    <3> SUFFICES ASSUME NEW r \in Reconcilers, NEW t \in recon[r].batch
                 PROVE  /\ ~Held(t)'
                        /\ recon[r].at = "apply" /\ t \notin recon[r].found => t \notin Seated'
      BY <1>1 DEF Holding, ReconHolds, Has
    <3>1. ~Held(t)
      BY DEF Holding, ReconHolds
    <3> QED
      BY <2>4, <2>6, <2>7, <3>1 DEF Holding, ReconHolds
  <2>11. FreshUnseated'
    <3> SUFFICES ASSUME NEW t \in Tickets, ticket[t].status \in Fresh
                 PROVE  t \notin Seated \cup p
      BY <1>1, <2>4 DEF FreshUnseated
    <3> QED
      BY <2>7, FreshFree
  <2>12. OneMatch'
    <3>1. \A q \in Pairings : match[q].status # "none" => q \subseteq Seated
      BY DEF Seated
    <3>2. \A q \in Pairings \ {p} : match'[q].status # "none" => q \cap p = {}
      BY <1>1, <2>2, <3>1
    <3> QED
      BY <2>2, <3>2 DEF Holding, OneMatch
  <2> QED
    BY <2>8, <2>9, <2>10, <2>11, <2>12 DEF Holding
<1> QED
  BY <1>3, <1>4

-----------------------------------------------------------------------------
(* The reconciler's steps, and the clock *)

\* Reconciler r is the only one to change, and claims nothing new.
LEMMA ReconFields ==
  ASSUME TypeOK, Holding, NEW r \in Reconcilers, NEW new \in Recon,
         recon' = [recon EXCEPT ![r] = new],
         new.batch \subseteq recon[r].batch, new.found \subseteq new.batch,
         new.at = "apply" => new.batch \ new.found \subseteq Tickets \ Seated
  PROVE  \A s \in Reconcilers :
           /\ recon'[s].found \subseteq recon'[s].batch
           /\ \A t \in recon'[s].batch :
                /\ t \in recon[s].batch
                /\ recon'[s].at = "apply" /\ t \notin recon'[s].found => t \notin Seated
<1>1. recon'[r] = new /\ \A s \in Reconcilers \ {r} : recon'[s] = recon[s]
  BY DEF TypeOK
<1> QED
  BY <1>1 DEF Holding, ReconHolds

\* What `_apply` ends it had claimed; what it gives back to the queue had no match
\* when it was read, and nobody has created one since.
LEMMA ApplyMoves ==
  ASSUME TypeOK, Holding, NEW r \in Reconcilers, Apply(r),
         NEW t \in Tickets, ticket'[t] # ticket[t]
  PROVE  ~Held(t) /\ (ticket'[t].status \in Fresh => t \notin Seated)
<1> DEFINE batch == recon[r].batch
           settled == {u \in recon[r].found : Has(u, "reserved")}
           lapsed == {u \in batch \ recon[r].found : Due(u)}
           returned == (batch \ recon[r].found) \ lapsed
           released == IF All(returned, "reserved") THEN returned ELSE {}
           overdue == {u \in lapsed : Live(u)}
<1>1. ticket' = [u \in Tickets |->
         IF u \in settled THEN Updated(ticket[u], "matched", 0)
         ELSE IF u \in released THEN Updated(ticket[u], "waiting", 0)
         ELSE IF u \in overdue THEN Updated(ticket[u], "expired", 0)
         ELSE ticket[u]]
  BY DEF Apply, Updated
<1>2. ticket[t] \in Ticket /\ {"matched", "waiting", "expired"} \subseteq TicketStatus
  BY DEF TypeOK, TicketStatus
<1>3. settled \subseteq batch /\ overdue \subseteq batch /\ released \subseteq batch \ recon[r].found
  BY DEF Holding, ReconHolds
<1>4. t \in settled \/ t \in released \/ t \in overdue
  BY <1>1
<1> HIDE DEF settled, released, overdue
<1>5. ~Held(t)
  BY <1>3, <1>4 DEF Holding, ReconHolds
<1>6. CASE t \in released
  <2>1. t \notin Seated
    BY <1>3, <1>6 DEF Apply, Holding, ReconHolds
  <2> QED
    BY Zenon, <1>5, <2>1
<1>7. CASE t \notin released
  <2>1. ticket'[t] = Updated(ticket[t], "matched", 0) \/ ticket'[t] = Updated(ticket[t], "expired", 0)
    BY <1>1, <1>4, <1>7
  <2>2. ticket'[t].status \in {"matched", "expired"}
    BY <1>2, <2>1, UpdatedFields
  <2> QED
    BY <1>5, <2>2 DEF Fresh
<1> QED
  BY Zenon, <1>6, <1>7

LEMMA ClaimStaleHolds ==
  ASSUME TypeOK, SettledInv, Holding, NEW r \in Reconcilers, ClaimStale(r), Stale # {}
  PROVE  Holding'
<1>1. /\ UNCHANGED <<now, ticket, match, worker>>
      /\ recon'[r] = [at |-> "read", batch |-> Stale, found |-> {}]
      /\ \A s \in Reconcilers \ {r} : recon'[s] = recon[s]
  BY DEF ClaimStale, gameVars, TypeOK
<1>2. Seated' = Seated /\ \A t : Held(t)' <=> Held(t)
  BY <1>1, SeatedSame, SameWorkers
<1>3. ASSUME NEW t \in Stale, NEW w \in Workers, Busy(w), t \in worker[w].pair
      PROVE  FALSE
  <2>1. t \in Tickets /\ Has(t, "reserved") /\ ticket[t].until <= now /\ ticket[t] \in Ticket
    BY DEF Stale, TypeOK
  <2>2. now < worker[w].until /\ ticket[t].until = worker[w].until
    BY <1>3, <2>1 DEF Holding, WorkersHold, Has
  <2> QED
    BY <2>1, <2>2 DEF TypeOK, Ticket
<1>4. ReconHolds'
  <2> SUFFICES ASSUME NEW s \in Reconcilers
               PROVE  /\ recon'[s].found \subseteq recon'[s].batch
                      /\ \A t \in recon'[s].batch :
                           /\ ~Held(t)
                           /\ recon'[s].at = "apply" /\ t \notin recon'[s].found
                                => t \notin Seated
    BY <1>1, <1>2 DEF ReconHolds
  <2> QED
    BY <1>1, <1>3 DEF Holding, ReconHolds, Held
<1>5. WorkersHold' /\ HeldOnce'
  BY <1>1, <1>2 DEF Holding, WorkersHold, HeldOnce, Busy, At, Has
<1>6. FreshUnseated' /\ OneMatch'
  BY SMTT(60), <1>1, <1>2 DEF Holding, FreshUnseated, OneMatch
<1> QED
  BY <1>4, <1>5, <1>6 DEF Holding

\* A ticket that one reconciler gives back may be in the batch of another still:
\* no harm is done before a worker claims it again.
LEMMA ReconcileHolds ==
  ASSUME TypeOK, SettledInv, Holding, NEW r \in Reconcilers, Reconcile(r)
  PROVE  Holding'
<1>1. now' = now /\ worker' = worker
  BY DEF Reconcile, ExpireMatches, ClaimStale, ReadSettlements, Apply, CrashReconciler
<1>2. recon[r] \in Recon /\ recon[r].found \subseteq recon[r].batch
      /\ recon[r].batch \subseteq Tickets
  BY DEF TypeOK, Holding, ReconHolds, Recon
<1>3. Resting \in Recon /\ Resting.batch = {} /\ Resting.found = {} /\ Resting.at = "idle"
  BY DEF Recon, Resting
<1>4. CASE ExpireMatches(r)
  <2> DEFINE new == [recon[r] EXCEPT !.at = "claim"]
  <2>1. /\ recon' = [recon EXCEPT ![r] = new] /\ ticket' = ticket
        /\ new \in Recon /\ new.at = "claim"
        /\ new.batch = recon[r].batch /\ new.found = recon[r].found
    BY <1>2, <1>4 DEF ExpireMatches, Recon
  <2>2. \A p \in Pairings : (match[p].status = "none") <=> (match'[p].status = "none")
    BY <1>4 DEF ExpireMatches, Overdue, TypeOK, Match
  <2> HIDE DEF new
  <2> QED
    BY <1>1, <1>2, <2>1, <2>2, ReconFields, SameWorkers, ReleasesHold DEF Releases
<1>5. CASE ReadSettlements(r)
  <2> DEFINE new == [recon[r] EXCEPT !.at = "apply", !.found = recon[r].batch \cap Seated]
  <2>1. /\ recon' = [recon EXCEPT ![r] = new] /\ ticket' = ticket /\ match' = match
        /\ new \in Recon /\ new.at = "apply"
        /\ new.batch = recon[r].batch /\ new.found = recon[r].batch \cap Seated
    BY <1>2, <1>5 DEF ReadSettlements, Recon, gameVars
  <2> HIDE DEF new
  <2> QED
    BY <1>1, <1>2, <2>1, ReconFields, SameWorkers, ReleasesHold DEF Releases
<1>6. CASE Apply(r)
  <2>1. recon' = [recon EXCEPT ![r] = Resting] /\ match' = match
    BY <1>6 DEF Apply, gameVars
  <2>2. \A t \in Tickets : \/ ticket'[t] = ticket[t]
                           \/ /\ ~Held(t)'
                              /\ ticket'[t].status \in Fresh => t \notin Seated
    BY <1>1, <1>6, ApplyMoves, SameWorkers
  <2> QED
    BY <1>1, <1>3, <2>1, <2>2, ReconFields, SameWorkers, ReleasesHold DEF Releases
<1>7. CASE CrashReconciler(r) \/ (ClaimStale(r) /\ Stale = {})
  <2>1. recon' = [recon EXCEPT ![r] = Resting] /\ UNCHANGED <<ticket, match>>
    BY <1>7 DEF CrashReconciler, ClaimStale, gameVars
  <2> QED
    BY <1>1, <1>3, <2>1, ReconFields, SameWorkers, ReleasesHold DEF Releases
<1>8. CASE ClaimStale(r) /\ Stale # {}
  BY <1>8, ClaimStaleHolds
<1> QED
  BY Zenon, <1>4, <1>5, <1>6, <1>7, <1>8 DEF Reconcile

\* `late` says that no reservation lapsed under its worker.
LEMMA TickHolds ==
  ASSUME TypeOK, SettledInv, Holding, Tick, ~late'
  PROVE  Holding'
<1>1. /\ UNCHANGED <<ticket, match, worker, recon>> /\ now' = now + 1 /\ now \in Nat
      /\ \A w \in Workers : Busy(w) => ~(worker[w].until <= now')
  BY DEF Tick, gameVars, jobVars, TypeOK
<1>2. Seated' = Seated /\ \A t : Held(t)' <=> Held(t)
  BY <1>1, SeatedSame, SameWorkers
<1>3. \A w \in Workers : Busy(w) => now' < worker[w].until
  <2>1. \A w \in Workers : worker[w].until \in Nat
    BY DEF TypeOK, Worker
  <2> QED
    BY <1>1, <2>1
<1>4. WorkersHold' /\ HeldOnce'
  BY <1>1, <1>2, <1>3 DEF Holding, WorkersHold, HeldOnce, Busy, At, Has
<1>5. ReconHolds'
  BY <1>1, <1>2 DEF Holding, ReconHolds
<1>6. FreshUnseated' /\ OneMatch'
  BY SMTT(60), <1>1, <1>2 DEF Holding, FreshUnseated, OneMatch
<1> QED
  BY <1>4, <1>5, <1>6 DEF Holding

-----------------------------------------------------------------------------
\* A pairing that outlasted its reservation is remembered, and so is a ticket that
\* was reserved again under a reconciler.
LEMMA HistoryStays ==
  ASSUME TypeOK, [Next]_vars
  PROVE  (late => late') /\ (retaken => retaken')
<1>1. CASE Tick
  BY <1>1 DEF Tick
<1>2. ASSUME NEW w \in Workers, Claim(w)
      PROVE  (late => late') /\ (retaken => retaken')
  BY <1>2 DEF Claim
<1>3. ASSUME NEW p \in Players, Queue(p)
      PROVE  history' = history
  BY <1>3 DEF Queue, Join, Leave
<1>4. ASSUME NEW w \in Workers, Pair(w), ~Claim(w)
      PROVE  history' = history
  BY <1>4 DEF Pair, Select, BeginCreate, Refused, CommitCreate, Complete, Release, CrashWorker
<1>5. ASSUME NEW s \in Sweepers, Sweep(s)
      PROVE  history' = history
  BY <1>5 DEF Sweep, ClaimDue, ExpireDue, CrashSweeper
<1>6. ASSUME NEW r \in Reconcilers, Reconcile(r)
      PROVE  history' = history
  BY <1>6 DEF Reconcile, ExpireMatches, ClaimStale, ReadSettlements, Apply, CrashReconciler
<1>7. ASSUME NEW p \in Pairings, Handshake(p)
      PROVE  history' = history
  BY <1>7 DEF Handshake, ApplyPolicy, PolicyInterrupted, Accept, Decline
<1>8. history' = history => late' = late /\ retaken' = retaken
  BY DEF history
<1>9. UNCHANGED vars => history' = history
  BY DEF vars
<1>10. Tick \/ (\E w \in Workers : Claim(w)) \/ history' = history
  BY <1>3, <1>4, <1>5, <1>6, <1>7, <1>9 DEF Next
<1> QED
  BY <1>1, <1>2, <1>8, <1>10

LEMMA StepHolding ==
  ASSUME TypeOK, SettledInv, late \/ retaken \/ Holding, [Next]_vars
  PROVE  late' \/ retaken' \/ Holding'
<1> SUFFICES ASSUME ~late', ~retaken'
             PROVE  Holding'
  OBVIOUS
<1>1. Holding
  BY HistoryStays
<1>2. CASE Tick
  BY <1>1, <1>2, TickHolds
<1>3. ASSUME NEW p \in Players, Queue(p)
      PROVE  Holding'
  BY <1>1, <1>3, QueueReleases, ReleasesHold
<1>4. ASSUME NEW w \in Workers, Pair(w)
      PROVE  Holding'
  BY <1>1, <1>4, ClaimHolds, CommitCreateHolds, PairReleases, ReleasesHold DEF Pair
<1>5. ASSUME NEW s \in Sweepers, Sweep(s)
      PROVE  Holding'
  BY <1>1, <1>5, SweepReleases, ReleasesHold
<1>6. ASSUME NEW r \in Reconcilers, Reconcile(r)
      PROVE  Holding'
  BY <1>1, <1>6, ReconcileHolds
<1>7. ASSUME NEW p \in Pairings, Handshake(p)
      PROVE  Holding'
  BY <1>1, <1>7, HandshakeReleases, ReleasesHold
<1>8. CASE UNCHANGED vars
  <2>1. UNCHANGED <<now, ticket, worker, recon, match>>
    BY <1>8 DEF vars, gameVars, jobVars
  <2> QED
    BY <1>1, <2>1, FreshMoves, ReleasesHold
<1> QED
  BY <1>2, <1>3, <1>4, <1>5, <1>6, <1>7, <1>8 DEF Next

LEMMA InitHolding == Init => Holding
<1> SUFFICES ASSUME Init
             PROVE  Holding
  OBVIOUS
<1>1. Seated = {} /\ \A p \in Pairings : match[p].status = "none"
  BY DEF Init, NoMatch, Seated
<1>2. \A w \in Workers : ~Busy(w)
  BY DEF Init, Idle, Busy
<1>3. \A r \in Reconcilers : recon[r].batch = {} /\ recon[r].found = {}
  BY DEF Init, Resting
<1> QED
  BY <1>1, <1>2, <1>3
     DEF Holding, WorkersHold, HeldOnce, ReconHolds, FreshUnseated, OneMatch

\* As long as no pairing outlasts the reservation it was given and no ticket is
\* reserved again under a reconciler: a ticket has at most one match, and none
\* while its player is waiting or has left, for any number of players, tickets,
\* pairing workers, sweepers and reconcilers.
THEOREM TicketsSeatedOnce == Spec => []NoSecondMatch
<1> DEFINE Inv == late \/ retaken \/ Holding
<1>1. Init => TypeOK /\ SettledInv /\ Inv
  BY InitType, InitSettled, InitHolding
<1>2. TypeOK /\ SettledInv /\ Inv /\ [Next]_vars => TypeOK' /\ SettledInv' /\ Inv'
  BY StepType, StepSettled, StepHolding
<1>3. Inv => NoSecondMatch
  BY DEF Holding, FreshUnseated, OneMatch, NoSecondMatch, UnmatchedHasNoMatch,
         OneMatchPerTicket, Fresh
<1> HIDE DEF Inv
<1> QED
  BY <1>1, <1>2, <1>3, PTL DEF Spec

=============================================================================
