----------------------------- MODULE QueuePairing -----------------------------
(***************************************************************************)
(* One pool of the matchmaking queue: players enter and leave, pairing     *)
(* scans reserve two tickets and ask `game` for a match, and three         *)
(* background jobs clean up behind them: the expiry sweep, the pairing     *)
(* reconciler, and the consumer that requeues whoever accepted a match     *)
(* that then failed.  Every action is one transaction or one read between  *)
(* two of them; what a worker remembers from the transaction before is in  *)
(* its own variable and may be stale when it is used.                      *)
(*                                                                         *)
(* Which two waiting tickets a scan selects (rating windows, blocks,       *)
(* recent opponents) is left open: any two may be selected.                *)
(***************************************************************************)
EXTENDS Integers, FiniteSets

CONSTANTS
  Players, Tickets, NoTicket,
  OwnerOf,         \* whose each ticket is once it is entered
  LightOf,         \* the side a pairing id's parity gives, for every pairing
  Workers,         \* processes running pair_once
  Sweepers,        \* processes running expire_due
  Reconcilers,     \* processes running reconcile_once
  TicketTtl, ReservationTtl, CooldownTtl
CONSTANTS MaxNow, MaxJoin, MaxCrashes  \* bounds of the model: the last instant,
  \* the last one a player joins at, and how often something fails

Pairings == {{s, t} : s \in Tickets, t \in Tickets} \ {{t} : t \in Tickets}

ASSUME PairingConstants ==
  /\ NoTicket \notin Tickets
  /\ OwnerOf \in [Tickets -> Players]
  /\ LightOf \in [Pairings -> Tickets] /\ \A p \in Pairings : LightOf[p] \in p
  /\ TicketTtl \in Nat /\ ReservationTtl \in Nat \ {0} /\ ReservationTtl < TicketTtl
  /\ CooldownTtl \in Nat
  /\ MaxNow \in Nat /\ MaxJoin \in Nat /\ MaxCrashes \in Nat

VARIABLES
  now,
  ticket,     \* matchmaking.queue_ticket
  match,      \* game.match, one row for each pairing id that has one
  barred,     \* matchmaking.queue_cooldown: each player's expires_at
  owed,       \* failed handshakes the outbox still owes the policy
  worker,     \* a pairing scan between two of its transactions
  sweeping,   \* the tickets an expiry sweep claimed
  recon,      \* a reconciler's claim and what `game` told it
  late,       \* history: has a pairing outlasted the reservation it was given?
  retaken,    \* history: was a ticket reserved again while a reconciler had
              \* still to apply what it read of the reservation before?
  crashes

gameVars == <<match, barred, owed>>
jobVars == <<worker, sweeping, recon>>
history == <<late, retaken>>
vars == <<now, ticket, gameVars, jobVars, history, crashes>>

TicketStatus == {"none", "waiting", "reserved", "matched", "cancelled", "expired"}
Ticket == [status : TicketStatus, expires : Nat, until : Nat, source : Tickets \cup {NoTicket}]
NotEntered == [status |-> "none", expires |-> 0, until |-> 0, source |-> NoTicket]

MatchStatus == {"none", "pending_acceptance", "active", "cancelled", "expired"}
Match == [status : MatchStatus, deadline : Nat, accepted : SUBSET Tickets,
          decliner : Tickets \cup {NoTicket}]
NoMatch == [status |-> "none", deadline |-> 0, accepted |-> {}, decliner |-> NoTicket]

Worker == [at : {"idle", "selected", "claimed", "creating", "created", "refused"},
           pair : Pairings \cup {{}}, until : Nat]
Idle == [at |-> "idle", pair |-> {}, until |-> 0]

Recon == [at : {"idle", "claim", "read", "apply"}, batch : SUBSET Tickets,
          found : SUBSET Tickets]
Resting == [at |-> "idle", batch |-> {}, found |-> {}]

\* Every row, match and worker is well formed; a ticket carries a reservation
\* deadline exactly while it is reserved (the CHECK
\* ck_queue_ticket__reserved_iff_deadline) and a player holds at most one live
\* ticket (QT-1).
TypeOK ==
  /\ now \in Nat
  /\ ticket \in [Tickets -> Ticket]
  /\ \A t \in Tickets : (ticket[t].status = "reserved") <=> (ticket[t].until # 0)
  /\ \A s, t \in Tickets :
       /\ OwnerOf[s] = OwnerOf[t]
       /\ ticket[s].status \in {"waiting", "reserved"}
       /\ ticket[t].status \in {"waiting", "reserved"}
       => s = t
  /\ match \in [Pairings -> Match]
  /\ barred \in [Players -> Nat]
  /\ owed \in SUBSET Pairings
  /\ worker \in [Workers -> Worker]
  /\ sweeping \in [Sweepers -> SUBSET Tickets]
  /\ recon \in [Reconcilers -> Recon]
  /\ late \in BOOLEAN /\ retaken \in BOOLEAN
  /\ crashes \in 0..MaxCrashes

Init ==
  /\ now = 0
  /\ ticket = [t \in Tickets |-> NotEntered]
  /\ match = [p \in Pairings |-> NoMatch]
  /\ barred = [p \in Players |-> 0]
  /\ owed = {}
  /\ worker = [w \in Workers |-> Idle]
  /\ sweeping = [s \in Sweepers |-> {}]
  /\ recon = [r \in Reconcilers |-> Resting]
  /\ late = FALSE /\ retaken = FALSE
  /\ crashes = 0

-----------------------------------------------------------------------------
(* Reading the queue *)

Live(t) == ticket[t].status \in {"waiting", "reserved"}
Due(t) == ticket[t].expires <= now
Has(t, status) == ticket[t].status = status
All(tickets, status) == \A t \in tickets : Has(t, status)

\* `active_ticket`: live, and its window still open.
Active(p) == {t \in Tickets : OwnerOf[t] = p /\ Live(t) /\ ~Due(t)}

\* Every ticket some match was created from.
Seated == UNION {p \in Pairings : match[p].status # "none"}

(* Writing it *)

\* `_transition`: all of `tickets` move, or none does.
Moved(tickets, expected, status, until) ==
  IF All(tickets, expected)
  THEN [t \in Tickets |-> IF t \in tickets
                          THEN [ticket[t] EXCEPT !.status = status, !.until = until]
                          ELSE ticket[t]]
  ELSE ticket

\* Mutant of Expired: the sweep writes whatever it claimed.
ExpiredAll(tickets) ==
  [t \in Tickets |-> IF t \in tickets THEN [ticket[t] EXCEPT !.status = "expired", !.until = 0]
                     ELSE ticket[t]]

Expired(tickets) ==
  [t \in Tickets |-> IF t \in tickets /\ Live(t)
                     THEN [ticket[t] EXCEPT !.status = "expired", !.until = 0]
                     ELSE ticket[t]]

\* Mutant of Admits: one waiting ticket for each player, as the index said before
\* reservations existed.
AdmitsBesideReserved(p, source) ==
  /\ \A t \in Tickets : OwnerOf[t] = p => ~Has(t, "waiting")
  /\ source # NoTicket => \A t \in Tickets : ticket[t].source # source

\* What `enqueue` inserts, and the two unique indexes that may refuse it.
Entered(source) ==
  [status |-> "waiting", expires |-> now + TicketTtl, until |-> 0, source |-> source]
Admits(p, source) ==
  /\ \A t \in Tickets : OwnerOf[t] = p => ~Live(t)
  /\ source # NoTicket => \A t \in Tickets : ticket[t].source # source
Unused(p) == {t \in Tickets : OwnerOf[t] = p /\ Has(t, "none")}

-----------------------------------------------------------------------------
(* Players *)

\* `join`.  Its reads before the insert only improve the error: the insert is
\* what the indexes decide.
Join(p) ==
  /\ barred[p] <= now
  /\ Admits(p, NoTicket)
  /\ now <= MaxJoin
  /\ \E t \in Unused(p) : ticket' = [ticket EXCEPT ![t] = Entered(NoTicket)]
  /\ UNCHANGED <<now, gameVars, jobVars, history, crashes>>

\* `leave`: `cancel` moves only a ticket still waiting, whatever the read before
\* it saw; the ticket may have come due since.
Leave(p) ==
  /\ \E t \in Tickets : /\ OwnerOf[t] = p /\ Has(t, "waiting")
                        /\ ticket' = Moved({t}, "waiting", "cancelled", 0)
  /\ UNCHANGED <<now, gameVars, jobVars, history, crashes>>

IsOpen(p) == match[p].status = "pending_acceptance" /\ now <= match[p].deadline

Accept(p, t) ==
  /\ t \in p /\ IsOpen(p) /\ t \notin match[p].accepted
  /\ LET accepted == match[p].accepted \cup {t} IN
     match' = [match EXCEPT ![p].accepted = accepted,
                            ![p].status = IF accepted = p THEN "active" ELSE @]
  /\ UNCHANGED <<now, ticket, barred, owed, jobVars, history, crashes>>

\* `declined` does not ask whether this side had accepted before, and keeps
\* its accepted_at; the event carries both.
Decline(p, t) ==
  /\ t \in p /\ IsOpen(p)
  /\ match' = [match EXCEPT ![p].status = "cancelled", ![p].decliner = t]
  /\ owed' = owed \cup {p}
  /\ UNCHANGED <<now, ticket, barred, jobVars, history, crashes>>

-----------------------------------------------------------------------------
(* PairingService.pair_once *)

At(w, step) == worker[w].at = step
Goes(w, step) == worker' = [worker EXCEPT ![w].at = step]
Ends(w) == worker' = [worker EXCEPT ![w] = Idle]

\* The snapshot and the engine's choice: no lock is held afterwards.
Select(w) ==
  /\ At(w, "idle")
  /\ \E p \in Pairings :
       /\ \A t \in p : Has(t, "waiting") /\ ~Due(t)
       /\ worker' = [worker EXCEPT ![w] = [at |-> "selected", pair |-> p, until |-> 0]]
  /\ UNCHANGED <<now, ticket, gameVars, sweeping, recon, history, crashes>>

\* `_claim`: locks both rows, or neither, and gives both one deadline.
Claim(w) ==
  LET p == worker[w].pair  until == now + ReservationTtl IN
  /\ At(w, "selected")
  /\ IF \A t \in p : Has(t, "waiting") /\ ~Due(t)
     THEN /\ ticket' = Moved(p, "waiting", "reserved", until)
          /\ worker' = [worker EXCEPT ![w].at = "claimed", ![w].until = until]
          /\ retaken' = (retaken \/ \E r \in Reconcilers : p \cap recon[r].batch # {})
     ELSE Ends(w) /\ UNCHANGED <<ticket, retaken>>
  /\ UNCHANGED <<now, gameVars, sweeping, recon, late, crashes>>

\* `create_match` stamps created_at; the record refuses a window that closed
\* before it opened.
BeginCreate(w) ==
  /\ At(w, "claimed")
  /\ Goes(w, IF now < worker[w].until THEN "creating" ELSE "refused")
  /\ UNCHANGED <<now, ticket, gameVars, sweeping, recon, history, crashes>>

\* A refusal or a fault of `game`, before anything was written there.
Refused(w) ==
  /\ At(w, "claimed") \/ At(w, "creating")
  /\ crashes < MaxCrashes /\ crashes' = crashes + 1
  /\ Goes(w, "refused")
  /\ UNCHANGED <<now, ticket, gameVars, sweeping, recon, history>>

\* The unique index of each side; a ticket may sit on either.
SeatTaken(p) ==
  \E q \in Pairings \ {p} :
    /\ match[q].status # "none"
    /\ \/ LightOf[q] = LightOf[p]
       \/ q \ {LightOf[q]} = p \ {LightOf[p]}

\* The insert commits: a match of this pairing id is returned as it is.
CommitCreate(w) ==
  LET p == worker[w].pair IN
  /\ At(w, "creating")
  /\ IF match[p].status # "none" THEN Goes(w, "created") /\ UNCHANGED match
     ELSE IF SeatTaken(p) THEN Goes(w, "refused") /\ UNCHANGED match
     ELSE /\ match' = [match EXCEPT ![p] = [NoMatch EXCEPT !.status = "pending_acceptance",
                                                          !.deadline = worker[w].until]]
          /\ Goes(w, "created")
  /\ UNCHANGED <<now, ticket, barred, owed, sweeping, recon, history, crashes>>

\* `_complete`: both reserved tickets become matched, or the worker gives up.
Complete(w) ==
  /\ At(w, "created")
  /\ ticket' = Moved(worker[w].pair, "reserved", "matched", 0)
  /\ Ends(w)
  /\ UNCHANGED <<now, gameVars, sweeping, recon, history, crashes>>

\* `_release`: both go back to the queue, or the worker gives up.
Release(w) ==
  /\ At(w, "refused")
  /\ ticket' = Moved(worker[w].pair, "reserved", "waiting", 0)
  /\ Ends(w)
  /\ UNCHANGED <<now, gameVars, sweeping, recon, history, crashes>>

CrashWorker(w) ==
  /\ ~At(w, "idle") /\ crashes < MaxCrashes /\ crashes' = crashes + 1
  /\ Ends(w)
  /\ UNCHANGED <<now, ticket, gameVars, sweeping, recon, history>>

-----------------------------------------------------------------------------
(* QueueService.expire_due: the claim commits, so its locks are gone when the *)
(* second transaction writes.                                                 *)

ClaimDue(s) ==
  /\ sweeping[s] = {}
  /\ \E t \in Tickets : Live(t) /\ Due(t)
  /\ sweeping' = [sweeping EXCEPT ![s] = {t \in Tickets : Live(t) /\ Due(t)}]
  /\ UNCHANGED <<now, ticket, gameVars, worker, recon, history, crashes>>

ExpireDue(s) ==
  /\ sweeping[s] # {}
  /\ ticket' = Expired(sweeping[s])
  /\ sweeping' = [sweeping EXCEPT ![s] = {}]
  /\ UNCHANGED <<now, gameVars, worker, recon, history, crashes>>

CrashSweeper(s) ==
  /\ sweeping[s] # {} /\ crashes < MaxCrashes /\ crashes' = crashes + 1
  /\ sweeping' = [sweeping EXCEPT ![s] = {}]
  /\ UNCHANGED <<now, ticket, gameVars, worker, recon, history>>

-----------------------------------------------------------------------------
(* PairingReconciliationService.reconcile_once *)

Overdue == {p \in Pairings : match[p].status = "pending_acceptance" /\ match[p].deadline <= now}
Stale == {t \in Tickets : Has(t, "reserved") /\ ticket[t].until <= now}

\* Its first half is `game`'s own sweep; see LiveMatch for the inside of it. A
\* pass that would find nothing at all is left out.
ExpireMatches(r) ==
  /\ recon[r].at = "idle" /\ (Overdue # {} \/ Stale # {})
  /\ match' = [p \in Pairings |-> IF p \in Overdue
                                  THEN [match[p] EXCEPT !.status = "expired"] ELSE match[p]]
  /\ owed' = owed \cup Overdue
  /\ recon' = [recon EXCEPT ![r].at = "claim"]
  /\ UNCHANGED <<now, ticket, barred, worker, sweeping, history, crashes>>

ClaimStale(r) ==
  /\ recon[r].at = "claim"
  /\ recon' = [recon EXCEPT ![r] = IF Stale = {} THEN Resting
                                   ELSE [at |-> "read", batch |-> Stale, found |-> {}]]
  /\ UNCHANGED <<now, ticket, gameVars, worker, sweeping, history, crashes>>

\* Mutants of ReadSettlements: a failed read counts as no match; every stale
\* reservation counts as settled.
ReadNothing(r) ==
  /\ recon[r].at = "read"
  /\ recon' = [recon EXCEPT ![r].at = "apply"]
  /\ UNCHANGED <<now, ticket, gameVars, worker, sweeping, history, crashes>>
ReadEverything(r) ==
  /\ recon[r].at = "read"
  /\ recon' = [recon EXCEPT ![r].at = "apply", ![r].found = recon[r].batch]
  /\ UNCHANGED <<now, ticket, gameVars, worker, sweeping, history, crashes>>

\* `settlements_for`: the only read of the match table, outside a transaction.
ReadSettlements(r) ==
  /\ recon[r].at = "read"
  /\ recon' = [recon EXCEPT ![r].at = "apply", ![r].found = recon[r].batch \cap Seated]
  /\ UNCHANGED <<now, ticket, gameVars, worker, sweeping, history, crashes>>

\* `_apply`: settle one by one, release all or none, expire what is still live.
Apply(r) ==
  LET batch == recon[r].batch
      settled == {t \in recon[r].found : Has(t, "reserved")}
      lapsed == {t \in batch \ recon[r].found : Due(t)}
      returned == (batch \ recon[r].found) \ lapsed
      released == IF All(returned, "reserved") THEN returned ELSE {}
      overdue == {t \in lapsed : Live(t)}
  IN
  /\ recon[r].at = "apply"
  /\ ticket' = [t \in Tickets |->
       IF t \in settled THEN [ticket[t] EXCEPT !.status = "matched", !.until = 0]
       ELSE IF t \in released THEN [ticket[t] EXCEPT !.status = "waiting", !.until = 0]
       ELSE IF t \in overdue THEN [ticket[t] EXCEPT !.status = "expired", !.until = 0]
       ELSE ticket[t]]
  /\ recon' = [recon EXCEPT ![r] = Resting]
  /\ UNCHANGED <<now, gameVars, worker, sweeping, history, crashes>>

CrashReconciler(r) ==
  /\ recon[r].at # "idle" /\ crashes < MaxCrashes /\ crashes' = crashes + 1
  /\ recon' = [recon EXCEPT ![r] = Resting]
  /\ UNCHANGED <<now, ticket, gameVars, worker, sweeping, history>>

-----------------------------------------------------------------------------
(* MatchOutcomeService, consuming match_declined and match_acceptance_expired *)

\* `requeue` of source `t`: the ticket it adds, or the queue as it is.
Restores(t) ==
  /\ Active(OwnerOf[t]) = {} /\ barred[OwnerOf[t]] <= now
  /\ Has(t, "matched") /\ Admits(OwnerOf[t], t)

Requeue(t) ==
  IF Restores(t)
  THEN \E s \in Unused(OwnerOf[t]) : ticket' = [ticket EXCEPT ![s] = Entered(t)]
  ELSE UNCHANGED ticket

\* Mutant of RequeueAll: both players are put back, whoever answered.
RequeueBoth(p) == \E t \in p : Requeue(t)

\* At most one side had accepted: two acceptances are an active match.
RequeueAll(p) ==
  IF match[p].accepted = {} THEN UNCHANGED ticket
  ELSE \E t \in match[p].accepted : Requeue(t)

Barred(p) ==
  IF match[p].decliner = NoTicket THEN barred
  ELSE [barred EXCEPT ![OwnerOf[match[p].decliner]] = IF @ < now + CooldownTtl
                                                      THEN now + CooldownTtl ELSE @]

\* The whole entry: requeue first, then the cooldown, in two transactions.
ApplyPolicy(p) ==
  /\ p \in owed
  /\ RequeueAll(p)
  /\ barred' = Barred(p)
  /\ owed' = owed \ {p}
  /\ UNCHANGED <<now, match, jobVars, history, crashes>>

\* The requeue committed and the cooldown or the mark did not: redelivered. What
\* happens between the two transactions of an entry is this and ApplyPolicy.
PolicyInterrupted(p) ==
  /\ p \in owed /\ crashes < MaxCrashes /\ crashes' = crashes + 1
  /\ RequeueAll(p)
  /\ barred' \in {barred, Barred(p)}
  /\ UNCHANGED <<now, match, owed, jobVars, history>>

-----------------------------------------------------------------------------
Busy(w) == worker[w].at \in {"claimed", "creating", "created", "refused"}

\* Nothing bounds how long an insert may take, so a reservation may lapse
\* under the worker that holds it: thirty seconds against one insert and one
\* update, and `late` records that it happened.
Tick ==
  /\ now < MaxNow
  /\ now' = now + 1
  /\ late' = (late \/ \E w \in Workers : Busy(w) /\ worker[w].until <= now')
  /\ UNCHANGED <<ticket, gameVars, jobVars, retaken, crashes>>

Pair(w) == Select(w) \/ Claim(w) \/ BeginCreate(w) \/ Refused(w) \/ CommitCreate(w)
           \/ Complete(w) \/ Release(w) \/ CrashWorker(w)
Sweep(s) == ClaimDue(s) \/ ExpireDue(s) \/ CrashSweeper(s)
Reconcile(r) == ExpireMatches(r) \/ ClaimStale(r) \/ ReadSettlements(r) \/ Apply(r)
                \/ CrashReconciler(r)
Queue(p) == Join(p) \/ Leave(p)
Handshake(p) == ApplyPolicy(p) \/ PolicyInterrupted(p)
                \/ \E t \in p : Accept(p, t) \/ Decline(p, t)

Next ==
  \/ Tick
  \/ \E p \in Players : Queue(p)
  \/ \E w \in Workers : Pair(w)
  \/ \E s \in Sweepers : Sweep(s)
  \/ \E r \in Reconcilers : Reconcile(r)
  \/ \E p \in Pairings : Handshake(p)

Spec == Init /\ [][Next]_vars

-----------------------------------------------------------------------------
(* Properties *)

\* A player the queue says is waiting, or who was told they left it, has no
\* match: pairing_service marks nothing matched before `game` has the match, and
\* the reconcilers release only what `game` has no match for.
UnmatchedHasNoMatch ==
  \A t \in Tickets : ticket[t].status \in {"waiting", "cancelled"} => t \notin Seated

\* "A queue ticket produces at most one match" (game/infrastructure/models.py),
\* although the two unique indexes behind it only compare like sides.
OneMatchPerTicket ==
  \A p, q \in Pairings :
    match[p].status # "none" /\ match[q].status # "none" /\ p \cap q # {} => p = q

\* What the queue says of a ticket and the matches that name it agree: a ticket
\* has at most one, and none while its player is waiting or has left.  Exempt are
\* the two ways a reservation is ended by who does not mean it: an insert that
\* outlasts its reservation, and a reconciler that comes second, whose release
\* compares the status and not the deadline, and so may end a reservation that
\* was taken after it read.
NoSecondMatch == late \/ retaken \/ (UnmatchedHasNoMatch /\ OneMatchPerTicket)

\* A matched ticket really has a match, whoever settled it and however late:
\* no worker marks a ticket for a match that was not committed.
MatchedHasMatch == \A t \in Tickets : Has(t, "matched") => t \in Seated

\* A place in line is given back only to the owner of a ticket that produced a
\* match, which they accepted and which failed, whatever is redelivered; also to
\* one who then declined (RequeuesAreOwed).
RequeuesFollowAFailure ==
  \A s \in Tickets : ticket[s].source # NoTicket =>
    LET t == ticket[s].source IN
    /\ Has(t, "matched") /\ OwnerOf[s] = OwnerOf[t]
    /\ \E p \in Pairings : /\ t \in match[p].accepted
                           /\ match[p].status \in {"cancelled", "expired"}

\* "The player who declined": "cooldown, not requeued", although they may have
\* accepted first: nobody gets a place back for a match they declined.
RequeuesAreOwed ==
  \A s \in Tickets, p \in Pairings :
    ticket[s].source # NoTicket => ticket[s].source # match[p].decliner

\* No interleaving of the players, the scans and the three jobs resolves a
\* ticket twice, cancels or matches one except from where its guard expects it,
\* or takes the deadline of a reservation away without ending it.
TicketLife ==
  [][\A t \in Tickets :
       /\ ticket[t].status \in {"matched", "cancelled", "expired"} => ticket'[t] = ticket[t]
       /\ ticket'[t].status = "matched" => ticket[t].status \in {"reserved", "matched"}
       /\ ticket'[t].status = "cancelled" => ticket[t].status \in {"waiting", "cancelled"}
       /\ ticket[t].status = "reserved" /\ ticket'[t].status = "reserved"
            => ticket'[t].until = ticket[t].until
       /\ ticket[t].status # "none" => ticket'[t].expires = ticket[t].expires]_vars
=============================================================================
