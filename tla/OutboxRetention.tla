---------------------------- MODULE OutboxRetention ----------------------------
(***************************************************************************)
(* OutboxRelay with the retention job beside it: a periodic run that fixes *)
(* its two cutoffs, deletes delivered rows past theirs batch by batch, and *)
(* then ledger rows past theirs, one transaction per batch.                *)
(*                                                                         *)
(* Ages stand for `occurred_at` and `processed_at`; they stop counting once *)
(* past the horizon they are compared with.                                *)
(***************************************************************************)
EXTENDS OutboxRelay, FiniteSetsExt

CONSTANTS PublishedRetention, LedgerRetention, PruneBatch, MaxBatches

\* RetentionPolicy.__post_init__
ASSUME RetentionAssumption ==
  /\ PublishedRetention \in Nat \ {0}
  /\ LedgerRetention \in Nat /\ LedgerRetention >= PublishedRetention
  /\ PruneBatch \in Nat \ {0} /\ MaxBatches \in Nat \ {0}

VARIABLES
  age,          \* age[e]: time since entry e's occurred_at
  recordAge,    \* recordAge[c][e]: time since the ledger row's processed_at
  marked,       \* history: every <<consumer, entry>> the ledger ever held
  pruner        \* the run in progress: its stage, batches so far, cutoffs

retentionVars == <<age, recordAge, marked, pruner>>
allVars == <<vars, retentionVars>>

NoRun == [stage |-> "idle", batches |-> 0, entries |-> {}, records |-> {}]

RetentionInit ==
  /\ Init
  /\ age = [e \in Entry |-> 0]
  /\ recordAge = [c \in Consumer |-> [e \in Entry |-> 0]]
  /\ marked = {}
  /\ pruner = NoRun

Older(n) == IF n > LedgerRetention THEN n ELSE n + 1

\* A step of the relays or of a producer; a ledger row is new when it appears,
\* and ON CONFLICT DO NOTHING keeps the `processed_at` of one that was there.
DeliveryStep ==
  /\ Step
  /\ recordAge' = [c \in Consumer |-> [e \in Entry |->
       IF <<c, e>> \in ledger' \ ledger THEN 0 ELSE recordAge[c][e]]]
  /\ marked' = marked \cup ledger'
  /\ UNCHANGED <<age, pruner>>

TimePasses ==
  /\ Tick
  /\ age' = [e \in Entry |-> IF row[e].state = "absent" THEN 0 ELSE Older(age[e])]
  /\ recordAge' = [c \in Consumer |-> [e \in Entry |->
       IF <<c, e>> \in ledger THEN Older(recordAge[c][e]) ELSE recordAge[c][e]]]
  /\ UNCHANGED <<marked, pruner>>

Expired == {e \in Entry : age[e] > PublishedRetention}

\* Mutant of ExpiredRecords: the ledger is cut at the outbox's horizon.
RecordsPastPublished == {p \in ledger : recordAge[p[1]][p[2]] > PublishedRetention}

ExpiredRecords == {p \in ledger : recordAge[p[1]][p[2]] > LedgerRetention}

\* `prune_once` reads the clock once: both cutoffs are fixed for the run.
PruneStart ==
  /\ pruner.stage = "idle"
  /\ pruner' = [stage |-> "entries", batches |-> 0,
                entries |-> Expired, records |-> ExpiredRecords]
  /\ UNCHANGED <<vars, age, recordAge, marked>>

\* `_drain`: a short batch, or the ceiling on batches, ends a stage.
Drained(removed) ==
  Cardinality(removed) < PruneBatch \/ pruner.batches + 1 = MaxBatches

\* One batch: up to PruneBatch of the rows that qualify.
IsBatch(removed, doomed) ==
  removed \subseteq doomed /\ Cardinality(removed) = Min({PruneBatch, Cardinality(doomed)})

\* Mutant of Doomed: undelivered rows past the horizon are deleted too.
DoomedByAge == {e \in pruner.entries : row[e].state # "deleted"}

Doomed == {e \in pruner.entries : row[e].state = "published"}

PruneEntries ==
  LET removed == Oldest(Doomed, PruneBatch)
  IN  /\ pruner.stage = "entries"
      /\ row' = [e \in Entry |->
           IF e \in removed THEN [NoRow EXCEPT !.state = "deleted",
                                               !.attempts = row[e].attempts]
           ELSE row[e]]
      /\ pruner' = IF Drained(removed)
                   THEN [pruner EXCEPT !.stage = "ledger", !.batches = 0]
                   ELSE [pruner EXCEPT !.batches = @ + 1]
      /\ UNCHANGED <<ledger, effects, relayVars, losses, age, recordAge, marked>>

PruneLedger ==
  \E removed \in SUBSET pruner.records :
    /\ pruner.stage = "ledger"
    /\ IsBatch(removed, pruner.records)
    /\ ledger' = ledger \ removed
    /\ pruner' = IF Drained(removed) THEN NoRun
                 ELSE [pruner EXCEPT !.batches = @ + 1, !.records = @ \ removed]
    /\ UNCHANGED <<row, effects, relayVars, losses, age, recordAge, marked>>

\* Any exception ends the run; what it had committed stays deleted.
PruneFails ==
  /\ pruner.stage # "idle"
  /\ pruner' = NoRun
  /\ UNCHANGED <<vars, age, recordAge, marked>>

RetentionNext ==
  \/ DeliveryStep
  \/ TimePasses
  \/ PruneStart
  \/ PruneEntries
  \/ PruneLedger
  \/ PruneFails

RetentionSpec == RetentionInit /\ [][RetentionNext]_allVars

\* The relays stay fair while the job runs; the job itself may never run.
RetentionFairSpec == RetentionSpec /\ Fairness

-----------------------------------------------------------------------------

\* A row younger than the ledger's horizon that a relay may still claim keeps
\* every ledger row ever written for it, so no handled event is handed over
\* again because of retention.
YoungEntryKeepsLedger ==
  \A c \in Consumer, e \in Entry :
    /\ row[e].state = "pending"
    /\ age[e] <= LedgerRetention
    /\ <<c, e>> \in marked
    => <<c, e>> \in ledger
=============================================================================
