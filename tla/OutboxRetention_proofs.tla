------------------------ MODULE OutboxRetention_proofs ------------------------
(***************************************************************************)
(* Theorems about the relays with the retention job beside them, for every *)
(* number of entries, relays and consumers and every retention policy.     *)
(* They are stated of RetentionSpec, the specification TLC checks: what    *)
(* OutboxRelay_proofs shows of the relays alone survives the job.          *)
(***************************************************************************)
EXTENDS OutboxRetention, OutboxRelay_proofs

-----------------------------------------------------------------------------
(* The invariants of the relays, kept by the job *)

RelayInv ==
  /\ TypeOK
  /\ DeliveryInv
  /\ Budget + Slack < Lease => LeaseInv
  /\ SilentInv
  /\ HeldInv
  /\ AttemptsInv

LEMMA RelayInvInit == Init => RelayInv
BY InitType, DeliveryInvInductive, HeldInvInductive, InitAttempts
   DEF RelayInv, Init, LeaseInv, SilentInv, NoSilentAttempt, NoRow

LEMMA RelayInvStep == RelayInv /\ [Next]_vars => RelayInv'
BY StepType, DeliveryInvInductive, LeaseStep, SilentInvInductive, HeldInvInductive,
   AttemptsInvInductive
   DEF RelayInv

\* Every step of the relays' own, and every one that leaves them alone.
LEMMA RelaySteps ==
  ASSUME [RetentionNext]_allVars
  PROVE  [Next]_vars \/ PruneEntries \/ PruneLedger
BY DEF RetentionNext, DeliveryStep, TimePasses, PruneStart, PruneFails, allVars, Next

\* A batch of rows deletes only published ones, and keeps count of the attempts.
Deletes(S) ==
  /\ S \subseteq Entry
  /\ \A e \in S : row[e].state = "published" /\ row'[e].state = "deleted"
                  /\ row'[e].attempts = row[e].attempts
  /\ \A e \in Entry \ S : row'[e] = row[e]
  /\ row' \in [Entry -> Row]
  /\ UNCHANGED <<ledger, effects, relayVars, losses>>

LEMMA PruneDeletes ==
  ASSUME TypeOK, PruneEntries
  PROVE  \E S \in SUBSET Entry : Deletes(S)
<1> DEFINE S == Oldest(Doomed, PruneBatch) \cap Entry
           gone(e) == [NoRow EXCEPT !.state = "deleted", !.attempts = row[e].attempts]
<1>1. \A e \in S : row[e].state = "published"
  BY DEF Oldest, Doomed
<1>2. \A e \in Entry : row'[e] = IF e \in S THEN gone(e) ELSE row[e]
  BY DEF PruneEntries
<1>3. \A e \in Entry : /\ gone(e) \in Row
                       /\ gone(e).state = "deleted" /\ gone(e).attempts = row[e].attempts
  BY DEF NoRow, Row, RowState, TypeOK
<1>4. row' \in [Entry -> Row]
  <2>1. row' = [e \in Entry |-> IF e \in S THEN gone(e) ELSE row[e]]
    BY DEF PruneEntries
  <2> HIDE DEF gone, S
  <2> QED
    BY <1>3, <2>1 DEF TypeOK
<1>5. UNCHANGED <<ledger, effects, relayVars, losses>>
  BY DEF PruneEntries
<1> QED
  BY ZenonT(60), <1>1, <1>2, <1>3, <1>4, <1>5 DEF Deletes

\* No invariant of the relays is about a published row that they still hold.
LEMMA RelayInvPruned ==
  ASSUME RelayInv, PruneEntries
  PROVE  RelayInv'
<1>1. PICK S \in SUBSET Entry : Deletes(S)
  BY PruneDeletes DEF RelayInv
<1>2. UNCHANGED <<ledger, effects, batch, counted, elapsed, task, orphan, losses>>
  BY <1>1 DEF Deletes, relayVars
<1>3. \A e \in Entry : /\ row'[e].state # row[e].state
                            => row[e].state = "published" /\ row'[e].state = "deleted"
                       /\ row'[e].attempts = row[e].attempts
  BY <1>1 DEF Deletes
<1>4. TypeOK'
  BY <1>1, <1>2 DEF RelayInv, TypeOK, Deletes
<1>5. DeliveryInv'
  <2>1. PublishedWasHandled'
    BY <1>2, <1>3 DEF RelayInv, DeliveryInv, PublishedWasHandled
  <2>2. \A r \in Relay, c \in Consumer : TaskSound(r, c)'
    BY <1>2 DEF RelayInv, DeliveryInv, TaskSound, Slice, Done
  <2> QED
    BY <1>2, <2>1, <2>2 DEF RelayInv, DeliveryInv, LedgerSound, OrphanSound, Done
<1>6. ASSUME Budget + Slack < Lease
      PROVE  LeaseInv'
  <2>1. \A r \in Relay : batch[r] \subseteq Entry
    BY DEF RelayInv, TypeOK
  <2>2. \A r \in Relay : \A e \in batch[r] : e \notin S
    BY <1>1, <1>6 DEF RelayInv, LeaseInv, Deletes
  <2> QED
    BY <1>1, <1>2, <1>6, <2>1, <2>2 DEF RelayInv, LeaseInv, Deletes
<1>7. SilentInv'
  <2>1. \A e \in Entry : row'[e].state = "pending" => row'[e] = row[e]
    BY <1>1 DEF Deletes
  <2> QED
    BY <1>2, <1>3, <2>1 DEF RelayInv, SilentInv, NoSilentAttempt
<1>8. HeldInv'
  BY <1>2, <1>3 DEF RelayInv, HeldInv, TypeOK
<1>9. AttemptsInv'
  BY <1>2, <1>3 DEF RelayInv, AttemptsInv, Within, Owing
<1> QED
  BY <1>4, <1>5, <1>6, <1>7, <1>8, <1>9 DEF RelayInv

\* A shorter ledger suppresses less and claims less.
LEMMA RelayInvForgets ==
  ASSUME RelayInv, PruneLedger
  PROVE  RelayInv'
<1>1. /\ UNCHANGED <<row, effects, batch, counted, elapsed, task, orphan, losses>>
      /\ ledger' \subseteq ledger
  BY DEF PruneLedger, relayVars
<1>2. TypeOK'
  BY <1>1 DEF RelayInv, TypeOK
<1>3. DeliveryInv'
  <2>1. \A r \in Relay, c \in Consumer : TaskSound(r, c)'
    BY <1>1 DEF RelayInv, DeliveryInv, TaskSound, Slice, Done
  <2> QED
    BY <1>1, <2>1 DEF RelayInv, DeliveryInv, LedgerSound, OrphanSound, PublishedWasHandled, Done
<1>4. Budget + Slack < Lease => LeaseInv'
  BY <1>1 DEF RelayInv, LeaseInv
<1>5. SilentInv' /\ HeldInv'
  BY <1>1 DEF RelayInv, SilentInv, NoSilentAttempt, HeldInv
<1>6. AttemptsInv'
  BY <1>1 DEF RelayInv, AttemptsInv, Within, Owing
<1> QED
  BY <1>2, <1>3, <1>4, <1>5, <1>6 DEF RelayInv

LEMMA RetentionKeepsRelays ==
  ASSUME RelayInv, [RetentionNext]_allVars
  PROVE  RelayInv'
BY RelaySteps, RelayInvStep, RelayInvPruned, RelayInvForgets

-----------------------------------------------------------------------------
\* What every reachable state of the relays with the job beside them satisfies:
\* the rows, the ledger and the deliveries keep their types, nothing leaves the
\* backlog unhandled, the ledger claims nothing that was not done, no two relays
\* hold one row, no attempt ends without an outcome, and none is used twice.
THEOREM RelaysSurviveRetention ==
  RetentionSpec => [](/\ TypeOK /\ PublishedWasHandled /\ LedgerSound /\ LeaseExclusive
                      /\ NoSilentAttempt /\ EffectsWithinAttempts)
<1>1. RetentionInit => RelayInv
  BY RelayInvInit DEF RetentionInit
<1>2. RelayInv /\ [RetentionNext]_allVars => RelayInv'
  BY RetentionKeepsRelays
<1>3. RelayInv => /\ TypeOK /\ PublishedWasHandled /\ LedgerSound /\ LeaseExclusive
                  /\ NoSilentAttempt /\ EffectsWithinAttempts
  BY AttemptsBound DEF RelayInv, DeliveryInv, LeaseInv, LeaseExclusive, SilentInv
<1> QED
  BY <1>1, <1>2, <1>3, PTL DEF RetentionSpec

\* A step of the job deletes published rows of the abstract delivery, or is
\* invisible there.
LEMMA RetentionSimulates ==
  ASSUME RelayInv, [RetentionNext]_allVars
  PROVE  [Delivery!Next]_(Delivery!vars)
<1>1. CASE [Next]_vars
  BY <1>1, StepSimulates DEF RelayInv
<1>2. CASE PruneLedger
  <2>1. UNCHANGED <<row, effects>>
    BY <1>2 DEF PruneLedger
  <2> QED
    BY <2>1, InvisibleStep
<1>3. CASE PruneEntries
  <2>1. PICK S \in SUBSET Entry : Deletes(S)
    BY <1>3, PruneDeletes DEF RelayInv
  <2>2. Statuses' = [e \in Entry |-> IF e \in S THEN "deleted" ELSE Statuses[e]]
    BY <2>1 DEF Deletes, Statuses
  <2>3. \A e \in S : Statuses[e] = "published"
    BY <2>1 DEF Deletes, Statuses
  <2>4. effects' = effects
    BY <2>1 DEF Deletes
  <2>5. Delivery!Delete(S)
    BY <2>2, <2>3, <2>4 DEF Delivery!Delete, Statuses
  <2> QED
    BY <2>5 DEF Delivery!Next
<1> QED
  BY <1>1, <1>2, <1>3, RelaySteps

\* The relays and the retention job together implement the at-least-once delivery
\* of EventDelivery: the job is its only way to delete, and it deletes only what
\* was published.
THEOREM RetentionImplementsDelivery == RetentionSpec => DeliverySpec
<1>1. RetentionInit => RelayInv /\ Delivery!Init
  BY RelayInvInit DEF RetentionInit, Init, Delivery!Init, NoRow
<1>2. RelayInv /\ [RetentionNext]_allVars => RelayInv'
  BY RetentionKeepsRelays
<1>3. RelayInv /\ [RetentionNext]_allVars => [Delivery!Next]_(Delivery!vars)
  BY RetentionSimulates
<1> QED
  BY <1>1, <1>2, <1>3, PTL DEF RetentionSpec, DeliverySpec, Delivery!Spec

-----------------------------------------------------------------------------
(* What retention may forget *)

Run == [stage : {"idle", "entries", "ledger"}, batches : Nat,
        entries : SUBSET Entry, records : SUBSET (Consumer \X Entry)]

RetentionType ==
  /\ age \in [Entry -> Nat]
  /\ recordAge \in [Consumer -> [Entry -> Nat]]
  /\ marked \subseteq Consumer \X Entry
  /\ pruner \in Run /\ pruner.records \subseteq marked

\* YoungEntryKeepsLedger is not inductive: it needs that a ledger row is never
\* older than the entry it is about, so that what a run set out to delete is
\* about old entries only, then and whenever the deletion comes.
AgesInv ==
  /\ ledger \subseteq marked
  /\ \A p \in marked : row[p[2]].state # "absent"
  /\ \A p \in ledger : recordAge[p[1]][p[2]] <= age[p[2]]
  /\ \A p \in (marked \ ledger) \cup pruner.records : age[p[2]] > LedgerRetention

LEMMA OlderGrows ==
  ASSUME NEW m \in Nat, NEW n \in Nat
  PROVE  /\ Older(n) \in Nat /\ n <= Older(n)
         /\ m <= n => Older(m) <= Older(n)
BY RetentionAssumption DEF Older

\* Only work that was claimed is ledgered, so its row was committed.
LedgeredRows == \A p \in ledger : row[p[2]].state # "absent"

LEMMA LedgeredPresent == RelayInv => LedgeredRows
<1> SUFFICES ASSUME RelayInv, NEW p \in ledger
             PROVE  row[p[2]].state # "absent"
  BY DEF LedgeredRows
<1>1. PICK c \in Consumer, e \in Entry : p = <<c, e>>
  BY DEF RelayInv, TypeOK
<1>2. effects[c][e] > 0 /\ effects[c][e] <= row[e].attempts
  BY <1>1, AttemptsBound DEF RelayInv, DeliveryInv, LedgerSound, EffectsWithinAttempts
<1>3. effects[c][e] \in Nat /\ row[e].attempts \in Nat
  BY ParametersAssumption DEF RelayInv, TypeOK, Row, ParametersAssumption
<1>4. row[e].attempts # 0
  BY <1>2, <1>3
<1> QED
  BY <1>1, <1>4 DEF RelayInv, SilentInv

\* A committed row stays one, whoever deletes it: nothing in EventDelivery makes
\* an event absent again.
LEMMA PresentStays ==
  ASSUME RelayInv, [RetentionNext]_allVars, NEW e \in Entry, row[e].state # "absent"
  PROVE  row'[e].state # "absent"
<1>1. Statuses[e] # "absent" /\ Statuses'[e] = row'[e].state
  BY DEF Statuses
<1>2. \/ \E f \in Entry : Statuses' = [Statuses EXCEPT ![f] = "pending"]
      \/ \E S \in SUBSET Entry, to \in {"published", "deleted"} :
           Statuses' = [f \in Entry |-> IF f \in S THEN to ELSE Statuses[f]]
      \/ Statuses' = Statuses
  BY RetentionSimulates
     DEF Delivery!Next, Delivery!Emit, Delivery!Handle, Delivery!Publish, Delivery!Delete,
         Delivery!vars, Statuses
<1> QED
  BY <1>1, <1>2 DEF Statuses

\* Ages only grow, and stop past the horizon they are compared with.
LEMMA TimeAges ==
  ASSUME RelayInv, RetentionType, AgesInv, TimePasses
  PROVE  RetentionType' /\ AgesInv'
<1>1. /\ UNCHANGED <<ledger, marked, pruner>>
      /\ age' = [e \in Entry |-> IF row[e].state = "absent" THEN 0 ELSE Older(age[e])]
      /\ recordAge' = [c \in Consumer |-> [e \in Entry |->
           IF <<c, e>> \in ledger THEN Older(recordAge[c][e]) ELSE recordAge[c][e]]]
      /\ [RetentionNext]_allVars
  BY DEF TimePasses, Tick, RetentionNext
<1>2. RetentionType'
  BY <1>1, OlderGrows DEF RetentionType
<1>3. \A p \in marked : p[1] \in Consumer /\ p[2] \in Entry /\ p = <<p[1], p[2]>>
  BY DEF RetentionType
<1>4. \A p \in marked : row'[p[2]].state # "absent"
  BY <1>1, <1>3, PresentStays DEF AgesInv
<1>5. \A p \in marked : age'[p[2]] = Older(age[p[2]])
  BY <1>1, <1>3 DEF AgesInv
<1>6. ASSUME NEW p \in ledger
      PROVE  recordAge'[p[1]][p[2]] <= age'[p[2]]
  <2>1. p \in marked /\ recordAge[p[1]][p[2]] \in Nat /\ age[p[2]] \in Nat
        /\ recordAge[p[1]][p[2]] <= age[p[2]]
    BY <1>3 DEF AgesInv, RetentionType
  <2>2. recordAge'[p[1]][p[2]] = Older(recordAge[p[1]][p[2]])
    BY <1>1, <1>3, <2>1
  <2> QED
    BY <1>5, <2>1, <2>2, OlderGrows
<1>7. ASSUME NEW p \in (marked \ ledger) \cup pruner.records
      PROVE  age'[p[2]] > LedgerRetention
  <2>1. p \in marked /\ age[p[2]] \in Nat /\ age[p[2]] > LedgerRetention
    BY <1>3 DEF AgesInv, RetentionType
  <2>2. age[p[2]] <= age'[p[2]] /\ age'[p[2]] \in Nat
    BY <1>5, <2>1, OlderGrows
  <2> QED
    BY <2>1, <2>2, RetentionAssumption
<1> QED
  BY <1>1, <1>2, <1>4, <1>6, <1>7 DEF AgesInv

\* A delivery only adds to the ledger, and what it adds is new there.
LEMMA DeliveryAges ==
  ASSUME RelayInv, RetentionType, AgesInv, DeliveryStep, LedgeredRows'
  PROVE  RetentionType' /\ AgesInv'
<1>1. /\ UNCHANGED <<age, pruner>> /\ marked' = marked \cup ledger'
      /\ recordAge' = [c \in Consumer |-> [e \in Entry |->
           IF <<c, e>> \in ledger' \ ledger THEN 0 ELSE recordAge[c][e]]]
      /\ [RetentionNext]_allVars
  BY DEF DeliveryStep, RetentionNext
<1>2. RelayInv'
  BY <1>1, RetentionKeepsRelays
<1>3. ledger' \subseteq Consumer \X Entry /\ ledger \subseteq ledger'
  <2>1. ledger' \subseteq Consumer \X Entry
    BY <1>2 DEF RelayInv, TypeOK
  <2>2. ledger \subseteq ledger'
    <3>1. ASSUME NEW r \in Relay, NEW c \in Consumer, Deliver(r, c)
          PROVE  ledger \subseteq ledger'
      BY <3>1 DEF Deliver, Filter, HandlerCommits, HandlerRejects, HandlerRaises, HandlerReturns,
                  MarkProcessed, SessionError, Timeout, LateMark, LateMarkFails
    <3> QED
      BY <3>1 DEF DeliveryStep, Step, Enqueue, Claim, Record, Lose
  <2> QED
    BY <2>1, <2>2
<1>4. RetentionType'
  BY <1>1, <1>3 DEF RetentionType
<1>5. \A p \in marked' : row'[p[2]].state # "absent"
  <2>1. \A p \in ledger' : row'[p[2]].state # "absent"
    BY DEF LedgeredRows
  <2>2. \A p \in marked : row'[p[2]].state # "absent"
    BY <1>1, PresentStays DEF AgesInv, RetentionType
  <2> QED
    BY <1>1, <2>1, <2>2
<1>6. ASSUME NEW p \in ledger'
      PROVE  recordAge'[p[1]][p[2]] <= age'[p[2]]
  <2>1. p[1] \in Consumer /\ p[2] \in Entry /\ p = <<p[1], p[2]>> /\ age[p[2]] \in Nat
    BY <1>3 DEF RetentionType
  <2>2. recordAge'[p[1]][p[2]] = IF p \in ledger THEN recordAge[p[1]][p[2]] ELSE 0
    BY <1>1, <2>1
  <2> QED
    BY <1>1, <2>1, <2>2 DEF AgesInv
<1>7. \A p \in (marked' \ ledger') \cup pruner'.records : age'[p[2]] > LedgerRetention
  BY <1>1, <1>3 DEF AgesInv
<1> QED
  BY <1>1, <1>4, <1>5, <1>6, <1>7 DEF AgesInv

\* A run fixes what it deletes when it starts, and deletes nothing else.
LEMMA PruneAges ==
  ASSUME RelayInv, RetentionType, AgesInv,
         PruneStart \/ PruneEntries \/ PruneLedger \/ PruneFails \/ UNCHANGED allVars
  PROVE  RetentionType' /\ AgesInv'
<1>1. UNCHANGED <<age, recordAge, marked>>
  BY DEF PruneStart, PruneEntries, PruneLedger, PruneFails, allVars, retentionVars
<1>2. /\ ledger' \subseteq ledger /\ ledger \ ledger' \subseteq pruner.records
      /\ pruner' \in Run /\ pruner'.records \subseteq pruner.records \cup ExpiredRecords
  <2>0. /\ pruner \in Run /\ pruner.batches + 1 \in Nat
        /\ NoRun \in Run /\ NoRun.records = {}
    BY DEF RetentionType, Run, NoRun
  <2>1. CASE PruneStart
    <3>1. Expired \subseteq Entry /\ ExpiredRecords \subseteq Consumer \X Entry
      BY DEF Expired, ExpiredRecords, RelayInv, TypeOK
    <3> QED
      BY <2>1, <3>1 DEF PruneStart, vars, Run
  <2>2. CASE PruneEntries
    <3>1. /\ ledger' = ledger
          /\ \/ pruner' = [pruner EXCEPT !.stage = "ledger", !.batches = 0]
             \/ pruner' = [pruner EXCEPT !.batches = @ + 1]
      BY <2>2 DEF PruneEntries
    <3>2. \A n \in Nat, stage \in {"entries", "ledger"} :
            LET run == [pruner EXCEPT !.stage = stage, !.batches = n] IN
            run \in Run /\ run.records = pruner.records
      BY <2>0 DEF Run
    <3>3. [pruner EXCEPT !.batches = @ + 1]
            = [pruner EXCEPT !.stage = "entries", !.batches = pruner.batches + 1]
      BY <2>0, <2>2 DEF Run, PruneEntries
    <3> QED
      BY ZenonT(60), <2>0, <3>1, <3>2, <3>3
  <2>3. CASE PruneLedger
    <3>1. PICK removed \in SUBSET pruner.records :
            /\ ledger' = ledger \ removed
            /\ pruner' = IF Drained(removed) THEN NoRun
                         ELSE [pruner EXCEPT !.batches = @ + 1, !.records = @ \ removed]
      BY <2>3 DEF PruneLedger
    <3>2. pruner' \in Run /\ pruner'.records \subseteq pruner.records
      BY <2>0, <3>1 DEF Run
    <3> QED
      BY <3>1, <3>2
  <2>4. CASE PruneFails \/ UNCHANGED allVars
    BY <2>0, <2>4 DEF PruneFails, vars, allVars, retentionVars
  <2> QED
    BY <2>1, <2>2, <2>3, <2>4
<1>3. ASSUME NEW p \in ExpiredRecords
      PROVE  p \in marked /\ age[p[2]] > LedgerRetention
  <2>1. p \in marked /\ recordAge[p[1]][p[2]] \in Nat /\ age[p[2]] \in Nat
        /\ recordAge[p[1]][p[2]] <= age[p[2]] /\ recordAge[p[1]][p[2]] > LedgerRetention
    BY DEF ExpiredRecords, AgesInv, RetentionType
  <2> QED
    BY <2>1, RetentionAssumption
<1>4. RetentionType'
  BY <1>1, <1>2, <1>3 DEF RetentionType
<1>5. \A p \in marked : row'[p[2]].state # "absent"
  <2>1. [RetentionNext]_allVars
    BY DEF RetentionNext
  <2> QED
    BY <2>1, PresentStays DEF AgesInv, RetentionType
<1> QED
  BY <1>1, <1>2, <1>3, <1>4, <1>5 DEF AgesInv

\* Retention never makes a delivery repeat: a row young enough to be claimed again
\* keeps every ledger row it ever had, because an entry is at least as old as any
\* record of it and the ledger's horizon is what is cut.
THEOREM RetentionForgetsOnlyOld == RetentionSpec => []YoungEntryKeepsLedger
<1> DEFINE Inv == RelayInv /\ RetentionType /\ AgesInv
<1>1. RetentionInit => Inv
  <2>1. RetentionInit => RelayInv
    BY RelayInvInit DEF RetentionInit
  <2>2. RetentionInit => RetentionType /\ AgesInv
    BY DEF RetentionInit, Init, RetentionType, AgesInv, NoRun, Run
  <2> QED
    BY <2>1, <2>2
<1>2. Inv /\ LedgeredRows' /\ [RetentionNext]_allVars => Inv'
  BY RetentionKeepsRelays, TimeAges, DeliveryAges, PruneAges DEF RetentionNext
<1>3. Inv => YoungEntryKeepsLedger
  <2> SUFFICES ASSUME Inv, NEW c \in Consumer, NEW e \in Entry,
                      age[e] <= LedgerRetention, <<c, e>> \in marked
               PROVE  <<c, e>> \in ledger
    BY DEF YoungEntryKeepsLedger
  <2>1. age[e] \in Nat /\ ~(age[e] > LedgerRetention)
    BY RetentionAssumption DEF RetentionType
  <2> QED
    BY <2>1 DEF AgesInv
<1>4. RelayInv /\ [RetentionNext]_allVars => RelayInv'
  BY RetentionKeepsRelays
<1> QED
  BY <1>1, <1>2, <1>3, <1>4, LedgeredPresent, PTL DEF RetentionSpec
=============================================================================
