-------------------------- MODULE OutboxRelay_proofs --------------------------
(* Proofs about OutboxRelay, for every number of entries, relays and consumers. *)
EXTENDS OutboxRelay, FiniteSetTheorems, TLAPS

-----------------------------------------------------------------------------
(* Type correctness *)

\* Initially every variable has its type.
LEMMA InitType == Init => TypeOK
  BY ParametersAssumption
  DEF ParametersAssumption, Init, TypeOK, Row, RowState, NoRow, Task, TaskStage, NoTask

\* The steps of a delivery replace one task by a task.
LEMMA DeliverType ==
  ASSUME TypeOK, NEW r \in Relay, NEW c \in Consumer, Deliver(r, c)
  PROVE  TypeOK'
<1> USE ParametersAssumption DEF ParametersAssumption
<1>s. Slice(r, c) \subseteq Entry
  BY DEF Slice, TypeOK
<1>t. task[r][c] \in Task
  BY DEF TypeOK
<1>b. ASSUME NEW t \in Task, Becomes(r, c, t)
      PROVE  task' \in [Relay -> [Consumer -> Task]]
  BY <1>b DEF Becomes, TypeOK
<1>1. CASE Filter(r, c)
  <2> DEFINE new == {e \in Slice(r, c) : <<c, e>> \notin ledger}
             t == [task[r][c] EXCEPT !.fresh = new,
                                     !.stage = IF new = {} THEN "done" ELSE "handle"]
  <2>1. t \in Task
    BY <1>s, <1>t DEF Task, TaskStage
  <2>2. task' \in [Relay -> [Consumer -> Task]]
    BY <1>1, <1>b, <2>1 DEF Filter
  <2> QED
    BY <1>1, <2>2 DEF Filter, TypeOK
<1>2. ASSUME NEW e \in Entry, HandlerCommits(r, c, e)
      PROVE  TypeOK'
  <2>1. [task[r][c] EXCEPT !.worked = @ \cup {e}] \in Task
    BY <1>t DEF Task, TaskStage
  <2> QED
    BY <1>2, <1>b, <2>1 DEF HandlerCommits, TypeOK
<1>3. ASSUME NEW e \in Entry, HandlerRejects(r, c, e)
      PROVE  TypeOK'
  <2>1. [task[r][c] EXCEPT !.failed = @ \cup {e}] \in Task
    BY <1>t DEF Task, TaskStage
  <2> QED
    BY <1>3, <1>b, <2>1 DEF HandlerRejects, TypeOK
<1>4. CASE HandlerRaises(r, c)
  <2>1. [task[r][c] EXCEPT !.failed = task[r][c].fresh, !.stage = "done"] \in Task
    BY <1>t DEF Task, TaskStage
  <2> QED
    BY <1>4, <1>b, <2>1 DEF HandlerRaises, TypeOK
<1>5. CASE HandlerReturns(r, c)
  <2>1. [task[r][c] EXCEPT !.stage = "mark"] \in Task
    BY <1>t DEF Task, TaskStage
  <2> QED
    BY <1>5, <1>b, <2>1 DEF HandlerReturns, TypeOK
<1>6. CASE MarkProcessed(r, c)
  <2>1. [task[r][c] EXCEPT !.stage = "done"] \in Task
    BY <1>t DEF Task, TaskStage
  <2>2. task[r][c].worked \subseteq Entry
    BY <1>t DEF Task
  <2> QED
    BY <1>6, <1>b, <2>1, <2>2 DEF MarkProcessed, TypeOK
<1>g. [task[r][c] EXCEPT !.failed = Slice(r, c), !.stage = "done"] \in Task
  BY <1>t, <1>s DEF Task, TaskStage
<1>7. CASE SessionError(r, c)
  BY <1>7, <1>b, <1>g DEF SessionError, TypeOK
<1>8. CASE Timeout(r, c)
  <2>1. orphan' \in [Relay -> [Consumer -> SUBSET Entry]]
    BY <1>8, <1>t DEF Timeout, TypeOK, Task
  <2> QED
    BY <1>8, <1>b, <1>g, <2>1 DEF Timeout, TypeOK
<1>9. CASE LateMark(r, c)
  BY <1>9 DEF LateMark, TypeOK
<1>10. CASE LateMarkFails(r, c)
  BY <1>10 DEF LateMarkFails, TypeOK
<1> QED
  BY <1>1, <1>2, <1>3, <1>4, <1>5, <1>6, <1>7, <1>8, <1>9, <1>10 DEF Deliver

\* The remaining steps write rows, and start and end ticks.
LEMMA StepType ==
  ASSUME TypeOK, [Next]_vars
  PROVE  TypeOK'
<1> USE ParametersAssumption DEF ParametersAssumption
<1>1. ASSUME NEW e \in Entry, Enqueue(e)
      PROVE  TypeOK'
  BY ZenonT(60), <1>1 DEF Enqueue, relayVars, TypeOK, Row, RowState
<1>2. ASSUME NEW r \in Relay, Claim(r)
      PROVE  TypeOK'
  <2> DEFINE due == Oldest(Due, BatchSize)
  <2>1. due \subseteq {e \in Entry : row[e].attempts < MaxAttempts}
    BY DEF Oldest, Due
  <2> HIDE DEF due
  <2>2. row' \in [Entry -> Row]
    <3> SUFFICES ASSUME NEW e \in due
                 PROVE  Leased(e) \in Row
      BY <1>2 DEF Claim, TypeOK, due
    <3>1. row[e] \in Row /\ row[e].attempts + 1 \in 0..MaxAttempts
      BY <2>1 DEF TypeOK, Row
    <3> QED
      BY <3>1 DEF Row, Leased
  <2>3. counted' \in [Relay -> [Entry -> 0..MaxAttempts]]
    <3>1. \A e \in Entry : (IF e \in due THEN row[e].attempts + 1 ELSE 0) \in 0..MaxAttempts
      BY <2>1 DEF TypeOK, Row
    <3> QED
      BY <1>2, <3>1 DEF Claim, TypeOK, due
  <2>4. task' \in [Relay -> [Consumer -> Task]]
    <3>1. NoTask \in Task /\ [NoTask EXCEPT !.stage = "filter"] \in Task
      BY DEF NoTask, Task, TaskStage
    <3> QED
      BY <1>2, <3>1 DEF Claim, TypeOK
  <2>5. elapsed' \in [Relay -> 0..(Budget + Slack)]
    <3>1. elapsed \in [Relay -> 0..(Budget + Slack)] /\ 0 \in 0..(Budget + Slack)
      BY DEF TypeOK
    <3> QED
      BY <1>2, <3>1 DEF Claim
  <2>6. batch' \in [Relay -> SUBSET Entry]
    BY <1>2, <2>1 DEF Claim, TypeOK, due
  <2>7. UNCHANGED <<ledger, effects, orphan, losses>>
    BY <1>2 DEF Claim
  <2> QED
    BY <2>2, <2>3, <2>4, <2>5, <2>6, <2>7 DEF TypeOK
<1>3. ASSUME NEW r \in Relay, Record(r)
      PROVE  TypeOK'
  <2>1. ASSUME NEW e \in batch[r]
        PROVE  Recorded(r, e) \in Row
    <3>1. row[e] \in Row /\ counted[r][e] \in 0..MaxAttempts
      BY DEF TypeOK
    <3>2. RetryDelay(counted[r][e]) \in Nat
      BY <3>1, RetryDelayAssumption
    <3>3. [row[e] EXCEPT !.failed = TRUE, !.wait = RetryDelay(counted[r][e])] \in Row
      BY <3>1, <3>2 DEF Row
    <3>4. [row[e] EXCEPT !.state = "published", !.failed = FALSE] \in Row
      BY <3>1 DEF Row, RowState
    <3> QED
      BY <3>1, <3>3, <3>4 DEF Recorded
  <2>2. NoTask \in Task
    BY DEF NoTask, Task, TaskStage
  <2> QED
    BY <1>3, <2>1, <2>2 DEF Record, TypeOK
<1>4. ASSUME NEW r \in Relay, Lose(r)
      PROVE  TypeOK'
  <2>1. NoTask \in Task
    BY DEF NoTask, Task, TaskStage
  <2> QED
    BY <1>4, <2>1 DEF Lose, TypeOK
<1>5. CASE Tick
  <2>1. row' \in [Entry -> Row]
    <3>1. ASSUME NEW e \in Entry, row[e].wait > 0
          PROVE  [row[e] EXCEPT !.wait = row[e].wait - 1] \in Row
      <4>1. row[e] \in Row
        BY DEF TypeOK
      <4>2. row[e].wait - 1 \in Nat
        BY <3>1, <4>1 DEF Row
      <4> QED
        BY <4>1, <4>2 DEF Row
    <3>2. row \in [Entry -> Row]
      BY DEF TypeOK
    <3> QED
      BY <1>5, <3>1, <3>2 DEF Tick
  <2>2. elapsed' \in [Relay -> 0..(Budget + Slack)]
    <3>1. ASSUME NEW r \in Relay, batch[r] # {}
          PROVE  elapsed[r] + 1 \in 0..(Budget + Slack)
      <4>1. elapsed[r] \in Nat /\ elapsed[r] < Budget + Slack
        BY <1>5, <3>1 DEF Tick, TypeOK
      <4>2. Budget + Slack \in Nat
        OBVIOUS
      <4> QED
        BY <4>1, <4>2
    <3>2. elapsed \in [Relay -> 0..(Budget + Slack)]
      BY DEF TypeOK
    <3> QED
      BY <1>5, <3>1, <3>2 DEF Tick
  <2> QED
    BY <1>5, <2>1, <2>2 DEF Tick, TypeOK
<1>6. CASE UNCHANGED vars
  BY <1>6 DEF vars, TypeOK
<1> QED
  BY <1>1, <1>2, <1>3, <1>4, <1>5, <1>6, DeliverType DEF Next, Step

\* Every reachable state has the declared types.
THEOREM TypeCorrect == Spec => []TypeOK
<1>1. Init => TypeOK
  BY InitType
<1>2. TypeOK /\ [Next]_vars => TypeOK'
  BY StepType
<1> QED
  BY <1>1, <1>2, PTL DEF Spec

-----------------------------------------------------------------------------
(* What is published was handled *)

Done(c, e) == effects[c][e] > 0

\* What a delivery knows of its slice: it lists as worked only work that was
\* committed, it filtered out only entries whose work is ledgered, and what it
\* does not report as failed when it ends was worked.
TaskSound(r, c) ==
  LET t == task[r][c] IN
  /\ t.fresh \subseteq Slice(r, c)
  /\ \A e \in t.worked : Done(c, e)
  /\ t.stage = "off" => Slice(r, c) = {}
  /\ t.stage \in {"handle", "mark"} => \A e \in Slice(r, c) \ t.fresh : Done(c, e)
  /\ t.stage = "mark" => t.fresh \subseteq t.worked \cup t.failed
  /\ t.stage = "done" => \A e \in Slice(r, c) \ t.failed : Done(c, e)

OrphanSound == \A r \in Relay, c \in Consumer : \A e \in orphan[r][c] : Done(c, e)

\* PublishedWasHandled is not inductive: a record trusts what the deliveries
\* report, they trust the ledger, and the ledger trusts marks, late ones too.
DeliveryInv ==
  /\ LedgerSound
  /\ OrphanSound
  /\ \A r \in Relay, c \in Consumer : TaskSound(r, c)
  /\ PublishedWasHandled

\* Work once committed stays committed.
LEMMA WorkStays ==
  ASSUME TypeOK, [Next]_vars, NEW c \in Consumer, NEW e \in Entry, Done(c, e)
  PROVE  Done(c, e)'
<1>1. ASSUME NEW r \in Relay, NEW d \in Consumer, NEW f \in Entry, HandlerCommits(r, d, f)
      PROVE  Done(c, e)'
  BY <1>1 DEF HandlerCommits, Done, TypeOK
<1>2. CASE UNCHANGED effects
  BY <1>2 DEF Done
<1>3. \/ UNCHANGED effects
      \/ \E r \in Relay, d \in Consumer, f \in Entry : HandlerCommits(r, d, f)
  <2>1. ASSUME NEW r \in Relay, NEW d \in Consumer, Deliver(r, d)
        PROVE  UNCHANGED effects \/ \E f \in Entry : HandlerCommits(r, d, f)
    BY <2>1 DEF Deliver, Filter, HandlerRejects, HandlerRaises, HandlerReturns,
                MarkProcessed, SessionError, Timeout, LateMark, LateMarkFails
  <2>2. ASSUME NEW r \in Relay, Claim(r) \/ Record(r) \/ Lose(r)
        PROVE  UNCHANGED effects
    BY <2>2 DEF Claim, Record, Lose
  <2>3. ASSUME NEW f \in Entry, Enqueue(f)
        PROVE  UNCHANGED effects
    BY <2>3 DEF Enqueue
  <2>4. CASE Tick \/ UNCHANGED vars
    BY <2>4 DEF Tick, vars
  <2> QED
    BY <2>1, <2>2, <2>3, <2>4 DEF Next, Step
<1> QED
  BY <1>1, <1>2, <1>3

\* A delivery that a step leaves alone stays sound.
LEMMA TaskFrame ==
  ASSUME TypeOK, [Next]_vars, NEW r \in Relay, NEW c \in Consumer, TaskSound(r, c),
         task'[r][c] = task[r][c], batch'[r] = batch[r]
  PROVE  TaskSound(r, c)'
<1>1. task[r][c] \in Task /\ Slice(r, c) \subseteq Entry
  BY ParametersAssumption DEF TypeOK, Slice, ParametersAssumption
<1>2. Slice(r, c)' = Slice(r, c)
  BY DEF Slice
<1>3. \A e \in Entry : Done(c, e) => Done(c, e)'
  BY WorkStays
<1> QED
  BY <1>1, <1>2, <1>3 DEF TaskSound, Task

\* One lemma per part of DeliveryInv: the tasks ...
LEMMA TasksPreserved ==
  ASSUME TypeOK, DeliveryInv, [Next]_vars, NEW r \in Relay, NEW c \in Consumer
  PROVE  TaskSound(r, c)'
<1> DEFINE t == task[r][c]
<1>t. /\ t \in Task /\ Slice(r, c) \subseteq Entry /\ TaskSound(r, c)
      /\ TaskSound(r, c)
  BY ParametersAssumption DEF TypeOK, Slice, ParametersAssumption, DeliveryInv
<1>w. \A e \in Entry : Done(c, e) => Done(c, e)'
  BY WorkStays
<1>b. ASSUME NEW u \in Task, Becomes(r, c, u)
      PROVE  task'[r][c] = u
  BY <1>b DEF Becomes, TypeOK
<1>n. /\ NoTask.stage = "off" /\ NoTask.worked = {} /\ NoTask.fresh = {}
      /\ [NoTask EXCEPT !.stage = "filter"].stage = "filter"
      /\ [NoTask EXCEPT !.stage = "filter"].worked = {}
      /\ [NoTask EXCEPT !.stage = "filter"].fresh = {}
  BY DEF NoTask
<1>1. CASE Filter(r, c)
  <2> DEFINE new == {e \in Slice(r, c) : <<c, e>> \notin ledger}
             u == [t EXCEPT !.fresh = new, !.stage = IF new = {} THEN "done" ELSE "handle"]
  <2>1. u \in Task
    BY <1>t DEF Task, TaskStage
  <2>2. task'[r][c] = u /\ Slice(r, c)' = Slice(r, c)
    BY <1>1, <1>b, <2>1 DEF Filter, Slice
  <2>3. /\ u.fresh = new /\ u.worked = t.worked
        /\ u.stage = IF new = {} THEN "done" ELSE "handle"
    BY <1>t DEF Task
  <2>4. \A e \in Slice(r, c) \ new : Done(c, e)
    BY <1>t DEF DeliveryInv, LedgerSound, Done
  <2> HIDE DEF u
  <2> QED
    BY <1>t, <1>w, <2>2, <2>3, <2>4 DEF TaskSound, Task
<1>2. ASSUME NEW e \in Entry, HandlerCommits(r, c, e)
      PROVE  TaskSound(r, c)'
  <2> DEFINE u == [t EXCEPT !.worked = @ \cup {e}]
  <2>1. u \in Task
    BY <1>t DEF Task, TaskStage
  <2>2. task'[r][c] = u /\ Slice(r, c)' = Slice(r, c) /\ t.stage = "handle"
    BY <1>2, <1>b, <2>1 DEF HandlerCommits, Slice
  <2>3. u.fresh = t.fresh /\ u.worked = t.worked \cup {e} /\ u.stage = t.stage
    BY <1>t DEF Task
  <2>4. Done(c, e)'
    BY <1>2 DEF HandlerCommits, Done, TypeOK
  <2> HIDE DEF u
  <2> QED
    BY <1>t, <1>w, <2>2, <2>3, <2>4 DEF TaskSound, Task
<1>3. ASSUME NEW e \in Entry, HandlerRejects(r, c, e)
      PROVE  TaskSound(r, c)'
  <2> DEFINE u == [t EXCEPT !.failed = @ \cup {e}]
  <2>1. u \in Task
    BY <1>t DEF Task, TaskStage
  <2>2. task'[r][c] = u /\ Slice(r, c)' = Slice(r, c) /\ t.stage = "handle"
    BY <1>3, <1>b, <2>1 DEF HandlerRejects, Slice
  <2>3. u.fresh = t.fresh /\ u.worked = t.worked /\ u.stage = t.stage
    BY <1>t DEF Task
  <2> HIDE DEF u
  <2> QED
    BY <1>t, <1>w, <2>2, <2>3 DEF TaskSound, Task
<1>4. CASE HandlerRaises(r, c)
  <2> DEFINE u == [t EXCEPT !.failed = t.fresh, !.stage = "done"]
  <2>1. u \in Task
    BY <1>t DEF Task, TaskStage
  <2>2. task'[r][c] = u /\ Slice(r, c)' = Slice(r, c) /\ t.stage = "handle"
    BY <1>4, <1>b, <2>1 DEF HandlerRaises, Slice
  <2>3. /\ u.failed = t.fresh /\ u.worked = t.worked /\ u.stage = "done"
        /\ u.fresh = t.fresh
    BY <1>t DEF Task
  <2> HIDE DEF u
  <2> QED
    BY <1>t, <1>w, <2>2, <2>3 DEF TaskSound, Task
<1>5. CASE HandlerReturns(r, c)
  <2> DEFINE u == [t EXCEPT !.stage = "mark"]
  <2>1. u \in Task
    BY <1>t DEF Task, TaskStage
  <2>2. /\ task'[r][c] = u /\ Slice(r, c)' = Slice(r, c) /\ t.stage = "handle"
        /\ t.fresh \subseteq t.worked \cup t.failed
    BY <1>5, <1>b, <2>1 DEF HandlerReturns, Slice, Untried
  <2>3. /\ u.fresh = t.fresh /\ u.worked = t.worked /\ u.failed = t.failed
        /\ u.stage = "mark"
    BY <1>t DEF Task
  <2> HIDE DEF u
  <2> QED
    BY <1>t, <1>w, <2>2, <2>3 DEF TaskSound, Task
<1>6. CASE MarkProcessed(r, c)
  <2> DEFINE u == [t EXCEPT !.stage = "done"]
  <2>1. u \in Task
    BY <1>t DEF Task, TaskStage
  <2>2. task'[r][c] = u /\ Slice(r, c)' = Slice(r, c) /\ t.stage = "mark"
    BY <1>6, <1>b, <2>1 DEF MarkProcessed, Slice
  <2>3. /\ u.worked = t.worked /\ u.failed = t.failed /\ u.stage = "done"
        /\ u.fresh = t.fresh
    BY <1>t DEF Task
  <2>4. \A e \in Slice(r, c) \ t.failed : Done(c, e)
    BY <1>t, <2>2 DEF TaskSound
  <2> HIDE DEF u
  <2> QED
    BY <1>t, <1>w, <2>2, <2>3, <2>4 DEF TaskSound, Task
<1>7. CASE SessionError(r, c) \/ Timeout(r, c)
  <2> DEFINE u == [t EXCEPT !.failed = Slice(r, c), !.stage = "done"]
  <2>1. u \in Task
    BY <1>t DEF Task, TaskStage
  <2>2. task'[r][c] = u /\ Slice(r, c)' = Slice(r, c)
    BY <1>7, <1>b, <2>1 DEF SessionError, Timeout, Slice
  <2>3. /\ u.worked = t.worked /\ u.failed = Slice(r, c) /\ u.stage = "done"
        /\ u.fresh = t.fresh
    BY <1>t DEF Task
  <2> HIDE DEF u
  <2> QED
    BY <1>t, <1>w, <2>2, <2>3 DEF TaskSound, Task
<1>8. CASE LateMark(r, c) \/ LateMarkFails(r, c)
  BY <1>8, <1>t, TaskFrame DEF LateMark, LateMarkFails
<1>9. ASSUME NEW s \in Relay, NEW d \in Consumer, Deliver(s, d), s # r \/ d # c
      PROVE  TaskSound(r, c)'
  <2>1. batch' = batch /\ (UNCHANGED task \/ \E u : Becomes(s, d, u))
    BY <1>9 DEF Deliver, Filter, HandlerCommits, HandlerRejects, HandlerRaises, HandlerReturns,
                MarkProcessed, SessionError, Timeout, LateMark, LateMarkFails
  <2>2. task'[r][c] = task[r][c]
    <3>1. ASSUME NEW u, Becomes(s, d, u)
          PROVE  task'[r][c] = task[r][c]
      <4>1. task \in [Relay -> [Consumer -> Task]]
        BY DEF TypeOK
      <4>2. CASE s # r
        BY <3>1, <4>1, <4>2 DEF Becomes
      <4>3. CASE s = r
        BY <1>9, <3>1, <4>1, <4>3 DEF Becomes
      <4> QED
        BY <4>2, <4>3
    <3> QED
      BY <2>1, <3>1
  <2> QED
    BY <1>t, <2>1, <2>2, TaskFrame
<1>10. CASE Claim(r)
  <2>1. \/ task'[r][c] = NoTask /\ Slice(r, c)' = {}
        \/ task'[r][c] = [NoTask EXCEPT !.stage = "filter"]
    BY <1>10 DEF Claim, Slice, TypeOK
  <2> QED
    BY <1>n, <2>1 DEF TaskSound
<1>11. CASE Record(r) \/ Lose(r)
  <2>1. task'[r][c] = NoTask /\ Slice(r, c)' = {}
    BY <1>11 DEF Record, Lose, Slice, TypeOK
  <2> QED
    BY <1>n, <2>1 DEF TaskSound
<1>12. ASSUME NEW s \in Relay, s # r, Claim(s) \/ Record(s) \/ Lose(s)
       PROVE  TaskSound(r, c)'
  <2>1. task'[r][c] = task[r][c] /\ batch'[r] = batch[r]
    BY <1>12 DEF Claim, Record, Lose, TypeOK
  <2> QED
    BY <1>t, <2>1, TaskFrame
<1>13. ASSUME NEW e \in Entry, Enqueue(e)
       PROVE  TaskSound(r, c)'
  BY <1>13, <1>t, TaskFrame DEF Enqueue, relayVars
<1>14. CASE Tick \/ UNCHANGED vars
  BY <1>14, <1>t, TaskFrame DEF Tick, vars
<1>15. CASE Deliver(r, c)
  BY <1>15, <1>1, <1>2, <1>3, <1>4, <1>5, <1>6, <1>7, <1>8 DEF Deliver
<1> QED
  BY <1>9, <1>10, <1>11, <1>12, <1>13, <1>14, <1>15 DEF Next, Step

\* ... the ledger and the marks still to come ...
LEMMA LedgerPreserved ==
  ASSUME TypeOK, DeliveryInv, [Next]_vars
  PROVE  LedgerSound' /\ OrphanSound'
<1>w. \A c \in Consumer, e \in Entry : Done(c, e) => Done(c, e)'
  BY WorkStays
<1>l. \A c \in Consumer, e \in Entry : <<c, e>> \in ledger => Done(c, e)
  BY DEF DeliveryInv, LedgerSound, Done
<1>o. \A r \in Relay, c \in Consumer : orphan[r][c] \subseteq Entry
                                    /\ \A e \in orphan[r][c] : Done(c, e)
  BY DEF DeliveryInv, OrphanSound, TypeOK
<1>k. \A r \in Relay, c \in Consumer : task[r][c].worked \subseteq Entry
                                    /\ \A e \in task[r][c].worked : Done(c, e)
  BY DEF DeliveryInv, TaskSound, TypeOK, Task
<1>1. ASSUME NEW r \in Relay, NEW c \in Consumer, MarkProcessed(r, c)
      PROVE  LedgerSound' /\ OrphanSound'
  <2>1. ledger' = ledger \cup ({c} \X task[r][c].worked) /\ orphan' = orphan
    BY <1>1 DEF MarkProcessed
  <2> QED
    BY <2>1, <1>w, <1>l, <1>o, <1>k DEF LedgerSound, OrphanSound, Done
<1>2. ASSUME NEW r \in Relay, NEW c \in Consumer, Timeout(r, c)
      PROVE  LedgerSound' /\ OrphanSound'
  <2>1. ledger' = ledger
        /\ \/ orphan' = [orphan EXCEPT ![r][c] = @ \cup task[r][c].worked]
           \/ orphan' = [orphan EXCEPT ![r][c] = @]
    BY <1>2 DEF Timeout
  <2>2. ASSUME NEW s \in Relay, NEW d \in Consumer
        PROVE  orphan'[s][d] \subseteq orphan[s][d] \cup task[s][d].worked
    <3>1. orphan \in [Relay -> [Consumer -> SUBSET Entry]]
      BY DEF TypeOK
    <3>2. CASE s # r
      BY <2>1, <3>1, <3>2
    <3>3. CASE s = r /\ d # c
      BY <2>1, <3>1, <3>3
    <3>4. CASE s = r /\ d = c
      BY <2>1, <3>1, <3>4
    <3> QED
      BY <3>2, <3>3, <3>4
  <2> QED
    BY <2>1, <2>2, <1>w, <1>l, <1>o, <1>k DEF LedgerSound, OrphanSound, Done
<1>3. ASSUME NEW r \in Relay, NEW c \in Consumer, LateMark(r, c) \/ LateMarkFails(r, c)
      PROVE  LedgerSound' /\ OrphanSound'
  <2>1. ledger' \subseteq ledger \cup ({c} \X orphan[r][c])
    BY <1>3 DEF LateMark, LateMarkFails
  <2>2. ASSUME NEW s \in Relay, NEW d \in Consumer
        PROVE  orphan'[s][d] \subseteq orphan[s][d]
    <3>1. /\ orphan \in [Relay -> [Consumer -> SUBSET Entry]]
          /\ orphan' = [orphan EXCEPT ![r][c] = {}]
      BY <1>3 DEF LateMark, LateMarkFails, TypeOK
    <3>2. CASE s # r
      BY <3>1, <3>2
    <3>3. CASE s = r
      BY <3>1, <3>3
    <3> QED
      BY <3>2, <3>3
  <2> QED
    BY <2>1, <2>2, <1>w, <1>l, <1>o DEF LedgerSound, OrphanSound, Done
<1>4. ASSUME NEW r \in Relay, Lose(r)
      PROVE  LedgerSound' /\ OrphanSound'
  <2>1. \A s \in Relay, d \in Consumer : orphan'[s][d] \subseteq orphan[s][d]
    BY <1>4 DEF Lose, TypeOK
  <2> QED
    BY <1>4, <2>1, <1>w, <1>l, <1>o DEF LedgerSound, OrphanSound, Done, Lose
<1>5. CASE UNCHANGED <<ledger, orphan>>
  BY <1>5, <1>w, <1>l, <1>o DEF LedgerSound, OrphanSound, Done
<1>6. ASSUME NEW r \in Relay, NEW c \in Consumer, Deliver(r, c)
      PROVE  LedgerSound' /\ OrphanSound'
  <2>1. \/ MarkProcessed(r, c) \/ Timeout(r, c) \/ LateMark(r, c) \/ LateMarkFails(r, c)
        \/ UNCHANGED <<ledger, orphan>>
    BY <1>6 DEF Deliver, Filter, HandlerCommits, HandlerRejects, HandlerRaises,
                HandlerReturns, SessionError
  <2> QED
    BY <2>1, <1>1, <1>2, <1>3, <1>5
<1>7. ASSUME NEW r \in Relay, Claim(r) \/ Record(r)
      PROVE  LedgerSound' /\ OrphanSound'
  BY <1>5, <1>7 DEF Claim, Record
<1>8. ASSUME NEW e \in Entry, Enqueue(e)
      PROVE  LedgerSound' /\ OrphanSound'
  BY <1>5, <1>8 DEF Enqueue, relayVars
<1>9. CASE Tick \/ UNCHANGED vars
  BY <1>5, <1>9 DEF Tick, vars
<1> QED
  BY <1>4, <1>6, <1>7, <1>8, <1>9 DEF Next, Step

\* ... and the rows: a record publishes only what every delivery of its batch
\* vouches for.
LEMMA RecordPublishesHandled ==
  ASSUME TypeOK, DeliveryInv, NEW r \in Relay, Record(r),
         NEW e \in batch[r], e \notin Failures(r)
  PROVE  \A c \in Build[r] : e \in Handles[c] => Done(c, e)
<1> SUFFICES ASSUME NEW c \in Build[r], e \in Handles[c]
             PROVE  Done(c, e)
  OBVIOUS
<1>1. c \in Consumer /\ e \in Slice(r, c)
  BY ParametersAssumption DEF ParametersAssumption, Slice
<1>2. TaskSound(r, c) /\ task[r][c].stage \in {"off", "done"} /\ e \notin task[r][c].failed
  BY <1>1 DEF DeliveryInv, Record, Failures
<1> QED
  BY <1>1, <1>2 DEF TaskSound

LEMMA PublishedPreserved ==
  ASSUME TypeOK, DeliveryInv, [Next]_vars
  PROVE  PublishedWasHandled'
<1> DEFINE Gone(e) == row[e].state \in {"published", "deleted"}
           Vouched(e) == \E r \in Relay : \A c \in Build[r] : e \in Handles[c] => Done(c, e)
<1>w. \A c \in Consumer, e \in Entry : Done(c, e) => Done(c, e)'
  BY WorkStays
<1>v. \A e \in Entry : Vouched(e) => Vouched(e)'
  BY <1>w, ParametersAssumption DEF ParametersAssumption
<1>p. \A e \in Entry : Gone(e) => Vouched(e)
  BY DEF DeliveryInv, PublishedWasHandled, Done
<1>s. ASSUME \A e \in Entry : Gone(e)' => Gone(e) \/ Vouched(e)
      PROVE  PublishedWasHandled'
  BY <1>s, <1>p, <1>v DEF PublishedWasHandled, Done
<1>1. ASSUME NEW f \in Entry, Enqueue(f)
      PROVE  PublishedWasHandled'
  <2>1. \A e \in Entry : Gone(e)' => Gone(e)
    BY <1>1 DEF Enqueue, TypeOK, Row
  <2> QED
    BY <2>1, <1>s
<1>2. ASSUME NEW r \in Relay, Claim(r)
      PROVE  PublishedWasHandled'
  <2>1. ASSUME NEW e \in Entry
        PROVE  row'[e].state = row[e].state
    <3>1. row[e] \in Row
      BY DEF TypeOK
    <3>2. \/ row'[e] = row[e]
          \/ row'[e] = Leased(e)
      BY <1>2 DEF Claim
    <3> QED
      BY <3>1, <3>2 DEF Row, Leased
  <2> QED
    BY <2>1, <1>s
<1>3. ASSUME NEW r \in Relay, Record(r)
      PROVE  PublishedWasHandled'
  <2>1. ASSUME NEW e \in Entry, Gone(e)', ~Gone(e)
        PROVE  Vouched(e)
    <3>1. e \in batch[r] /\ e \notin Failures(r)
      BY ZenonT(60), <1>3, <2>1 DEF Record, Recorded, TypeOK, Row
    <3> QED
      BY <1>3, <3>1, RecordPublishesHandled
  <2> QED
    BY <2>1, <1>s
<1>4. CASE Tick
  <2>1. \A e \in Entry : row'[e].state = row[e].state
    BY <1>4 DEF Tick, TypeOK, Row
  <2> QED
    BY <2>1, <1>s
<1>5. CASE UNCHANGED row
  BY <1>5, <1>s
<1>6. ASSUME NEW r \in Relay, NEW c \in Consumer, Deliver(r, c)
      PROVE  UNCHANGED row
  BY <1>6 DEF Deliver, Filter, HandlerCommits, HandlerRejects, HandlerRaises, HandlerReturns,
              MarkProcessed, SessionError, Timeout, LateMark, LateMarkFails
<1>7. ASSUME NEW r \in Relay, Lose(r)
      PROVE  UNCHANGED row
  BY <1>7 DEF Lose
<1> QED
  BY <1>1, <1>2, <1>3, <1>4, <1>5, <1>6, <1>7 DEF Next, Step, vars

LEMMA DeliveryInvInductive ==
  /\ Init => DeliveryInv
  /\ TypeOK /\ DeliveryInv /\ [Next]_vars => DeliveryInv'
<1>1. Init => DeliveryInv
  BY DEF Init, DeliveryInv, LedgerSound, OrphanSound, TaskSound, PublishedWasHandled, NoRow,
         NoTask, Slice
<1>2. TypeOK /\ DeliveryInv /\ [Next]_vars => DeliveryInv'
  BY LedgerPreserved, TasksPreserved, PublishedPreserved DEF DeliveryInv
<1> QED
  BY <1>1, <1>2

\* No event leaves the backlog before the interested consumers of some build
\* have handled it.
THEOREM PublishedHandled == Spec => []PublishedWasHandled
<1>1. DeliveryInv => PublishedWasHandled
  BY DEF DeliveryInv
<1> QED
  BY <1>1, DeliveryInvInductive, InitType, StepType, PTL DEF Spec

\* The ledger never claims work that no consumer committed.
THEOREM LedgerTrue == Spec => []LedgerSound
<1>1. DeliveryInv => LedgerSound
  BY DEF DeliveryInv
<1> QED
  BY <1>1, DeliveryInvInductive, InitType, StepType, PTL DEF Spec

-----------------------------------------------------------------------------
(* The lease keeps relays apart *)

\* LeaseExclusive is inductive only with what a lease is: for as long as a
\* relay holds a row, the row is pending and its wait is what the relay's
\* elapsed time leaves of the lease.
LeaseInv ==
  /\ \A r \in Relay : \A e \in batch[r] :
       row[e].state = "pending" /\ row[e].wait = Lease - elapsed[r]
  /\ \A r, s \in Relay : r # s => batch[r] \cap batch[s] = {}

LEMMA LeaseClaim ==
  ASSUME TypeOK, LeaseInv, Budget + Slack < Lease, NEW r \in Relay, Claim(r)
  PROVE  LeaseInv'
<1> USE ParametersAssumption DEF ParametersAssumption
<1> DEFINE due == Oldest(Due, BatchSize)
<1>1. \A e \in due : e \in Entry /\ row[e].state = "pending" /\ row[e].wait = 0
  BY DEF Oldest, Due
<1> HIDE DEF due
<1>2. /\ batch' = [batch EXCEPT ![r] = due] /\ elapsed' = [elapsed EXCEPT ![r] = 0]
      /\ row' = [e \in Entry |->
           IF e \in due
           THEN Leased(e)
           ELSE row[e]]
  BY DEF Claim, due
<1>3. ASSUME NEW s \in Relay, NEW e \in batch[s]
      PROVE  e \in Entry /\ row[e].wait > 0 /\ e \notin due
  <2>1. /\ e \in Entry /\ row[e].wait = Lease - elapsed[s]
        /\ elapsed[s] \in Nat /\ elapsed[s] <= Budget + Slack
    BY DEF LeaseInv, TypeOK
  <2>2. row[e].wait > 0
    BY <2>1
  <2> QED
    BY <1>1, <2>1, <2>2
<1>4. ASSUME NEW s \in Relay, NEW e \in batch'[s]
      PROVE  row'[e].state = "pending" /\ row'[e].wait = Lease - elapsed'[s]
  <2>1. CASE s = r
    <3>1. e \in due /\ elapsed'[s] = 0 /\ e \in Entry /\ row[e] \in Row
      BY <1>1, <1>2, <1>4, <2>1 DEF TypeOK
    <3>2. row'[e].state = "pending" /\ row'[e].wait = Lease
      BY <1>1, <1>2, <3>1 DEF Row, Leased
    <3> QED
      BY <3>1, <3>2
  <2>2. CASE s # r
    <3>1. e \in batch[s] /\ elapsed'[s] = elapsed[s]
      BY <1>2, <1>4, <2>2 DEF TypeOK
    <3>2. row'[e] = row[e]
      BY <1>2, <1>3, <3>1
    <3> QED
      BY <3>1, <3>2 DEF LeaseInv
  <2> QED
    BY <2>1, <2>2
<1>5. ASSUME NEW s \in Relay, NEW q \in Relay, s # q
      PROVE  batch'[s] \cap batch'[q] = {}
  BY <1>2, <1>3, <1>5 DEF LeaseInv, TypeOK
<1> QED
  BY <1>4, <1>5 DEF LeaseInv

LEMMA LeaseEnds ==
  ASSUME TypeOK, LeaseInv, NEW r \in Relay, Record(r) \/ Lose(r)
  PROVE  LeaseInv'
<1>1. /\ batch' = [batch EXCEPT ![r] = {}] /\ elapsed' = [elapsed EXCEPT ![r] = 0]
      /\ \A e \in Entry : e \notin batch[r] => row'[e] = row[e]
  BY DEF Record, Lose
<1>2. ASSUME NEW s \in Relay
      PROVE  /\ s = r => batch'[s] = {}
             /\ s # r => batch'[s] = batch[s] /\ elapsed'[s] = elapsed[s]
             /\ batch[s] \subseteq Entry
  BY <1>1 DEF TypeOK
<1>3. ASSUME NEW s \in Relay, NEW e \in batch'[s]
      PROVE  row'[e].state = "pending" /\ row'[e].wait = Lease - elapsed'[s]
  <2>1. s # r /\ e \in batch[s] /\ e \in Entry
    BY <1>2, <1>3
  <2>2. e \notin batch[r]
    BY <2>1 DEF LeaseInv
  <2> QED
    BY <1>1, <1>2, <2>1, <2>2 DEF LeaseInv
<1>4. ASSUME NEW s \in Relay, NEW q \in Relay, s # q
      PROVE  batch'[s] \cap batch'[q] = {}
  BY <1>2, <1>4 DEF LeaseInv
<1> QED
  BY <1>3, <1>4 DEF LeaseInv

LEMMA LeaseTick ==
  ASSUME TypeOK, LeaseInv, Budget + Slack < Lease, Tick
  PROVE  LeaseInv'
<1> USE ParametersAssumption DEF ParametersAssumption
<1>1. batch' = batch
  BY DEF Tick
<1>2. ASSUME NEW s \in Relay, NEW e \in batch[s]
      PROVE  row'[e].state = "pending" /\ row'[e].wait = Lease - elapsed'[s]
  <2>1. /\ e \in Entry /\ row[e] \in Row /\ row[e].state = "pending"
        /\ row[e].wait = Lease - elapsed[s]
        /\ elapsed[s] \in Nat /\ elapsed[s] <= Budget + Slack
    BY DEF LeaseInv, TypeOK
  <2>2. row[e].wait > 0
    BY <2>1
  <2>3. row'[e] = [row[e] EXCEPT !.wait = row[e].wait - 1]
    BY <2>1, <2>2 DEF Tick
  <2>4. row'[e].state = "pending" /\ row'[e].wait = row[e].wait - 1
    BY <2>1, <2>3 DEF Row
  <2>5. elapsed'[s] = elapsed[s] + 1
    BY DEF Tick
  <2> QED
    BY <2>1, <2>4, <2>5
<1> QED
  BY <1>1, <1>2 DEF LeaseInv

LEMMA LeaseStep ==
  ASSUME TypeOK, LeaseInv, Budget + Slack < Lease, [Next]_vars
  PROVE  LeaseInv'
<1>1. ASSUME NEW f \in Entry, Enqueue(f)
      PROVE  LeaseInv'
  <2>1. \A r \in Relay : f \notin batch[r]
    BY <1>1 DEF Enqueue, LeaseInv
  <2>2. /\ batch' = batch /\ elapsed' = elapsed
        /\ \A e \in Entry : e # f => row'[e] = row[e]
    BY <1>1 DEF Enqueue, relayVars, TypeOK
  <2> QED
    BY <2>1, <2>2 DEF LeaseInv, TypeOK
<1>2. ASSUME NEW r \in Relay, NEW c \in Consumer, Deliver(r, c)
      PROVE  UNCHANGED <<row, batch, elapsed>>
  BY <1>2 DEF Deliver, Filter, HandlerCommits, HandlerRejects, HandlerRaises, HandlerReturns,
              MarkProcessed, SessionError, Timeout, LateMark, LateMarkFails
<1>3. CASE UNCHANGED <<row, batch, elapsed>>
  BY <1>3 DEF LeaseInv
<1> QED
  BY <1>1, <1>2, <1>3, LeaseClaim, LeaseEnds, LeaseTick DEF Next, Step, vars

\* P2-9: no two relays ever hold the same row while the lease outlasts a tick.
THEOREM LeaseKeepsRelaysApart == Spec => []LeaseExclusive
<1> DEFINE Inv == Budget + Slack < Lease => LeaseInv
<1>1. Init => Inv
  BY DEF Init, LeaseInv
<1>2. TypeOK /\ Inv /\ [Next]_vars => Inv'
  BY LeaseStep
<1>3. Inv => LeaseExclusive
  BY DEF LeaseInv, LeaseExclusive
<1> QED
  BY <1>1, <1>2, <1>3, InitType, StepType, PTL DEF Spec

-----------------------------------------------------------------------------
(* No attempt ends without an outcome *)

\* NoSilentAttempt also needs that a row starts with no attempt to account for.
SilentInv ==
  /\ NoSilentAttempt
  /\ \A e \in Entry : row[e].state = "absent" => row[e].attempts = 0

LEMMA SilentInvInductive ==
  ASSUME TypeOK, SilentInv, [Next]_vars
  PROVE  SilentInv'
<1> USE ParametersAssumption DEF ParametersAssumption
<1> DEFINE Held(e) == \E r \in Relay : e \in batch[r]
           Ended(e) == row[e].state = "pending" /\ row[e].attempts > 0
           Accounted(e) == /\ Ended(e) /\ losses = 0 /\ ~Held(e) => row[e].failed
                           /\ row[e].state = "absent" => row[e].attempts = 0
<1>0. \A e \in Entry : row[e] \in Row /\ Accounted(e)
  BY DEF SilentInv, NoSilentAttempt, TypeOK
<1>s. ASSUME \A e \in Entry : Accounted(e)'
      PROVE  SilentInv'
  BY <1>s DEF SilentInv, NoSilentAttempt
<1> SUFFICES ASSUME NEW e \in Entry
             PROVE  Accounted(e)'
  BY <1>s
<1>1. ASSUME NEW f \in Entry, Enqueue(f)
      PROVE  Accounted(e)'
  <2>1. losses' = losses /\ batch' = batch
    BY <1>1 DEF Enqueue, relayVars
  <2>2. CASE e # f
    BY <1>0, <1>1, <2>1, <2>2 DEF Enqueue, TypeOK
  <2>3. CASE e = f
    <3>1. row[e].state = "absent" /\ row'[e] = [row[e] EXCEPT !.state = "pending"]
      BY <1>1, <2>3 DEF Enqueue, TypeOK
    <3>2. row'[e].state = "pending" /\ row'[e].attempts = row[e].attempts
      BY <1>0, <3>1 DEF Row
    <3> QED
      BY <1>0, <3>1, <3>2
  <2> QED
    BY <2>2, <2>3
<1>2. ASSUME NEW r \in Relay, Claim(r)
      PROVE  Accounted(e)'
  <2> DEFINE due == Oldest(Due, BatchSize)
  <2>1. losses' = losses /\ batch[r] = {} /\ batch' = [batch EXCEPT ![r] = due]
    BY <1>2 DEF Claim
  <2>2. \A s \in Relay : batch[s] \subseteq batch'[s]
    BY <2>1 DEF TypeOK
  <2>3. CASE e \in due
    <3>1. e \in batch'[r] /\ row[e].state = "pending"
      BY <2>1, <2>3 DEF Oldest, Due, TypeOK
    <3>2. row'[e] = Leased(e)
      BY <1>2, <2>3 DEF Claim
    <3>3. row'[e].state = "pending"
      BY <1>0, <3>1, <3>2 DEF Row, Leased
    <3> QED
      BY <3>1, <3>3
  <2>4. CASE e \notin due
    <3>1. row'[e] = row[e]
      BY <1>2, <2>4 DEF Claim
    <3> QED
      BY <1>0, <2>1, <2>2, <3>1
  <2> QED
    BY <2>3, <2>4
<1>3. ASSUME NEW r \in Relay, Record(r)
      PROVE  Accounted(e)'
  <2>1. losses' = losses /\ batch' = [batch EXCEPT ![r] = {}]
    BY <1>3 DEF Record
  <2>2. CASE e \in batch[r]
    <3>1. row'[e] = Recorded(r, e)
      BY <1>3, <2>2 DEF Record
    <3>2. \/ row'[e] = row[e] /\ row[e].state # "pending"
          \/ row'[e] = [row[e] EXCEPT !.failed = TRUE, !.wait = RetryDelay(counted[r][e])]
          \/ row'[e] = [row[e] EXCEPT !.state = "published", !.failed = FALSE]
      BY <3>1 DEF Recorded
    <3>3. \/ row'[e] = row[e] /\ row[e].state # "pending"
          \/ /\ row'[e].failed /\ row'[e].state = row[e].state
             /\ row'[e].attempts = row[e].attempts
          \/ row'[e].state = "published"
      BY <1>0, <3>2 DEF Row
    <3> QED
      BY <1>0, <3>3
  <2>3. CASE e \notin batch[r]
    <3>1. row'[e] = row[e]
      BY <1>3, <2>3 DEF Record
    <3>2. Held(e) => Held(e)'
      BY <2>1, <2>3 DEF TypeOK
    <3> QED
      BY <1>0, <2>1, <3>1, <3>2
  <2> QED
    BY <2>2, <2>3
<1>4. ASSUME NEW r \in Relay, Lose(r)
      PROVE  Accounted(e)'
  <2>1. row' = row /\ losses' = losses + 1 /\ losses \in Nat
    BY <1>4 DEF Lose, TypeOK
  <2>2. losses' # 0
    BY <2>1
  <2> QED
    BY <1>0, <2>1, <2>2
<1>5. CASE Tick
  <2>1. losses' = losses /\ batch' = batch
    BY <1>5 DEF Tick
  <2>2. row'[e] = row[e] \/ row'[e] = [row[e] EXCEPT !.wait = row[e].wait - 1]
    BY <1>5 DEF Tick
  <2>3. /\ row'[e].state = row[e].state /\ row'[e].attempts = row[e].attempts
        /\ row'[e].failed = row[e].failed
    BY <1>0, <2>2 DEF Row
  <2> QED
    BY <1>0, <2>1, <2>3
<1>6. ASSUME NEW r \in Relay, NEW c \in Consumer, Deliver(r, c)
      PROVE  UNCHANGED <<row, batch, losses>>
  BY <1>6 DEF Deliver, Filter, HandlerCommits, HandlerRejects, HandlerRaises, HandlerReturns,
              MarkProcessed, SessionError, Timeout, LateMark, LateMarkFails
<1>7. CASE UNCHANGED <<row, batch, losses>>
  BY <1>0, <1>7
<1> QED
  BY <1>1, <1>2, <1>3, <1>4, <1>5, <1>6, <1>7 DEF Next, Step, vars

\* Whatever ends a hold, short of a loss, writes a publication or a failure.
THEOREM NoAttemptIsSilent == Spec => []NoSilentAttempt
<1>1. Init => SilentInv
  BY DEF Init, SilentInv, NoSilentAttempt, NoRow
<1>2. SilentInv => NoSilentAttempt
  BY DEF SilentInv
<1> QED
  BY <1>1, <1>2, SilentInvInductive, InitType, StepType, PTL DEF Spec

-----------------------------------------------------------------------------
(* No consumer works on an event more often than it was claimed *)

\* The relays whose claim of e has not yet been used for consumer c's work: the
\* attempts of a row pay for the work that was done and for the work of these.
Owing(c, e) == {r \in Relay : e \in batch[r] /\ e \notin task[r][c].worked}

Within(c, e) ==
  /\ IsFiniteSet(Owing(c, e))
  /\ effects[c][e] + Cardinality(Owing(c, e)) <= row[e].attempts

AttemptsInv == \A c \in Consumer, e \in Entry : Within(c, e)

\* Nobody owes more, nothing was done, nothing was taken from the attempts.
LEMMA WithinFrame ==
  ASSUME TypeOK, TypeOK', NEW c \in Consumer, NEW e \in Entry, Within(c, e),
         effects'[c][e] = effects[c][e], row'[e].attempts = row[e].attempts,
         Owing(c, e)' \subseteq Owing(c, e)
  PROVE  Within(c, e)'
<1>1. IsFiniteSet(Owing(c, e)') /\ Cardinality(Owing(c, e)') <= Cardinality(Owing(c, e))
  BY FS_Subset DEF Within
<1>2. Cardinality(Owing(c, e)') \in Nat /\ Cardinality(Owing(c, e)) \in Nat
  BY <1>1, FS_CardinalityType DEF Within
<1>3. effects[c][e] \in Nat /\ row[e].attempts \in Nat
  BY ParametersAssumption DEF TypeOK, Row, ParametersAssumption
<1> QED
  BY <1>1, <1>2, <1>3 DEF Within

\* A delivery forgets none of the work it did.
LEMMA WorkedStays ==
  ASSUME TypeOK, NEW r \in Relay, NEW c \in Consumer, Deliver(r, c),
         NEW s \in Relay, NEW d \in Consumer
  PROVE  task[s][d].worked \subseteq task'[s][d].worked
<1>1. task[r][c] \in Task /\ task \in [Relay -> [Consumer -> Task]]
  BY DEF TypeOK
<1>2. \/ UNCHANGED task
      \/ \E u : Becomes(r, c, u) /\ task[r][c].worked \subseteq u.worked
  <2>1. CASE Filter(r, c)
    <3> DEFINE fresh == {e \in Slice(r, c) : <<c, e>> \notin ledger}
               u == [task[r][c] EXCEPT !.fresh = fresh,
                                       !.stage = IF fresh = {} THEN "done" ELSE "handle"]
    <3>1. Becomes(r, c, u) /\ u.worked = task[r][c].worked
      BY <1>1, <2>1 DEF Filter, Task
    <3> QED
      BY <3>1
  <2>2. ASSUME NEW e \in Entry, HandlerCommits(r, c, e) \/ HandlerRejects(r, c, e)
        PROVE  \E u : Becomes(r, c, u) /\ task[r][c].worked \subseteq u.worked
    <3>1. [task[r][c] EXCEPT !.worked = @ \cup {e}].worked = task[r][c].worked \cup {e}
      BY <1>1 DEF Task
    <3>2. [task[r][c] EXCEPT !.failed = @ \cup {e}].worked = task[r][c].worked
      BY <1>1 DEF Task
    <3> QED
      BY <2>2, <3>1, <3>2 DEF HandlerCommits, HandlerRejects
  <2>3. CASE HandlerRaises(r, c)
    <3>1. [task[r][c] EXCEPT !.failed = task[r][c].fresh, !.stage = "done"].worked
            = task[r][c].worked
      BY <1>1 DEF Task
    <3> QED
      BY <2>3, <3>1 DEF HandlerRaises
  <2>4. CASE HandlerReturns(r, c) \/ MarkProcessed(r, c)
    <3>1. \A stage : [task[r][c] EXCEPT !.stage = stage].worked = task[r][c].worked
      BY <1>1 DEF Task
    <3> QED
      BY <2>4, <3>1 DEF HandlerReturns, MarkProcessed
  <2>5. CASE SessionError(r, c) \/ Timeout(r, c)
    <3>1. [task[r][c] EXCEPT !.failed = Slice(r, c), !.stage = "done"].worked
            = task[r][c].worked
      BY <1>1 DEF Task
    <3> QED
      BY <2>5, <3>1 DEF SessionError, Timeout
  <2>6. CASE LateMark(r, c) \/ LateMarkFails(r, c)
    BY <2>6 DEF LateMark, LateMarkFails
  <2> QED
    BY <2>1, <2>2, <2>3, <2>4, <2>5, <2>6 DEF Deliver
<1>3. ASSUME NEW u, Becomes(r, c, u), task[r][c].worked \subseteq u.worked
      PROVE  task[s][d].worked \subseteq task'[s][d].worked
  <2>1. task' = [task EXCEPT ![r][c] = u]
    BY <1>3 DEF Becomes
  <2>2. CASE s # r
    BY <1>1, <2>1, <2>2
  <2>3. CASE s = r /\ d # c
    BY <1>1, <2>1, <2>3
  <2>4. CASE s = r /\ d = c
    BY <1>1, <1>3, <2>1, <2>4
  <2> QED
    BY <2>2, <2>3, <2>4
<1> QED
  BY <1>2, <1>3

\* A commit uses what its relay owed.
LEMMA CommitWithin ==
  ASSUME TypeOK, TypeOK', DeliveryInv, NEW r \in Relay, NEW c \in Consumer, NEW e \in Entry,
         Within(c, e), HandlerCommits(r, c, e)
  PROVE  Within(c, e)'
<1>1. task[r][c] \in Task /\ task \in [Relay -> [Consumer -> Task]]
      /\ effects[c][e] \in Nat /\ row[e].attempts \in Nat
  BY ParametersAssumption DEF TypeOK, Row, ParametersAssumption
<1>2. e \in batch[r] /\ e \notin task[r][c].worked
  BY DEF HandlerCommits, Untried, DeliveryInv, TaskSound, Slice
<1>3. /\ UNCHANGED <<row, batch>> /\ effects'[c][e] = effects[c][e] + 1
      /\ task' = [task EXCEPT ![r][c] = [task[r][c] EXCEPT !.worked = @ \cup {e}]]
  BY DEF HandlerCommits, Becomes, TypeOK
<1>4. task'[r][c].worked = task[r][c].worked \cup {e}
      /\ \A s \in Relay \ {r} : task'[s] = task[s]
  BY <1>1, <1>3 DEF Task
<1>5. Owing(c, e)' = Owing(c, e) \ {r} /\ r \in Owing(c, e)
  BY <1>2, <1>3, <1>4 DEF Owing
<1>6. /\ IsFiniteSet(Owing(c, e)') /\ Cardinality(Owing(c, e)) \in Nat
      /\ Cardinality(Owing(c, e)') = Cardinality(Owing(c, e)) - 1
  BY <1>5, FS_RemoveElement, FS_CardinalityType DEF Within
<1> QED
  BY <1>1, <1>3, <1>6 DEF Within

\* A claim pays for what its relay owes from then on.
LEMMA ClaimWithin ==
  ASSUME TypeOK, TypeOK', NEW r \in Relay, NEW c \in Consumer, NEW e \in Entry,
         Within(c, e), Claim(r)
  PROVE  Within(c, e)'
<1> DEFINE due == Oldest(Due, BatchSize)
<1>1. /\ UNCHANGED effects /\ batch[r] = {} /\ batch' = [batch EXCEPT ![r] = due]
      /\ batch \in [Relay -> SUBSET Entry]
  BY DEF Claim, TypeOK
<1>2. \A s \in Relay \ {r} : task'[s] = task[s]
  BY DEF Claim, TypeOK
<1>3. task'[r][c].worked = {}
  BY DEF Claim, TypeOK, NoTask
<1>4. row'[e] = IF e \in due THEN Leased(e) ELSE row[e]
  BY DEF Claim
<1>5. row[e] \in Row /\ effects[c][e] \in Nat /\ row[e].attempts \in Nat
  BY ParametersAssumption DEF TypeOK, Row, ParametersAssumption
<1> HIDE DEF due
<1>6. CASE e \notin due
  <2>1. Owing(c, e)' \subseteq Owing(c, e)
    BY <1>1, <1>2, <1>6 DEF Owing
  <2> QED
    BY <1>1, <1>4, <1>6, <2>1, WithinFrame
<1>7. CASE e \in due
  <2>1. Owing(c, e)' = Owing(c, e) \cup {r} /\ r \notin Owing(c, e)
    BY <1>1, <1>2, <1>3, <1>7 DEF Owing
  <2>2. row'[e].attempts = row[e].attempts + 1
    BY <1>4, <1>5, <1>7 DEF Leased, Row
  <2>3. /\ IsFiniteSet(Owing(c, e)') /\ Cardinality(Owing(c, e)) \in Nat
        /\ Cardinality(Owing(c, e)') = Cardinality(Owing(c, e)) + 1
    BY <2>1, FS_AddElement, FS_CardinalityType DEF Within
  <2> QED
    BY <1>1, <1>5, <2>2, <2>3 DEF Within
<1> QED
  BY <1>6, <1>7

LEMMA AttemptsInvInductive ==
  ASSUME TypeOK, DeliveryInv, AttemptsInv, [Next]_vars
  PROVE  AttemptsInv'
<1> SUFFICES ASSUME NEW c \in Consumer, NEW e \in Entry
             PROVE  Within(c, e)'
  BY DEF AttemptsInv
<1>0. Within(c, e) /\ TypeOK' /\ row[e] \in Row
  BY StepType DEF AttemptsInv, TypeOK
<1>1. ASSUME NEW f \in Entry, Enqueue(f)
      PROVE  Within(c, e)'
  <2>1. UNCHANGED <<effects, batch, task>> /\ row' = [row EXCEPT ![f].state = "pending"]
    BY <1>1 DEF Enqueue, relayVars
  <2>2. row'[e].attempts = row[e].attempts
    BY <1>0, <2>1 DEF TypeOK, Row
  <2> QED
    BY <1>0, <2>1, <2>2, WithinFrame DEF Owing
<1>2. ASSUME NEW r \in Relay, Claim(r)
      PROVE  Within(c, e)'
  BY <1>0, <1>2, ClaimWithin
<1>3. ASSUME NEW r \in Relay, Record(r) \/ Lose(r)
      PROVE  Within(c, e)'
  <2>1. UNCHANGED effects /\ batch' = [batch EXCEPT ![r] = {}]
        /\ \A s \in Relay \ {r} : task'[s] = task[s]
    BY SMTT(60), <1>3 DEF Record, Lose, TypeOK
  <2>2. Owing(c, e)' \subseteq Owing(c, e)
    BY <2>1 DEF Owing, TypeOK
  <2>3. \/ row'[e] = row[e]
        \/ row'[e] = [row[e] EXCEPT !.failed = TRUE, !.wait = RetryDelay(counted[r][e])]
        \/ row'[e] = [row[e] EXCEPT !.state = "published", !.failed = FALSE]
    BY <1>3 DEF Record, Lose, Recorded
  <2>4. row'[e].attempts = row[e].attempts
    BY <1>0, <2>3 DEF Row
  <2> QED
    BY <1>0, <2>1, <2>2, <2>4, WithinFrame
<1>4. CASE Tick \/ UNCHANGED vars
  <2>1. UNCHANGED <<effects, batch, task>>
        /\ (row'[e] = row[e] \/ row'[e] = [row[e] EXCEPT !.wait = row[e].wait - 1])
    BY <1>4 DEF Tick, vars, relayVars
  <2>2. row'[e].attempts = row[e].attempts
    BY <1>0, <2>1 DEF Row
  <2> QED
    BY <1>0, <2>1, <2>2, WithinFrame DEF Owing
<1>5. ASSUME NEW r \in Relay, NEW d \in Consumer, Deliver(r, d)
      PROVE  Within(c, e)'
  <2>1. UNCHANGED <<row, batch>>
        /\ (UNCHANGED effects \/ \E f \in Entry : HandlerCommits(r, d, f))
    BY <1>5 DEF Deliver, Filter, HandlerCommits, HandlerRejects, HandlerRaises, HandlerReturns,
                MarkProcessed, SessionError, Timeout, LateMark, LateMarkFails
  <2>2. CASE HandlerCommits(r, d, e) /\ d = c
    BY <1>0, <2>2, CommitWithin
  <2>3. CASE ~(HandlerCommits(r, d, e) /\ d = c)
    <3>1. ASSUME NEW f \in Entry, HandlerCommits(r, d, f)
          PROVE  effects'[c][e] = effects[c][e]
      <4>1. effects' = [effects EXCEPT ![d][f] = @ + 1] /\ (d # c \/ f # e)
            /\ effects \in [Consumer -> [Entry -> Nat]]
        BY <2>3, <3>1 DEF HandlerCommits, TypeOK
      <4>2. CASE d # c
        BY <4>1, <4>2
      <4>3. CASE d = c
        BY <4>1, <4>3
      <4> QED
        BY <4>2, <4>3
    <3>2. Owing(c, e)' \subseteq Owing(c, e)
      BY <1>5, <2>1, WorkedStays DEF Owing
    <3> QED
      BY <1>0, <2>1, <3>1, <3>2, WithinFrame
  <2> QED
    BY <2>2, <2>3
<1> QED
  BY <1>1, <1>2, <1>3, <1>4, <1>5 DEF Next, Step

LEMMA InitAttempts == Init => AttemptsInv
<1> SUFFICES ASSUME Init, NEW c \in Consumer, NEW e \in Entry
             PROVE  Within(c, e)
  BY DEF AttemptsInv
<1>1. Owing(c, e) = {} /\ effects[c][e] = 0 /\ row[e].attempts = 0
  BY DEF Init, Owing, NoRow
<1> QED
  BY <1>1, FS_EmptySet DEF Within

LEMMA AttemptsBound ==
  ASSUME TypeOK, AttemptsInv
  PROVE  EffectsWithinAttempts
<1> SUFFICES ASSUME NEW c \in Consumer, NEW e \in Entry
             PROVE  effects[c][e] <= row[e].attempts
  BY DEF EffectsWithinAttempts
<1>1. effects[c][e] + Cardinality(Owing(c, e)) <= row[e].attempts
      /\ Cardinality(Owing(c, e)) \in Nat
  BY FS_CardinalityType DEF AttemptsInv, Within
<1>2. effects[c][e] \in Nat /\ row[e].attempts \in Nat
  BY ParametersAssumption DEF TypeOK, Row, ParametersAssumption
<1> QED
  BY <1>1, <1>2

\* However failures, timeouts, losses and late marks interleave, a consumer does
\* its work on an event at most once for each time the event was claimed.
THEOREM WorkWithinAttempts == Spec => []EffectsWithinAttempts
<1>1. TypeOK /\ DeliveryInv /\ AttemptsInv /\ [Next]_vars => AttemptsInv'
  BY AttemptsInvInductive
<1>2. TypeOK /\ AttemptsInv => EffectsWithinAttempts
  BY AttemptsBound
<1> QED
  BY <1>1, <1>2, InitType, StepType, DeliveryInvInductive, InitAttempts, PTL DEF Spec

-----------------------------------------------------------------------------
(* The relay implements EventDelivery *)

\* A relay holds only rows some producer committed.
HeldInv == \A r \in Relay : \A e \in batch[r] : row[e].state # "absent"

LEMMA HeldInvInductive ==
  /\ Init => HeldInv
  /\ TypeOK /\ HeldInv /\ [Next]_vars => HeldInv'
<1>1. Init => HeldInv
  BY DEF Init, HeldInv
<1>2. ASSUME TypeOK, HeldInv, [Next]_vars
      PROVE  HeldInv'
  <2>0. /\ row \in [Entry -> Row] /\ batch \in [Relay -> SUBSET Entry]
        /\ \A e \in Entry : row[e] \in Row
        /\ \A r \in Relay : \A e \in batch[r] : e \in Entry /\ row[e].state # "absent"
    BY <1>2 DEF TypeOK, HeldInv
  <2>s. ASSUME \A e \in Entry : row[e].state # "absent" => row'[e].state # "absent",
               \A r \in Relay : \A e \in batch'[r] : e \in Entry /\ row[e].state # "absent"
        PROVE  HeldInv'
    BY <2>s DEF HeldInv
  <2>1. ASSUME NEW f \in Entry, Enqueue(f)
        PROVE  HeldInv'
    <3>1. /\ batch' = batch /\ row' = [row EXCEPT ![f].state = "pending"]
          /\ row[f].state = "absent"
      BY <2>1 DEF Enqueue, relayVars
    <3>2. \A e \in Entry : row[e].state # "absent" => row'[e] = row[e]
      BY <2>0, <3>1
    <3> QED
      BY <2>0, <2>s, <3>1, <3>2
  <2>2. ASSUME NEW r \in Relay, Claim(r)
        PROVE  HeldInv'
    <3> DEFINE due == Oldest(Due, BatchSize)
    <3>1. \A e \in due : e \in Entry /\ row[e].state = "pending"
      BY DEF Oldest, Due
    <3> HIDE DEF due
    <3>2. batch' = [batch EXCEPT ![r] = due]
      BY <2>2 DEF Claim, due
    <3>3. ASSUME NEW e \in Entry
          PROVE  row'[e].state = row[e].state
      <4>1. \/ row'[e] = row[e]
            \/ row'[e] = Leased(e)
        BY <2>2 DEF Claim
      <4> QED
        BY <2>0, <4>1 DEF Row, Leased
    <3>4. \A s \in Relay : \A e \in batch'[s] : e \in Entry /\ row[e].state # "absent"
      BY <2>0, <3>1, <3>2
    <3> QED
      BY <2>s, <3>3, <3>4
  <2>3. ASSUME NEW r \in Relay, Record(r)
        PROVE  HeldInv'
    <3>1. ASSUME NEW e \in Entry, row[e].state # "absent"
          PROVE  row'[e].state # "absent"
      <4>1. \/ row'[e] = row[e]
            \/ row'[e] = [row[e] EXCEPT !.failed = TRUE, !.wait = RetryDelay(counted[r][e])]
            \/ row'[e] = [row[e] EXCEPT !.state = "published", !.failed = FALSE]
        BY <2>3 DEF Record, Recorded
      <4> QED
        BY <2>0, <3>1, <4>1 DEF Row
    <3>2. batch' = [batch EXCEPT ![r] = {}]
      BY <2>3 DEF Record
    <3>3. \A s \in Relay : \A e \in batch'[s] : e \in Entry /\ row[e].state # "absent"
      BY <2>0, <3>2
    <3> QED
      BY <2>s, <3>1, <3>3
  <2>4. ASSUME NEW r \in Relay, Lose(r)
        PROVE  HeldInv'
    <3>1. row' = row /\ batch' = [batch EXCEPT ![r] = {}]
      BY <2>4 DEF Lose
    <3> QED
      BY <2>0, <3>1, <2>s
  <2>5. CASE Tick
    <3>1. ASSUME NEW e \in Entry
          PROVE  row'[e].state = row[e].state
      <4>1. row'[e] = row[e] \/ row'[e] = [row[e] EXCEPT !.wait = row[e].wait - 1]
        BY <2>5 DEF Tick
      <4> QED
        BY <2>0, <4>1 DEF Row
    <3>2. batch' = batch
      BY <2>5 DEF Tick
    <3> QED
      BY <2>0, <2>s, <3>1, <3>2
  <2>6. CASE UNCHANGED <<row, batch>>
    BY <2>0, <2>6, <2>s
  <2>7. ASSUME NEW r \in Relay, NEW c \in Consumer, Deliver(r, c)
        PROVE  UNCHANGED <<row, batch>>
    BY <2>7 DEF Deliver, Filter, HandlerCommits, HandlerRejects, HandlerRaises, HandlerReturns,
                MarkProcessed, SessionError, Timeout, LateMark, LateMarkFails
  <2> QED
    BY <1>2, <2>1, <2>2, <2>3, <2>4, <2>5, <2>6, <2>7 DEF Next, Step, vars
<1> QED
  BY <1>1, <1>2

Handled == {p \in Consumer \X Entry : effects[p[1]][p[2]] > 0}
Statuses == [e \in Entry |-> row[e].state]

\* Steps that commit no work and change no row's state are invisible.
LEMMA InvisibleStep ==
  ASSUME effects' = effects, \A e \in Entry : row'[e].state = row[e].state
  PROVE  UNCHANGED Delivery!vars
  BY DEF Delivery!vars

\* A handler's commit is a Handle step, or invisible when it repeats work.
LEMMA CommitHandles ==
  ASSUME TypeOK, DeliveryInv, HeldInv, NEW r \in Relay, NEW c \in Consumer, NEW e \in Entry,
         HandlerCommits(r, c, e)
  PROVE  Delivery!Handle(c, e)
<1>1. e \in Slice(r, c)
  BY DEF HandlerCommits, Untried, DeliveryInv, TaskSound
<1>2. row[e].state # "absent"
  BY <1>1 DEF Slice, HeldInv
<1>4. ASSUME NEW d \in Consumer, NEW f \in Entry
      PROVE  effects'[d][f] > 0 <=> effects[d][f] > 0 \/ (d = c /\ f = e)
  <2>1. effects' = [effects EXCEPT ![c][e] = @ + 1] /\ effects \in [Consumer -> [Entry -> Nat]]
    BY DEF HandlerCommits, TypeOK
  <2>2. CASE d # c
    BY <2>1, <2>2
  <2>3. CASE d = c /\ f # e
    BY <2>1, <2>3
  <2>4. CASE d = c /\ f = e
    <3>1. effects'[d][f] = effects[d][f] + 1 /\ effects[d][f] \in Nat
      BY <2>1, <2>4
    <3> QED
      BY <2>4, <3>1
  <2> QED
    BY <2>2, <2>3, <2>4
<1>5. Handled' = Handled \cup {<<c, e>>}
  BY <1>4 DEF Handled
<1>6. row' = row
  BY DEF HandlerCommits
<1> QED
  BY <1>2, <1>5, <1>6 DEF Delivery!Handle, Handled

\* A record is a Publish step for the rows it publishes: its relay's build
\* vouches for all of them.
LEMMA RecordPublishes ==
  ASSUME TypeOK, DeliveryInv, NEW r \in Relay, Record(r)
  PROVE  \E T \in SUBSET Entry : Delivery!Publish(T)
<1> DEFINE S == {e \in batch[r] : row[e].state = "pending" /\ e \notin Failures(r)}
<1>1. S \in SUBSET Entry
  BY DEF TypeOK
<1>2. \A e \in S : \A c \in Build[r] : e \in Handles[c] => Done(c, e)
  BY RecordPublishesHandled
<1>3. ASSUME NEW e \in Entry
      PROVE  row'[e].state = IF e \in S THEN "published" ELSE row[e].state
  <2>0. row[e] \in Row
    BY DEF TypeOK
  <2>1. CASE e \in S
    <3>1. row'[e] = [row[e] EXCEPT !.state = "published", !.failed = FALSE]
      BY <2>1 DEF Record, Recorded
    <3> QED
      BY SMTT(60), <2>0, <2>1, <3>1 DEF Row
  <2>2. CASE e \notin S
    <3>1. \/ row'[e] = row[e]
          \/ row'[e] = [row[e] EXCEPT !.failed = TRUE, !.wait = RetryDelay(counted[r][e])]
      BY <2>2 DEF Record, Recorded
    <3> QED
      BY <2>0, <2>2, <3>1 DEF Row
  <2> QED
    BY <2>1, <2>2
<1> HIDE DEF S
<1>4. \A e \in S : row[e].state = "pending"
  BY DEF S
<1>5. \A e \in S : \A c \in Build[r] : e \in Handles[c] => <<c, e>> \in Handled
  BY <1>1, <1>2, ParametersAssumption DEF ParametersAssumption, Handled, Done
<1>6. Statuses' = [e \in Entry |-> IF e \in S THEN "published" ELSE Statuses[e]]
  BY <1>3 DEF Statuses
<1>7. effects' = effects
  BY DEF Record
<1>8. Delivery!Publish(S)
  BY <1>1, <1>4, <1>5, <1>6, <1>7 DEF Delivery!Publish, Delivery!HandledBy, Handled, Statuses
<1> QED
  BY <1>1, <1>8, Zenon DEF Delivery!Publish

LEMMA StepSimulates ==
  ASSUME TypeOK, DeliveryInv, HeldInv, [Next]_vars
  PROVE  [Delivery!Next]_(Delivery!vars)
<1>0. \A e \in Entry : row[e] \in Row
  BY DEF TypeOK
<1>1. ASSUME NEW f \in Entry, Enqueue(f)
      PROVE  Delivery!Emit(f)
  <2>1. /\ effects' = effects /\ row[f].state = "absent"
        /\ \A e \in Entry : e # f => row'[e] = row[e]
    BY <1>1 DEF Enqueue, TypeOK
  <2>2. row'[f] = [row[f] EXCEPT !.state = "pending"]
    BY <1>1 DEF Enqueue, TypeOK
  <2>3. row'[f].state = "pending"
    BY <1>0, <2>2 DEF Row
  <2>4. Statuses' = [Statuses EXCEPT ![f] = "pending"]
    BY <2>1, <2>3 DEF Statuses
  <2> QED
    BY <2>1, <2>4 DEF Delivery!Emit, Statuses
<1>2. ASSUME NEW r \in Relay, Claim(r)
      PROVE  UNCHANGED Delivery!vars
  <2>1. ASSUME NEW e \in Entry
        PROVE  row'[e].state = row[e].state
    <3>1. \/ row'[e] = row[e]
          \/ row'[e] = Leased(e)
      BY <1>2 DEF Claim
    <3> QED
      BY <1>0, <3>1 DEF Row, Leased
  <2>2. effects' = effects
    BY <1>2 DEF Claim
  <2> QED
    BY <2>1, <2>2, InvisibleStep
<1>3. CASE Tick
  <2>1. ASSUME NEW e \in Entry
        PROVE  row'[e].state = row[e].state
    <3>1. row'[e] = row[e] \/ row'[e] = [row[e] EXCEPT !.wait = row[e].wait - 1]
      BY <1>3 DEF Tick
    <3> QED
      BY <1>0, <3>1 DEF Row
  <2>2. effects' = effects
    BY <1>3 DEF Tick
  <2> QED
    BY <2>1, <2>2, InvisibleStep
<1>4. ASSUME NEW r \in Relay, NEW c \in Consumer, Deliver(r, c)
      PROVE  (\E e \in Entry : HandlerCommits(r, c, e)) \/ UNCHANGED <<row, effects>>
  BY <1>4 DEF Deliver, Filter, HandlerRejects, HandlerRaises, HandlerReturns,
              MarkProcessed, SessionError, Timeout, LateMark, LateMarkFails
<1>5. CASE UNCHANGED <<row, effects>>
  BY <1>5, InvisibleStep
<1>6. ASSUME NEW r \in Relay, Lose(r)
      PROVE  UNCHANGED <<row, effects>>
  BY <1>6 DEF Lose
<1> QED
  BY <1>1, <1>2, <1>3, <1>4, <1>5, <1>6, CommitHandles, RecordPublishes
  DEF Next, Step, vars, Delivery!Next

\* The relay, with its leases, retries, timeouts and losses, implements the
\* at-least-once delivery EventDelivery states.
THEOREM RelayImplementsDelivery == Spec => DeliverySpec
<1>1. Init => Delivery!Init
  BY DEF Init, Delivery!Init, NoRow
<1>2. TypeOK /\ DeliveryInv /\ HeldInv /\ [Next]_vars => [Delivery!Next]_(Delivery!vars)
  BY StepSimulates
<1> QED
  BY <1>1, <1>2, InitType, StepType, DeliveryInvInductive, HeldInvInductive, PTL
  DEF Spec, DeliverySpec, Delivery!Spec
=============================================================================
