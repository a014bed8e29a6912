------------------------------ MODULE RelaySession ------------------------------
(***************************************************************************)
(* One tick of one relay, at the level of who is using its AsyncSession.   *)
(* The claim and the record use it directly; the deliveries gathered       *)
(* between them use it twice each, for the filter and for the mark, and    *)
(* take `_session_lock` to do so.  A mark is a coroutine of its own,       *)
(* shielded from the cancellation of the delivery that awaits it.          *)
(***************************************************************************)

CONSTANTS
  Consumer,
  Free        \* what the lock holds when nobody does, no consumer

VARIABLES
  tick,      \* the tick itself: claim, dispatch, record, then closed
  delivery,  \* what each consumer's `_deliver` is at
  mark,      \* its `_mark` coroutine
  lock       \* the consumer inside `_session_lock`, or Free

vars == <<tick, delivery, mark, lock>>

TypeOK ==
  /\ tick \in {"claim", "dispatch", "record", "closed"}
  /\ delivery \in [Consumer -> {"filter", "filtering", "handling", "marking", "done"}]
  /\ mark \in [Consumer -> {"none", "waiting", "writing", "ended"}]
  /\ lock \in Consumer \cup {Free}
  /\ lock # Free => delivery[lock] = "filtering" \/ mark[lock] = "writing"

Init ==
  /\ tick = "claim"
  /\ delivery = [c \in Consumer |-> "filter"]
  /\ mark = [c \in Consumer |-> "none"]
  /\ lock = Free

Claimed ==
  /\ tick = "claim"
  /\ tick' = "dispatch"
  /\ UNCHANGED <<delivery, mark, lock>>

FilterBegins(c) ==
  /\ tick = "dispatch"
  /\ delivery[c] = "filter"
  /\ lock = Free
  /\ lock' = c
  /\ delivery' = [delivery EXCEPT ![c] = "filtering"]
  /\ UNCHANGED <<tick, mark>>

\* Nothing fresh ends the delivery, and so does an exception of the session.
FilterEnds(c) ==
  /\ delivery[c] = "filtering"
  /\ lock' = Free
  /\ \E next \in {"handling", "done"} : delivery' = [delivery EXCEPT ![c] = next]
  /\ UNCHANGED <<tick, mark>>

\* The handler returns, and its mark is started and awaited; or it raises.
HandlerEnds(c) ==
  /\ delivery[c] = "handling"
  /\ \/ /\ delivery' = [delivery EXCEPT ![c] = "marking"]
        /\ mark' = [mark EXCEPT ![c] = "waiting"]
     \/ /\ delivery' = [delivery EXCEPT ![c] = "done"]
        /\ UNCHANGED mark
  /\ UNCHANGED <<tick, lock>>

MarkBegins(c) ==
  /\ mark[c] = "waiting"
  /\ lock = Free
  /\ lock' = c
  /\ mark' = [mark EXCEPT ![c] = "writing"]
  /\ UNCHANGED <<tick, delivery>>

MarkEnds(c) ==
  /\ mark[c] = "writing"
  /\ lock' = Free
  /\ mark' = [mark EXCEPT ![c] = "ended"]
  /\ delivery' = [delivery EXCEPT ![c] = "done"]
  /\ UNCHANGED tick

\* `wait_for` cancels the delivery: inside the filter that releases the lock,
\* at the shield it leaves the mark running.
BudgetEnds(c) ==
  /\ tick = "dispatch"
  /\ delivery[c] # "done"
  /\ lock' = IF delivery[c] = "filtering" THEN Free ELSE lock
  /\ delivery' = [delivery EXCEPT ![c] = "done"]
  /\ UNCHANGED <<tick, mark>>

RecordBegins ==
  /\ tick = "dispatch"
  /\ \A c \in Consumer : delivery[c] = "done"
  /\ tick' = "record"
  /\ UNCHANGED <<delivery, mark, lock>>

RecordEnds ==
  /\ tick = "record"
  /\ tick' = "closed"
  /\ UNCHANGED <<delivery, mark, lock>>

Next ==
  \/ Claimed \/ RecordBegins \/ RecordEnds
  \/ \E c \in Consumer : \/ FilterBegins(c) \/ FilterEnds(c) \/ HandlerEnds(c)
                         \/ MarkBegins(c) \/ MarkEnds(c) \/ BudgetEnds(c)

Spec == Init /\ [][Next]_vars

-----------------------------------------------------------------------------

\* The statements open on the session, by consumer.
Statements ==
  ({c \in Consumer : delivery[c] = "filtering"} \X {"filter"})
    \cup ({c \in Consumer : mark[c] = "writing"} \X {"mark"})

\* The filters and marks of all consumers are serialised: at most one of them
\* has a statement open on the session, and never while the batch is claimed.
DeliveriesSerialised ==
  /\ \A s, t \in Statements : s = t
  /\ tick = "claim" => Statements = {}

\* `_session_lock` "guards this relay's own session": nothing else has a
\* statement open on it while the outcomes are being recorded.
SessionExclusive == tick = "record" => Statements = {}
=============================================================================
