------------------------------ MODULE OutboxRelay ------------------------------
(***************************************************************************)
(* The transactional outbox of the API: rows that producers commit beside  *)
(* their business facts, relays (one per API instance) that claim due      *)
(* rows, hand them to every interested consumer concurrently, and record   *)
(* the outcome, and the per-consumer ledger of what was handled.           *)
(*                                                                         *)
(* A database transaction is one step.  Instants are kept as durations:    *)
(* `next_attempt_at <= now` is `wait = 0`, and Tick counts every duration   *)
(* down, so nothing bounds how long the system runs.                       *)
(***************************************************************************)
EXTENDS Integers, FiniteSets

CONSTANTS
  Entry,         \* outbox rows, numbered in the order of `occurred_at, id`
  Relay,         \* relay workers, one per API instance
  Consumer,      \* EventHandlers, by the name they ledger under
  Handles,       \* Handles[c]: the entries whose event_type consumer c handles
  Build,         \* Build[r]: the consumers composed into r's process
  BatchSize, MaxAttempts, Lease, RetryBase, RetryMax,
  Budget,        \* timeout_seconds of a consumer's policy
  Slack,         \* bound: what a tick takes beyond its consumers' budget
  MaxLosses      \* bound: relays lost between their claim and their record

\* The delay of `_retry_at`, for a row whose claim counted `attempt`.
RetryDelay(attempt) ==
  LET exponent == IF attempt > 1 THEN attempt - 1 ELSE 0
      exponential == RetryBase * 2 ^ exponent
  IN  IF exponential < RetryMax THEN exponential ELSE RetryMax

ASSUME ParametersAssumption ==
  /\ Entry \subseteq Nat
  /\ Handles \in [Consumer -> SUBSET Entry]
  /\ Build \in [Relay -> SUBSET Consumer]
  /\ BatchSize \in Nat \ {0} /\ MaxAttempts \in Nat \ {0}
  /\ Lease \in Nat \ {0} /\ Budget \in Nat /\ Slack \in Nat
  /\ MaxLosses \in Nat

\* The delays the settings allow are whole numbers of seconds.
ASSUME RetryDelayAssumption == \A k \in 0..MaxAttempts : RetryDelay(k) \in Nat

VARIABLES
  row,       \* platform.outbox
  ledger,    \* platform.processed_event: <<consumer, entry>> pairs
  effects,   \* history: how often a consumer committed its work on an entry
  batch,     \* the entries a relay claimed and has not recorded; {} when idle
  counted,   \* the attempt_count the claim returned for each of them
  elapsed,   \* time since that claim
  task,      \* the delivery of a relay's batch to each of its consumers
  orphan,    \* what a shielded `_mark` still has to write after its timeout
  losses     \* history: relays lost holding a claim

relayVars == <<batch, counted, elapsed, task, orphan>>
vars == <<row, ledger, effects, batch, counted, elapsed, task, orphan, losses>>

RowState == {"absent", "pending", "published", "deleted"}
Row == [state : RowState, attempts : 0..MaxAttempts, wait : Nat, failed : BOOLEAN]

TaskStage == {"off", "filter", "handle", "mark", "done"}
Task == [stage : TaskStage, fresh : SUBSET Entry, worked : SUBSET Entry, failed : SUBSET Entry]

TypeOK ==
  /\ row \in [Entry -> Row]
  /\ ledger \subseteq Consumer \X Entry
  /\ effects \in [Consumer -> [Entry -> Nat]]
  /\ batch \in [Relay -> SUBSET Entry]
  /\ counted \in [Relay -> [Entry -> 0..MaxAttempts]]
  /\ elapsed \in [Relay -> 0..(Budget + Slack)]
  /\ task \in [Relay -> [Consumer -> Task]]
  /\ orphan \in [Relay -> [Consumer -> SUBSET Entry]]
  /\ losses \in 0..MaxLosses

NoRow == [state |-> "absent", attempts |-> 0, wait |-> 0, failed |-> FALSE]
NoTask == [stage |-> "off", fresh |-> {}, worked |-> {}, failed |-> {}]

Init ==
  /\ row = [e \in Entry |-> NoRow]
  /\ ledger = {}
  /\ effects = [c \in Consumer |-> [e \in Entry |-> 0]]
  /\ batch = [r \in Relay |-> {}]
  /\ counted = [r \in Relay |-> [e \in Entry |-> 0]]
  /\ elapsed = [r \in Relay |-> 0]
  /\ task = [r \in Relay |-> [c \in Consumer |-> NoTask]]
  /\ orphan = [r \in Relay |-> [c \in Consumer |-> {}]]
  /\ losses = 0

-----------------------------------------------------------------------------
(* Producers *)

\* A producer's transaction commits, and with it the row it staged.
Enqueue(e) ==
  /\ row[e].state = "absent"
  /\ row' = [row EXCEPT ![e].state = "pending"]
  /\ UNCHANGED <<ledger, effects, relayVars, losses>>

-----------------------------------------------------------------------------
(* A relay's tick *)

\* Mutants of Due: attempts never run out; a claimed row stays due (before the
\* lease existed, P2-9); only rows never attempted are due.
DueForEver == {e \in Entry : row[e].state = "pending" /\ row[e].wait = 0}
DueWhileLeased == {e \in Entry : row[e].state = "pending" /\ row[e].attempts < MaxAttempts}
DueOnce == {e \in DueForEver : row[e].attempts = 0}

Due == {e \in Entry : /\ row[e].state = "pending"
                      /\ row[e].attempts < MaxAttempts
                      /\ row[e].wait = 0}

Oldest(S, n) == {e \in S : Cardinality({d \in S : d < e}) < n}

\* The part of a batch that consumer c of relay r is handed.
Slice(r, c) == IF c \in Build[r] THEN batch[r] \cap Handles[c] ELSE {}

\* Mutant of Leased: the attempt is not counted by the claim.
LeasedUncounted(e) == [row[e] EXCEPT !.wait = Lease]

Leased(e) == [row[e] EXCEPT !.attempts = row[e].attempts + 1, !.wait = Lease]

\* Transaction A: the claim counts the attempt and takes the lease at once.
Claim(r) ==
  LET due == Oldest(Due, BatchSize) IN
  /\ batch[r] = {}
  /\ due # {}
  /\ batch' = [batch EXCEPT ![r] = due]
  /\ row' = [e \in Entry |-> IF e \in due THEN Leased(e) ELSE row[e]]
  /\ counted' = [counted EXCEPT ![r] =
       [e \in Entry |-> IF e \in due THEN row[e].attempts + 1 ELSE 0]]
  /\ elapsed' = [elapsed EXCEPT ![r] = 0]
  /\ task' = [task EXCEPT ![r] = [c \in Consumer |->
       IF c \in Build[r] /\ due \cap Handles[c] # {}
       THEN [NoTask EXCEPT !.stage = "filter"]
       ELSE NoTask]]
  /\ UNCHANGED <<ledger, effects, orphan, losses>>

Becomes(r, c, t) == task' = [task EXCEPT ![r][c] = t]

\* `_deliver`, first block: the entries this consumer's ledger does not hold.
Filter(r, c) ==
  LET fresh == {e \in Slice(r, c) : <<c, e>> \notin ledger} IN
  /\ task[r][c].stage = "filter"
  /\ Becomes(r, c, [task[r][c] EXCEPT !.fresh = fresh,
                                     !.stage = IF fresh = {} THEN "done" ELSE "handle"])
  /\ UNCHANGED <<row, ledger, effects, batch, counted, elapsed, orphan, losses>>

Untried(r, c) == task[r][c].fresh \ (task[r][c].worked \cup task[r][c].failed)

\* The handler commits its own transaction for one entry it was handed.
HandlerCommits(r, c, e) ==
  /\ task[r][c].stage = "handle"
  /\ e \in Untried(r, c)
  /\ effects' = [effects EXCEPT ![c][e] = @ + 1]
  /\ Becomes(r, c, [task[r][c] EXCEPT !.worked = @ \cup {e}])
  /\ UNCHANGED <<row, ledger, batch, counted, elapsed, orphan, losses>>

\* The handler reports a DeliveryFailure for one entry.
HandlerRejects(r, c, e) ==
  /\ task[r][c].stage = "handle"
  /\ e \in Untried(r, c)
  /\ Becomes(r, c, [task[r][c] EXCEPT !.failed = @ \cup {e}])
  /\ UNCHANGED <<row, ledger, effects, batch, counted, elapsed, orphan, losses>>

\* An exception fails everything handed over, what was committed included.
HandlerRaises(r, c) ==
  /\ task[r][c].stage = "handle"
  /\ Becomes(r, c, [task[r][c] EXCEPT !.failed = task[r][c].fresh, !.stage = "done"])
  /\ UNCHANGED <<row, ledger, effects, batch, counted, elapsed, orphan, losses>>

HandlerReturns(r, c) ==
  /\ task[r][c].stage = "handle"
  /\ Untried(r, c) = {}
  /\ Becomes(r, c, [task[r][c] EXCEPT !.stage = "mark"])
  /\ UNCHANGED <<row, ledger, effects, batch, counted, elapsed, orphan, losses>>

\* Mutant of MarkProcessed: what the handler reported as failed is marked too.
MarkWholeBatch(r, c) ==
  /\ task[r][c].stage = "mark"
  /\ ledger' = ledger \cup ({c} \X task[r][c].fresh)
  /\ Becomes(r, c, [task[r][c] EXCEPT !.stage = "done"])
  /\ UNCHANGED <<row, effects, batch, counted, elapsed, orphan, losses>>

\* `_mark`: the ledger learns what the handler did not report as failed.
MarkProcessed(r, c) ==
  /\ task[r][c].stage = "mark"
  /\ ledger' = ledger \cup ({c} \X task[r][c].worked)
  /\ Becomes(r, c, [task[r][c] EXCEPT !.stage = "done"])
  /\ UNCHANGED <<row, effects, batch, counted, elapsed, orphan, losses>>

\* The database fails under the filter or the mark: gather collects the
\* exception and every entry of the consumer's slice is failed.
SessionError(r, c) ==
  /\ task[r][c].stage \in {"filter", "mark"}
  /\ Becomes(r, c, [task[r][c] EXCEPT !.failed = Slice(r, c), !.stage = "done"])
  /\ UNCHANGED <<row, ledger, effects, batch, counted, elapsed, orphan, losses>>

\* `wait_for` cancels the delivery and fails the whole slice.  A mark already
\* under way is shielded: it goes on, and nobody waits for it.
Timeout(r, c) ==
  /\ task[r][c].stage \in {"filter", "handle", "mark"}
  /\ elapsed[r] >= Budget
  /\ orphan' = [orphan EXCEPT ![r][c] =
       IF task[r][c].stage = "mark" THEN @ \cup task[r][c].worked ELSE @]
  /\ Becomes(r, c, [task[r][c] EXCEPT !.failed = Slice(r, c), !.stage = "done"])
  /\ UNCHANGED <<row, ledger, effects, batch, counted, elapsed, losses>>

\* The shielded mark commits after its delivery was given up ...
LateMark(r, c) ==
  /\ orphan[r][c] # {}
  /\ ledger' = ledger \cup ({c} \X orphan[r][c])
  /\ orphan' = [orphan EXCEPT ![r][c] = {}]
  /\ UNCHANGED <<row, effects, batch, counted, elapsed, task, losses>>

\* ... or fails, with nobody left to hear of it.
LateMarkFails(r, c) ==
  /\ orphan[r][c] # {}
  /\ orphan' = [orphan EXCEPT ![r][c] = {}]
  /\ UNCHANGED <<row, ledger, effects, batch, counted, elapsed, task, losses>>

\* Mutant of Failures: an entry fails only if every interested consumer failed it.
FailuresOfAll(r) ==
  {e \in batch[r] : \A c \in Build[r] : e \in Handles[c] => e \in task[r][c].failed}

Failures(r) == UNION {task[r][c].failed : c \in Consumer}

\* Mutant of Recorded: failures leave no trace.
RecordedSuccessOnly(r, e) ==
  IF row[e].state = "pending" /\ e \notin Failures(r)
  THEN [row[e] EXCEPT !.state = "published", !.failed = FALSE] ELSE row[e]

\* What transaction B writes to a row: mark_published is guarded by
\* `published_at IS NULL`, mark_failed by nothing.
Recorded(r, e) ==
  IF row[e].state = "deleted" THEN row[e]
  ELSE IF e \in Failures(r)
  THEN [row[e] EXCEPT !.failed = TRUE, !.wait = RetryDelay(counted[r][e])]
  ELSE IF row[e].state = "pending"
  THEN [row[e] EXCEPT !.state = "published", !.failed = FALSE]
  ELSE row[e]

\* Transaction B, once every consumer has answered or run out of budget.
Record(r) ==
  /\ batch[r] # {}
  /\ \A c \in Consumer : task[r][c].stage \in {"off", "done"}
  /\ row' = [e \in Entry |-> IF e \in batch[r] THEN Recorded(r, e) ELSE row[e]]
  /\ batch' = [batch EXCEPT ![r] = {}]
  /\ counted' = [counted EXCEPT ![r] = [e \in Entry |-> 0]]
  /\ elapsed' = [elapsed EXCEPT ![r] = 0]
  /\ task' = [task EXCEPT ![r] = [c \in Consumer |-> NoTask]]
  /\ UNCHANGED <<ledger, effects, orphan, losses>>

\* The process dies, or transaction B raises and the worker's loop goes on:
\* either way the tick ends with nothing recorded.
Lose(r) ==
  /\ batch[r] # {}
  /\ losses < MaxLosses
  /\ losses' = losses + 1
  /\ batch' = [batch EXCEPT ![r] = {}]
  /\ counted' = [counted EXCEPT ![r] = [e \in Entry |-> 0]]
  /\ elapsed' = [elapsed EXCEPT ![r] = 0]
  /\ task' = [task EXCEPT ![r] = [c \in Consumer |-> NoTask]]
  /\ orphan' = [orphan EXCEPT ![r] = [c \in Consumer |-> {}]]
  /\ UNCHANGED <<row, ledger, effects>>

-----------------------------------------------------------------------------

\* Time passes, but no tick outlasts its consumers' budget by more than Slack.
Tick ==
  /\ \A r \in Relay : batch[r] # {} => elapsed[r] < Budget + Slack
  /\ elapsed' = [r \in Relay |-> IF batch[r] # {} THEN elapsed[r] + 1 ELSE elapsed[r]]
  /\ row' = [e \in Entry |->
       IF row[e].wait > 0 THEN [row[e] EXCEPT !.wait = row[e].wait - 1] ELSE row[e]]
  /\ UNCHANGED <<ledger, effects, batch, counted, task, orphan, losses>>

Deliver(r, c) ==
  \/ Filter(r, c)
  \/ \E e \in Entry : HandlerCommits(r, c, e) \/ HandlerRejects(r, c, e)
  \/ HandlerRaises(r, c)
  \/ HandlerReturns(r, c)
  \/ MarkProcessed(r, c)
  \/ SessionError(r, c)
  \/ Timeout(r, c)
  \/ LateMark(r, c)
  \/ LateMarkFails(r, c)

Step ==
  \/ \E e \in Entry : Enqueue(e)
  \/ \E r \in Relay : Claim(r) \/ Record(r) \/ Lose(r)
  \/ \E r \in Relay, c \in Consumer : Deliver(r, c)

Next == Step \/ Tick

Spec == Init /\ [][Next]_vars

\* Fairness: the worker's loop polls for ever, `wait_for` ends what a handler
\* does not, transaction B follows, and time passes.  No handler is assumed to
\* return, no row to be enqueued, no orphaned mark to complete.
Fairness ==
  /\ \A r \in Relay : WF_vars(Claim(r)) /\ WF_vars(Record(r))
  /\ \A r \in Relay, c \in Consumer : WF_vars(Timeout(r, c))
  /\ WF_vars(Tick)

FairSpec == Spec /\ Fairness

-----------------------------------------------------------------------------
(* Properties *)

\* An event leaves the backlog only after some build's interested consumers
\* have all committed their work on it: neither a failure, nor a timeout, nor
\* an overlapping relay may publish what a consumer is still owed.
PublishedWasHandled ==
  \A e \in Entry : row[e].state \in {"published", "deleted"} =>
    \E r \in Relay : \A c \in Build[r] : e \in Handles[c] => effects[c][e] > 0

\* The ledger, which suppresses every later delivery, never runs ahead of the
\* work: "writing it first would mark an event handled that a crash then
\* prevented from being handled".
LedgerSound == \A c \in Consumer, e \in Entry : <<c, e>> \in ledger => effects[c][e] > 0

\* P2-9: with a lease longer than the longest tick, no two relays ever hold
\* the same row, so no attempt is spent on a row another relay is delivering.
LeaseExclusive ==
  Budget + Slack < Lease =>
    \A r, s \in Relay : r # s => batch[r] \cap batch[s] = {}

\* An attempt that ended left an outcome: unless a relay was lost, a row that
\* is neither published nor held and has spent attempts says why it failed.
\* In particular no row is retired "having never failed".
NoSilentAttempt ==
  \A e \in Entry :
    /\ row[e].state = "pending"
    /\ row[e].attempts > 0
    /\ losses = 0
    /\ \A r \in Relay : e \notin batch[r]
    => row[e].failed

\* Redelivery is bounded: however failures, timeouts, losses and late marks
\* interleave, a consumer does its work on one event at most once per claim.
EffectsWithinAttempts ==
  \A c \in Consumer, e \in Entry : effects[c][e] <= row[e].attempts

\* Every committed event is settled: published (and perhaps pruned since), or
\* out of attempts with no relay holding it.  No lapse, loss or backoff
\* strands a row for ever.
Settled(e) ==
  \/ row[e].state \in {"published", "deleted"}
  \/ row[e].attempts = MaxAttempts /\ \A r \in Relay : e \notin batch[r]

EveryEntrySettles == \A e \in Entry : row[e].state = "pending" ~> Settled(e)

\* The whole machinery implements at-least-once delivery as EventDelivery
\* states it: claims, leases, retries, timeouts and losses are invisible there.
Delivery == INSTANCE EventDelivery WITH
  Event <- Entry,
  Wants <- Handles,
  Builds <- {Build[r] : r \in Relay},
  status <- [e \in Entry |-> row[e].state],
  handled <- {p \in Consumer \X Entry : effects[p[1]][p[2]] > 0}

DeliverySpec == Delivery!Spec
=============================================================================
