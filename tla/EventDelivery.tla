----------------------------- MODULE EventDelivery -----------------------------
(***************************************************************************)
(* What the outbox promises its producers and consumers, without relays,   *)
(* leases, attempts or timeouts: an emitted event is handed to consumers,  *)
(* any number of times and in any order; it is published only once every   *)
(* interested consumer of some build has handled it, and only a published  *)
(* event is ever deleted.                                                  *)
(***************************************************************************)
CONSTANTS Event, Consumer, Wants, Builds

VARIABLES status, handled

vars == <<status, handled>>

Init ==
  /\ status = [e \in Event |-> "absent"]
  /\ handled = {}

Emit(e) ==
  /\ status[e] = "absent"
  /\ status' = [status EXCEPT ![e] = "pending"]
  /\ UNCHANGED handled

Handle(c, e) ==
  /\ status[e] # "absent"
  /\ handled' = handled \cup {<<c, e>>}
  /\ UNCHANGED status

HandledBy(build, e) == \A c \in build : e \in Wants[c] => <<c, e>> \in handled

Publish(S) ==
  /\ \E build \in Builds : \A e \in S : status[e] = "pending" /\ HandledBy(build, e)
  /\ status' = [e \in Event |-> IF e \in S THEN "published" ELSE status[e]]
  /\ UNCHANGED handled

Delete(S) ==
  /\ \A e \in S : status[e] = "published"
  /\ status' = [e \in Event |-> IF e \in S THEN "deleted" ELSE status[e]]
  /\ UNCHANGED handled

Next ==
  \/ \E e \in Event : Emit(e)
  \/ \E c \in Consumer, e \in Event : Handle(c, e)
  \/ \E S \in SUBSET Event : Publish(S) \/ Delete(S)

Spec == Init /\ [][Next]_vars
=============================================================================
