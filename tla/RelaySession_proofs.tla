-------------------------- MODULE RelaySession_proofs --------------------------
(***************************************************************************)
(* The lock of RelaySession does what it is for between the deliveries of  *)
(* one tick, for any number of consumers.                                  *)
(***************************************************************************)
EXTENDS RelaySession, TLAPS

\* Whoever has a statement open holds the lock, and the mark of a delivery
\* starts only after its filter has ended.
Locked ==
  /\ \A c \in Consumer :
       /\ delivery[c] = "filtering" => lock = c
       /\ mark[c] = "writing" => lock = c
       /\ delivery[c] \in {"filter", "filtering", "handling"} => mark[c] = "none"
  /\ tick = "claim" => \A c \in Consumer : delivery[c] = "filter"

IInv == TypeOK /\ Locked

LEMMA InitLocked == Init => IInv
BY DEF Init, IInv, TypeOK, Locked

\* Each step in turn: only the ones that touch the lock or a statement matter.
LEMMA StepLocked ==
  ASSUME Free \notin Consumer, IInv, [Next]_vars
  PROVE  IInv'
<1>1. CASE UNCHANGED vars
  BY <1>1 DEF IInv, TypeOK, Locked, vars
<1>2. CASE Claimed \/ RecordBegins \/ RecordEnds
  BY <1>2 DEF IInv, TypeOK, Locked, Claimed, RecordBegins, RecordEnds
<1>3. ASSUME NEW c \in Consumer, FilterBegins(c)  PROVE IInv'
  BY <1>3 DEF IInv, TypeOK, Locked, FilterBegins
<1>4. ASSUME NEW c \in Consumer, FilterEnds(c)  PROVE IInv'
  BY <1>4 DEF IInv, TypeOK, Locked, FilterEnds
<1>5. ASSUME NEW c \in Consumer, HandlerEnds(c)  PROVE IInv'
  BY <1>5 DEF IInv, TypeOK, Locked, HandlerEnds
<1>6. ASSUME NEW c \in Consumer, MarkBegins(c)  PROVE IInv'
  BY <1>6 DEF IInv, TypeOK, Locked, MarkBegins
<1>7. ASSUME NEW c \in Consumer, MarkEnds(c)  PROVE IInv'
  BY <1>7 DEF IInv, TypeOK, Locked, MarkEnds
<1>8. ASSUME NEW c \in Consumer, BudgetEnds(c)  PROVE IInv'
  BY <1>8 DEF IInv, TypeOK, Locked, BudgetEnds
<1>9. QED
  BY <1>1, <1>2, <1>3, <1>4, <1>5, <1>6, <1>7, <1>8 DEF Next

LEMMA LockedSerialises == IInv => DeliveriesSerialised
BY DEF IInv, TypeOK, Locked, DeliveriesSerialised, Statements

\* Whatever is cancelled, and whatever marks outlive their deliveries, the
\* filters and marks of a tick use the session one at a time.
THEOREM Serialised ==
  ASSUME Free \notin Consumer
  PROVE  Spec => []DeliveriesSerialised
<1>1. Init => IInv
  BY InitLocked
<1>2. IInv /\ [Next]_vars => IInv'
  BY StepLocked
<1>3. IInv => DeliveriesSerialised
  BY LockedSerialises
<1>4. QED
  BY <1>1, <1>2, <1>3, PTL DEF Spec
=============================================================================
