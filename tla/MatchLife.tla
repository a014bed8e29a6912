------------------------------- MODULE MatchLife -------------------------------
(***************************************************************************)
(* What `game` promises the modules that consume its events about one       *)
(* match: it is proposed or begun outright, it ends once or comes to        *)
(* nothing once, its result never changes, and each of those facts is       *)
(* announced exactly once, in the transaction that makes it true.           *)
(***************************************************************************)
EXTENDS Naturals

CONSTANT Result,   \* <<reason, winner>>
         NoResult

VARIABLES phase,   \* "absent", "proposed", "playing", "over", "void"
          result,
          heard    \* how often each lifecycle event was published

vars == <<phase, result, heard>>

Init ==
  /\ phase = "absent"
  /\ result = NoResult
  /\ heard = [created |-> 0, activated |-> 0, voided |-> 0, completed |-> 0]

Propose ==
  /\ phase = "absent"
  /\ phase' = "proposed"
  /\ heard' = [heard EXCEPT !.created = @ + 1]
  /\ UNCHANGED result

BeginOutright ==
  /\ phase = "absent"
  /\ phase' = "playing"
  /\ heard' = [heard EXCEPT !.created = @ + 1, !.activated = @ + 1]
  /\ UNCHANGED result

Begin ==
  /\ phase = "proposed"
  /\ phase' = "playing"
  /\ heard' = [heard EXCEPT !.activated = @ + 1]
  /\ UNCHANGED result

ComeToNothing ==
  /\ phase = "proposed"
  /\ phase' = "void"
  /\ heard' = [heard EXCEPT !.voided = @ + 1]
  /\ UNCHANGED result

Finish(r) ==
  /\ phase = "playing"
  /\ phase' = "over"
  /\ result' = r
  /\ heard' = [heard EXCEPT !.completed = @ + 1]

Next ==
  \/ Propose \/ BeginOutright \/ Begin \/ ComeToNothing
  \/ \E r \in Result : Finish(r)

Spec == Init /\ [][Next]_vars
=============================================================================
