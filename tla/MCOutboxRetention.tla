--------------------------- MODULE MCOutboxRetention ---------------------------
(***************************************************************************)
(* An instance for TLC of the relays with the retention job beside them:    *)
(* one event for two consumers, and a second relay of an older build.       *)
(***************************************************************************)
EXTENDS OutboxRetention

CONSTANTS r1, r2, c1, c2

OneEntry == {1}
AllHandle == [c \in Consumer |-> Entry]

\* r2 runs a build that does not know c2 yet.
SkewedBuild == [r \in Relay |-> IF r = r1 THEN Consumer ELSE Consumer \ {c2}]
=============================================================================
