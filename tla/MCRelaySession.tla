---------------------------- MODULE MCRelaySession ----------------------------
(* An instance of RelaySession for TLC. *)
EXTENDS RelaySession

CONSTANTS c1, c2, c3
=============================================================================
