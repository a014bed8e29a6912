------------------------------ MODULE MCGameStream ------------------------------
(* An instance of GameStream for TLC: the player has the second of three moves. *)
EXTENDS GameStream

Second == {2}
=============================================================================
