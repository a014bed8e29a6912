------------------------------ MODULE MCLiveMatch ------------------------------
(***************************************************************************)
(* Small instances of LiveMatch.  Requests in flight and instances of a     *)
(* task are interchangeable.                                                *)
(***************************************************************************)
EXTENDS LiveMatch, TLC

Symmetry == Permutations(Handler) \cup Permutations(Adjudicator) \cup Permutations(Sweeper)
=============================================================================
