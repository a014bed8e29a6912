------------------------- MODULE MCTournamentBracket -------------------------
(* Brackets for TLC: two semi-finals and a final, for three or four players,  *)
(* and one of eight slots and seven players.                                  *)
EXTENDS TournamentBracket, TLC

CONSTANTS s1, d1, d2, r1, w1

Pair(l, d) == [s \in Side |-> IF s = "light" THEN l ELSE d]
FourNodes == {<<1, 0>>, <<1, 1>>, <<2, 0>>}
FourSeats == (<<1, 0>> :> Pair(1, 4)) @@ (<<1, 1>> :> Pair(2, 3))
ThreeSeats == (<<1, 0>> :> Pair(1, 0)) @@ (<<1, 1>> :> Pair(2, 3))
SevenNodes == {<<1, 0>>, <<1, 1>>, <<1, 2>>, <<1, 3>>, <<2, 0>>, <<2, 1>>, <<3, 0>>}
SevenSeats == (<<1, 0>> :> Pair(1, 0)) @@ (<<1, 1>> :> Pair(4, 5))
           @@ (<<1, 2>> :> Pair(2, 7)) @@ (<<1, 3>> :> Pair(3, 6))

\* The semi-finals have a winner, the final is drawn, or is drawn at first.
FinalOpen == [n \in Nodes |-> IF n[1] = 2 THEN {"dark", "drawn"} ELSE {"light"}]
FinalDrawn == [n \in Nodes |-> IF n[1] = 2 THEN {"drawn"} ELSE {"light"}]
Decisive == [n \in Nodes |-> {"light"}]
OneSemi == {<<1, 1>>}
=============================================================================
