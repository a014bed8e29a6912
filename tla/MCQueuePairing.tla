--------------------------- MODULE MCQueuePairing ---------------------------
(* Two players, the first with two tickets, so that one ticket of the second *)
(* can meet both; and the parity that gives it a different side each time,   *)
(* which is the case the two unique indexes of game.match tell apart least.  *)
EXTENDS QueuePairing, TLC
CONSTANTS p1, p2, t1, t2, t3
MCOwnerOf == [t \in Tickets |-> IF t = t2 THEN p2 ELSE p1]
MCLightOf == [p \in Pairings |-> IF p = {t2, t3} THEN t2 ELSE t1]
Processes == Permutations(Workers) \cup Permutations(Reconcilers)
=============================================================================
