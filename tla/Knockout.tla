------------------------------- MODULE Knockout -------------------------------
(***************************************************************************)
(* What a knockout bracket promises, whoever writes it: a node is decided   *)
(* once, for somebody who reached it, and nothing of it changes afterwards; *)
(* the tournament is over once, when the last node has its winner and no    *)
(* pair of contestants is left without a result, and nothing is decided     *)
(* after that.                                                              *)
(***************************************************************************)
EXTENDS Integers

CONSTANTS
  Nodes,        \* the coordinates <<round, slot>> of the bracket
  Entrants      \* Entrants[n]: who was drawn into node n of the first round

VARIABLES
  winner,       \* winner[n]: a player, or Nobody while n is undecided
  over          \* the tournament was completed

vars == <<winner, over>>

\* A player is known by their seed, 1 being the strongest.
Nobody == 0

Parent(n) == <<n[1] + 1, n[2] \div 2>>
Children(n) == {c \in Nodes : Parent(c) = n}

\* Who has reached node n so far.
Contestants(n) ==
  (IF n[1] = 1 THEN Entrants[n] ELSE {winner[c] : c \in Children(n)}) \ {Nobody}

\* A first round of one is won before it is played.
Unopposed(n) == IF n[1] = 1 THEN {p \in Entrants[n] : Entrants[n] = {p}} ELSE {}

Init ==
  /\ winner = [n \in Nodes |-> IF Unopposed(n) = {} THEN Nobody
                               ELSE CHOOSE p \in Unopposed(n) : TRUE]
  /\ over = FALSE

\* A node is decided, and with it those its winner passes through unopposed.
Decide ==
  /\ ~over
  /\ winner' \in [Nodes -> Nat]
  /\ \A n \in Nodes :
       winner'[n] # winner[n] => winner[n] = Nobody /\ winner'[n] \in Contestants(n)'
  /\ UNCHANGED over

Finish ==
  /\ ~over
  /\ over' = TRUE
  /\ \A n \in Nodes : \A p, q \in Contestants(n) : p # q => winner[n] # Nobody
  /\ \A n \in Nodes : Parent(n) \notin Nodes => winner[n] # Nobody
  /\ UNCHANGED winner

Next == Decide \/ Finish

Spec == Init /\ [][Next]_vars
=============================================================================
