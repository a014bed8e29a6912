CONSTANTS
  s1 = s1
  d1 = d1
  d2 = d2
  r1 = r1
  w1 = w1
  Nodes <- FourNodes
  Seats <- FourSeats
  Starter = {s1}
  Deliverer = {d1, d2}
  Reconciler = {}
  Sweeper = {w1}
  Fallible = {d1}
  Results <- FinalDrawn
  Missable <- OneSemi
  MaxCrashes = 1
SPECIFICATION Spec
INVARIANTS RoundsFollowTheBracket
PROPERTIES KnockoutSpec
CHECK_DEADLOCK FALSE
