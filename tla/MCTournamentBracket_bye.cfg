CONSTANTS
  s1 = s1
  d1 = d1
  d2 = d2
  r1 = r1
  w1 = w1
  Nodes <- SevenNodes
  Seats <- SevenSeats
  Starter = {s1}
  Deliverer = {}
  Reconciler = {r1}
  Sweeper = {}
  Fallible = {}
  Results <- Decisive
  Missable = {}
  MaxCrashes = 0
SPECIFICATION Spec
INVARIANTS ByeIsEarned
CHECK_DEADLOCK FALSE
