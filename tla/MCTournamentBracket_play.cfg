CONSTANTS
  s1 = s1
  d1 = d1
  d2 = d2
  r1 = r1
  w1 = w1
  Nodes <- FourNodes
  Seats <- ThreeSeats
  Starter = {s1}
  Deliverer = {d1}
  Reconciler = {r1}
  Sweeper = {}
  Fallible = {s1, d1, r1}
  Results <- FinalOpen
  Missable = {}
  MaxCrashes = 2
SPECIFICATION FairSpec
INVARIANTS TypeOK WonAsPlayed
PROPERTIES EveryPairIsDecided PlayedBracketCompletes
CHECK_DEADLOCK FALSE
