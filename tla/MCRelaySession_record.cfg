SPECIFICATION Spec
CONSTANTS
  c1 = c1
  c2 = c2
  c3 = c3
  Consumer = {c1, c2, c3}
  Free = Free
INVARIANTS
  SessionExclusive
CHECK_DEADLOCK FALSE
