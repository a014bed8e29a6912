CONSTANTS
  Handler = {h1}
  Adjudicator = {}
  Reconciler = {}
  Sweeper = {w1}
  NoHandler = NoHandler
  Timings = {FALSE}
  Initial = 1
  Increment = 0
  Window = 1
  Requests = {"accept"}
  MaxPly = 0
  MaxNow = 2
  MaxFaults = 0
SPECIFICATION Spec
INVARIANTS AcceptanceKept
