CONSTANTS
  Handler = {h1}
  Adjudicator = {a1}
  Reconciler = {r1}
  Sweeper = {w1}
  NoHandler = NoHandler
  Timings = {TRUE, FALSE}
  Initial = 1
  Increment = 0
  Window = 1
  Requests = {"accept", "decline", "move"}
  MaxPly = 1
  MaxNow = 3
  MaxFaults = 1
SPECIFICATION FairSpec
INVARIANTS AnnouncedAsSettled
PROPERTIES EveryFlagFalls EveryMatchIsAnswered
