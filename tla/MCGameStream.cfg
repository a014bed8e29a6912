CONSTANTS
  MaxPly = 3
  Mine <- Second
  BufferLength = 2
  MaxFaults = 1
SPECIFICATION FairSpec
INVARIANTS TypeOK ResyncIsAsked NothingMissedSilently
PROPERTIES EntryEnds CatchesUp EndIsLearnt
CHECK_DEADLOCK FALSE
