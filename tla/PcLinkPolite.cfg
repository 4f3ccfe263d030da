SPECIFICATION FairSpec
CONSTANTS
  MaxLen = 8
  MaxFrames = 3
  Text <- MCTextPolite
  Polite = TRUE
  Steady = FALSE
  MayLose = TRUE
  MallocFails = FALSE
INVARIANTS
  ExecutedAsJudged
  NoStorm
PROPERTIES
  ImplementsCommandPort
CHECK_DEADLOCK FALSE
