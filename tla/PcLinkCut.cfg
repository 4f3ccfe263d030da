SPECIFICATION Spec
CONSTANTS
  MaxLen = 32
  MaxFrames = 1
  Text <- MCTextCut
  Polite = TRUE
  Steady = FALSE
  MayLose = FALSE
  MallocFails = FALSE
INVARIANTS
  ExecutedIsJudged
CHECK_DEADLOCK FALSE
