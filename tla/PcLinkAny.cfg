SPECIFICATION Spec
CONSTANTS
  MaxLen = 8
  MaxFrames = 2
  Text <- MCTextAny
  Polite = FALSE
  Steady = FALSE
  MayLose = TRUE
  MallocFails = TRUE
INVARIANTS
  TypeOK
  IndexInBounds
  NoStrandedBytes
  RunInOrder
CHECK_DEADLOCK FALSE
