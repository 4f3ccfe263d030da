SPECIFICATION Spec
CONSTANTS
  MaxLen = 8
  MaxFrames = 2
  Text <- MCTextLossy
  Polite = TRUE
  Steady = TRUE
  MayLose = TRUE
  MallocFails = FALSE
INVARIANTS
  AcceptedIsWhole
