SPECIFICATION Spec
CONSTANTS
  Resends = 3
  MaxCalls = 2
  MaxRaces = 0
INVARIANTS
  SuccessMeansHeard
CHECK_DEADLOCK FALSE
