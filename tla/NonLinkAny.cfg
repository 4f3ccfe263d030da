SPECIFICATION FairSpec
CONSTANTS
  Resends = 1
  MaxCalls = 2
  MaxRaces = 1
INVARIANTS
  TypeOK
  OneAnswerOneSuccess
  SmoothSucceeds
PROPERTIES
  SendReturns
CHECK_DEADLOCK FALSE
