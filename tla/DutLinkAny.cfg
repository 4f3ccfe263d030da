SPECIFICATION FairSpec
CONSTANTS
  MaxLen = 8
  AnswerLen = 3
  MaxCalls = 3
INVARIANTS
  TypeOK
  AnswerIsOwn
  TimerOwned
PROPERTIES
  ImplementsDutPort
