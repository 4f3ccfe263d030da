SPECIFICATION Spec
CONSTANTS
  MaxLen = 8
  AnswerLen = 3
  MaxCalls = 3
INVARIANT
  ZeroMeansData
