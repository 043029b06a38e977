SPECIFICATION Spec
CONSTANTS
  MaxCalls = 4
  MaxTurns = 4
  MaxLost = 2
  MaxAssistantTurns = 1
  RecursionLimit = 7
INVARIANTS
  LossContained
  EndsInErrorIsTold
CHECK_DEADLOCK FALSE
