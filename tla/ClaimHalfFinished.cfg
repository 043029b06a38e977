SPECIFICATION Spec
CONSTANTS
  DataIds = {d1, d2}
  Mutator = mutator
  MaxConcurrency = 1
  MaxAttempts = 2
  MaxUnanalyzed = 1
  MaxRounds = 2
INVARIANTS
  NoHalfFinishedMutation
