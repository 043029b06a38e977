SPECIFICATION Spec
CONSTANTS
    NumProposals = 2
    MaxReflections = 1
    MinImprovement = 2
    DatasetSize = 3
    BatchSize = 2
    PerfectSum = 3
    ValSize = 2
    MaxScore = 1
    ValScores <- MCValScores
    MaxIterations = 2
    MaxRollouts = 99
    MaxSystemRuns = 99
    MaxCandidateNum = 1
    ScoreEps = 0
    OtherLimit = FALSE
    SelectMayRaise = TRUE
    RolloutMayFail = TRUE
    CleanupUnavailable = FALSE
    MaxRestarts = 1
    PoolIds = {1, 2, 3, 4, 5, 6, 7, 8, 9, 10}
    Generations = {0, 1, 2, 3, 4}
INVARIANTS
    BestIsBest
PROPERTIES
    PoolSpec
