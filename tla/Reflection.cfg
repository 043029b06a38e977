SPECIFICATION Spec
CONSTANTS
    NumProposals = 2
    MaxReflections = 2
    MinImprovement = 2
    DatasetSize = 3
    BatchSize = 2
    PerfectSum = 3
    ValSize = 1
    MaxScore = 1
    ValScores <- MCValScores
    MaxIterations = 3
    MaxRollouts = 99
    MaxSystemRuns = 99
    MaxCandidateNum = 2
    ScoreEps = 0
    OtherLimit = FALSE
    SelectMayRaise = FALSE
    RolloutMayFail = FALSE
    CleanupUnavailable = TRUE
    MaxRestarts = 0
INVARIANTS
    ChainOwnership SnapshotFresh NoLeak FamilyTree
