SPECIFICATION FairSpec
CONSTANTS
    NumProposals = 2
    MaxReflections = 0
    MinImprovement = 1
    DatasetSize = 4
    BatchSize = 2
    PerfectSum = 1
    ValSize = 2
    MaxScore = 1
    ValScores <- MCValScores
    MaxIterations = 4
    MaxRollouts = 6
    MaxSystemRuns = 13
    MaxCandidateNum = 2
    ScoreEps = 0
    OtherLimit = TRUE
    SelectMayRaise = FALSE
    RolloutMayFail = TRUE
    CleanupUnavailable = TRUE
    MaxRestarts = 1
INVARIANTS
    TypeOK SlotOwnership PermitsBalance EverySlotRecordedOnce
    AliveIsValidated StopsOnlyOnBudget DrainedAtDone BudgetOvershoot
PROPERTIES
    CursorMonotone Termination
