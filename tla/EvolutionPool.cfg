SPECIFICATION Spec
CONSTANTS
    Ids = {1, 2, 3, 4}
    ValScores <- MCValScores
    NumProposals = 2
    MaxCandidateNum = 2
    ScoreEps = 0
    Generations = {0, 1, 2}
INVARIANTS
    PoolBound
    FrontierIsMaximal
PROPERTIES
    BestNeverDrops
    AlwaysSelectable
    PrunedAfterReturn
CHECK_DEADLOCK FALSE
