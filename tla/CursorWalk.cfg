SPECIFICATION Spec
CONSTANTS
    Sizes = {1, 2, 3, 4, 6, 7}
    BatchSizes = {1, 2, 3, 5}
    MaxEpoch = 2
INVARIANTS
    TypeOK
    EpochCovers
    EpochSlots
PROPERTY CursorForward
CHECK_DEADLOCK FALSE
