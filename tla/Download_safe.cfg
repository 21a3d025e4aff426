SPECIFICATION Spec
CONSTANTS
    a = a
    b = b
    Sessions <- Everyone
    Honest = {a}
    Holds <- HoldsLast
    Size = 2
    PartSize = 1
    BlockSize = 1
    EndgameLimit = 1
    MaxRequest = 1
    MetSaveBytes = 1
    MaxEvents = 3
INVARIANTS
    TypeOK
    ClosedGapsAreOnDisk
    FinalizeIsExclusive
PROPERTY
    CancelAndMoveExclude
CHECK_DEADLOCK FALSE
