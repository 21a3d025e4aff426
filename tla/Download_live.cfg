SPECIFICATION FairSpec
CONSTANTS
    a = a
    b = b
    Sessions <- Everyone
    Honest <- Everyone
    Holds <- HoldsAll
    Size = 3
    PartSize = 2
    BlockSize = 2
    EndgameLimit = 1
    MaxRequest = 2
    MetSaveBytes = 2
    MaxEvents = 1
INVARIANTS
    NoLeakedReservation
    MetNeverOverclaims
    LossIsBounded
PROPERTY
    EventuallySettles
CHECK_DEADLOCK FALSE
