SPECIFICATION FairSpec
CONSTANTS
    Conns = {1, 2}
    Inbound = {1, 2}
    Supports = {1, 2}
    Honest = {1}
    Keys = {"k1", "k2"}
    OwnKey <- Holder
    OurKey = "ours"
    NoKey = "none"
    Block = 2
    CREDIT_MIN_DOWNLOADED = 2
    MaxBytes = 2
    MaxStray = 3
    MaxRestarts = 1
INVARIANTS
    BoundIsProven
    NothingInherited
    BonusNeedsTheKey
PROPERTY
    HonestIsKnown
