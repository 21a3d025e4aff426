SPECIFICATION Spec
CONSTANTS
    Size = 5
    PartSize = 5
    BlockSize = 2
    MaxRequest = 2
    EndgameLimit = 2
    MaxBlocks = 3
INVARIANTS
    WritesStayInside
    AccountingIsExact
    HonestPeerFinishes
CHECK_DEADLOCK FALSE
