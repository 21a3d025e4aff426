SPECIFICATION Spec
CONSTANTS
    c1 = c1
    c2 = c2
    c3 = c3
    c4 = c4
    x = x
    y = y
    Addr <- Addresses
    Conns <- ThreeConns
    Files = {f, g}
    Scores = {1, 2}
    Slots = 1
    QueueCap = 2
    MaxSeq = 4
INVARIANTS
    TypeOK
    SlotsConserved
    QueueIsExact
    NoDeadSource
CHECK_DEADLOCK FALSE
