SPECIFICATION Spec
CONSTANTS
    c1 = c1
    c2 = c2
    c3 = c3
    c4 = c4
    x = x
    y = y
    Addr <- Addresses
    Conns <- FourConns
    Files = {f}
    Scores = {1}
    Slots = 2
    QueueCap = 2
    MaxSeq = 2
INVARIANT
    NoStrandedSlot
CHECK_DEADLOCK FALSE
