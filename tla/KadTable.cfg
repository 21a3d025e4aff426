SPECIFICATION Spec
CONSTANTS
    Bits = 2
    Ids = {1, 2, 3}
    Addr = {"a", "a2", "b", "c", "d"}
    Claims <- Claimed
    Speakers <- Speaking
    Stored <- NodesDat
    Ip <- HostOf
    Net <- NetOf
    Net16 <- Net16Of
    K = 2
    KBase = 1
    KK = 1
    MaxPerIp = 1
    MaxPerSubnet = 2
    MaxPerBin = 1
    MaxPer16 = 2
    Lease = 2
    Window = 1
    MaxProbes = 1
INVARIANTS
    TreeIsExact
    VerifiedIsProven
    KeyIsItsHosts
    LeaseIsEarned
    TableIsDiverse
PROPERTY
    EvictionIsDeserved
