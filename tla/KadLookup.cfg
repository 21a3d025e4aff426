SPECIFICATION FairSpec
CONSTANTS
    N = 4
    Ip <- Hosts
    Tolerance = 3
    Alpha = 2
    FrontierSize = 2
    FindBudget = 3
    ValueBudget = 2
    Stop = 1
    MaxAnswer = 2
    MaxPanics = 1
INVARIANTS
    RequestsAreTracked
    AskedOnce
    NoLimbo
    ClosestFirst
    NothingStranded
PROPERTY
    LookupEnds
