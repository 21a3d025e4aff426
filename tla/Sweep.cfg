SPECIFICATION FairSpec
CONSTANTS
    x = x
    y = y
    Sources <- TwoSources
    Blocked = {}
    MaxParallel = 2
    MaxRounds = 2
    ParkCap = 1
    MaxFlips = 2
INVARIANTS
    ParksAreTracked
    NoSessionOutlivesSweep
PROPERTIES
    SweepEnds
    FreshSourcesAreDialed
CHECK_DEADLOCK FALSE
