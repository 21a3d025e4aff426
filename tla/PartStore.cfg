SPECIFICATION Spec
CONSTANTS
    d1 = d1
    d2 = d2
    Downloads <- Two
    MaxProgress = 2
    MaxIndex = 2
    MaxKills = 2
INVARIANT
    SavedProgressIsKept
PROPERTY
    GoneStaysGone
CHECK_DEADLOCK FALSE
