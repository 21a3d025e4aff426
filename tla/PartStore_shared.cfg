SPECIFICATION Spec
CONSTANTS
    d1 = d1
    d2 = d2
    Downloads <- Two
    MaxProgress = 1
    MaxIndex = 2
    MaxKills = 0
INVARIANT
    IndexIsNeverShared
CHECK_DEADLOCK FALSE
