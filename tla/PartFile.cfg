SPECIFICATION ListSpec
CONSTANTS
    Size = 6
    PartSize = 4
    BlockSize = 3
    MetGaps <- SmallLists
    Reservations <- OneRange
    Limits = {1, 2}
    Rarities = {0, 1}
INVARIANTS
    ListIsSound
    AllocatorMeetsContract
PROPERTY
    ImplementsGapSet
