SPECIFICATION Spec
CONSTANTS
    Ctx = {0, 1}
    Lengths = {2, 3, 5}
    BEAT = 2
    SLOT_SIZE <- MCSizes
    SLOT_COUNT <- MCCounts
    MaxFrames = 4
    None = None
INVARIANTS
    TypeOK
    SlotsAccounted
    CountExact
    DataMatchesTag
    PoolsKept
