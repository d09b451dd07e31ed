SPECIFICATION Spec
CONSTANTS
    Ctx = {0}
    Lengths = {2}
    BEAT = 2
    SLOT_SIZE <- MCSizes
    SLOT_COUNT <- MCCounts
    MaxFrames = 4
    None = None
INVARIANT CompletionDelivered
