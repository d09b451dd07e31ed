SPECIFICATION FairSpec
CONSTANTS
    Packets <- MCPackets
    MATCHER_BEATS = 2
    UMATCH_RULESETS = 3
    UMATCH_ENTRIES = 3
    Configs <- MCConfigs
    BEAT = 64
    None = None
INVARIANTS
    TypeOK
    PacketIntact
    MetaExact
    IdleMeansDone
PROPERTY
    PacketEnds
