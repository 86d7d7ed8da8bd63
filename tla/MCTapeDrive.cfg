SPECIFICATION FairSpec
CONSTANTS
    Initiators = {a}
    NoInitiator = NoInitiator
    NoDescriptor = NoDescriptor
    Lengths = {0, 1}
    BlockLengths = {2, 3}
    Modes = {TRUE, FALSE}
    TDRIVE_MAX_BLOCK_SIZE = 2
    TDRIVE_WRITE_CACHE_SIZE = 1
    TapeSize = 4
    MAX_UNIT_ATTENTIONS = 2
    MaxQueue = 3
    MaxPending = 3
INVARIANTS TypeOK PendingCovers CacheBounded WriterHasTape FailureTold
PROPERTIES PreventionHolds LockReleased
