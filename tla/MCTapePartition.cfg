SPECIFICATION SoundSpec
CONSTANTS
    BLK_MAX_ENTRIES = 2
    MAX_MARKS_PER_MAP = 1
    NR_MAP_DATA_ENTRIES = 3
    MIN_MAP_READ_AHEAD = 2
    MetaPages = 4
    DataBlocks = 2
    Worms = {FALSE, TRUE}
    Values = {1}
    Kinds = {"F"}
    Counts = {1, 2}
    MaxBlocks = 3
    MaxMaps = 3
VIEW View
INVARIANTS
    TypeOK
    OneDirection
    BlocksApart
    

    
    
