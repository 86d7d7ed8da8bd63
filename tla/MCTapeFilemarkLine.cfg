SPECIFICATION FullSpec
CONSTANTS
    BLK_MAX_ENTRIES = 2
    MAX_MARKS_PER_MAP = 1
    NR_MAP_DATA_ENTRIES = 3
    MIN_MAP_READ_AHEAD = 2
    MetaPages = 4
    DataBlocks = 3
    Worms = {FALSE}
    Values = {1}
    Kinds = {"F"}
    Counts = {1}
    MaxBlocks = 3
    MaxMaps = 3
CONSTRAINT FewMaps
INVARIANT
    LocateFindsMap
