\* A disk of two units, with a bitmap page for each; every write may fail.
CONSTANTS
    p1 = p1
    p2 = p2
    NONE = NONE
    SELF = SELF
    Parts = {p1, p2}
    usize <- SmallDisk
    UNITS_PER_INDEX = 1
    Failing = {"alloc", "release", "zero", "tmap", "metadata"}
    max_meta_tmaps = 1
    max_data_tmaps = 2
    MAX_SEGMENTS = 1
    AnyCheck = FALSE
SPECIFICATION LiveSpec
PROPERTIES
    ImplementsPool
    CallsReturn
