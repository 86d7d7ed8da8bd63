\* A disk check after every restart that asks for one; no write fails.
CONSTANTS
    p1 = p1
    p2 = p2
    NONE = NONE
    SELF = SELF
    Parts = {p1, p2}
    usize <- OneDisk
    UNITS_PER_INDEX = 4
    Failing = {}
    max_meta_tmaps = 1
    max_data_tmaps = 2
    MAX_SEGMENTS = 1
    AnyCheck = TRUE
SPECIFICATION Spec
INVARIANT
    OneOwner
