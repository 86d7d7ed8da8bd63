\* Two disks, of two units and of one, with a bit beyond the end of the second;
\* data in two pages of the segment map.  Writes of these pages, and of the
\* bitmap on release, may fail.
CONSTANTS
    p1 = p1
    p2 = p2
    NONE = NONE
    SELF = SELF
    Parts = {p1, p2}
    usize <- TwoDisks
    UNITS_PER_INDEX = 2
    Failing = {"tmap", "release"}
    max_meta_tmaps = 1
    max_data_tmaps = 2
    MAX_SEGMENTS = 1
    AnyCheck = FALSE
SPECIFICATION Spec
SYMMETRY PartSymmetry
INVARIANTS
    TypeOK
    OneOwner
    InUseIsMarked
    UnmapSparesUnits
    FreeCovers
    RoomIsListed
PROPERTY
    CheckReclaims
