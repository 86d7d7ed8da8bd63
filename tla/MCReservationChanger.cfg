SPECIFICATION Spec
CONSTANTS
    Initiators = {i1, i2, i3}
    Keys = {1, 2}
    Types = {1, 6, 8}
    Device = "changer"
    Rekeys = FALSE
    Generations = 2
    MAX_UNIT_ATTENTIONS = 1
VIEW View
SYMMETRY Symmetry
INVARIANT HolderRegistered
