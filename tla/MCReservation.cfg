SPECIFICATION Spec
CONSTANTS
    Initiators = {i1, i2, i3}
    Keys = {1, 2}
    Types = {3, 5, 7}
    Device = "drive"
    Rekeys = TRUE
    Generations = 2
    MAX_UNIT_ATTENTIONS = 2
VIEW View
SYMMETRY Symmetry
INVARIANT OneRegistration
PROPERTIES ReservationStays LossIsTold
