SPECIFICATION Spec
CONSTANTS
    Slots = {1, 2}
    IEs = {3}
    Drives = {4, 5}
    Tapes = {t1, t2, t3}
    NoTape = NoTape
    SelfExchange = FALSE
VIEW View
SYMMETRY Symmetry
INVARIANTS TypeOK InOnePlace Accounted  SourceIsLastSlot OutgoingWasMoved
