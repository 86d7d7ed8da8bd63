\* Three command slots with every attribute, one task-management thread.
CONSTANTS
    t1 = t1
    t2 = t2
    t3 = t3
    a1 = a1
    Tasks = {t1, t2, t3}
    Attrs = {"SIMPLE", "HEAD", "ORDERED", "ACA"}
    Aborters = {a1}
SPECIFICATION LiveSpec
INVARIANTS
    
    
    ExecutingOnce
    DispatchIsScan
PROPERTIES
    StartsInTurn
    
    AbortsReturn
