SPECIFICATION Spec
CONSTANTS
    None = None
    t1 = t1
    t2 = t2
    g1 = g1
    g2 = g2
    Targets <- One
    Guards <- MCGuards
    MayCrash = TRUE
    MaxEdits = 1
    MaxApplies = 2
    MaxRecords = 3
INVARIANTS
    RevertAllRestores
CHECK_DEADLOCK FALSE
