SPECIFICATION Spec
CONSTANTS
    p1 = p1
    p2 = p2
    k1 = k1
    k2 = k2
    Procs <- MCTwo
    Works <- Shared
    MayNotSign = TRUE
    MayCrash = TRUE
    MayFail = TRUE
    MaxSeals <- Few
    MaxRestores = 1
INVARIANTS
    LossRecorded
    VerifiedIsProvable
    FailedMeansChanged
    AnchorsChained
