SPECIFICATION Spec
CONSTANTS
    b1 = b1
    b2 = b2
    Blobs <- MCBlobs
    Builds <- TwoBuilds
    WriteFaults = TRUE
    MaxRuns = 3
    MaxRecords = 1
INVARIANTS
    SealedLogsPreserved
    RestoredExactly
    AbortedLinesNeverSealed
PROPERTIES
    ImplementsHistory
