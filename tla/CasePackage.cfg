SPECIFICATION FairSpec
CONSTANTS
    b1 = b1
    b2 = b2
    Blobs <- MCBlobs
    Builds <- OneBuild
    WriteFaults = FALSE
    MaxRuns = 4
    MaxRecords = 2
INVARIANTS
    TypeOK
    SealedBlobsPreserved
    AtRestVerifies
    RollbackPossible
    SealedNeverAborted
PROPERTIES
    PendingResolved
