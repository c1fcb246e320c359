SPECIFICATION Spec
CONSTANTS
    b1 = b1
    b2 = b2
    Blobs <- MCBlob
    Builds <- OneBuild
    WriteFaults = FALSE
    MaxRuns = 3
    MaxRecords = 1
INVARIANTS
    OnlySealedRounds
