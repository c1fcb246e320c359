SPECIFICATION RecorderSpec
CONSTANTS
    RollLines = 2
    MaxBytes = 1
    MaxFiles = 2
    MaxWritten = 3
    MaxMishaps = 2
    MaxSessions = 2
INVARIANTS
    PrunedAccounted
    TamperReported
    StopJournals
CHECK_DEADLOCK FALSE
