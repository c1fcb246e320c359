SPECIFICATION FairSpec
CONSTANTS
    a = a
    b = b
    Data <- MCData
    Written <- MCWritten
    Edits <- AnyEdit
    MaxBaseline = 1
    MaxLen = 2
    MaxEdits = 1
    MaxStarts = 2
    MaxFaults = 1
INVARIANTS
    AppendOnlyClean
    EditsReported
    JournalMirrors
PROPERTIES
    GrowthJournaled
CHECK_DEADLOCK FALSE
