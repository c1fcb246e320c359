SPECIFICATION FairSpec
CONSTANTS
    PendingWindow = 1
    MaxPending = 1
    FromStart = FALSE
    BufSize = 2
    MaxPoll = 2
    Numbers <- MCNumbers
    FirstNumber = 2
    Long = {2}
    MaxLines = 4
    MaxRenames = 1
    MaxCuts = 1
    MaxFaults = 1
INVARIANTS
    InOrder
    ClosedFilesCaptured
    RangesStayConsistent
    LossExact
    NoSilentLoss
PROPERTIES
    EventuallyCaptured
CHECK_DEADLOCK FALSE
