SPECIFICATION FairSpec
CONSTANTS
    QueueCap = 2
    ErrsCap = 1
    MaxAlerts = 4
INVARIANTS
    NeverStalls
    AlertsAccounted
    PostedInOrder
PROPERTIES
    AlertsEnd
CHECK_DEADLOCK FALSE
