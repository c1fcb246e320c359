SPECIFICATION FairSpec
CONSTANTS
    w1 = w1
    w2 = w2
    Workers <- MCWorkers
    N = 5
    JobsCap = 1
    ResultsCap = 1
    Faults = {"walk", "prepare", "commit"}
INVARIANTS
    InFlightExactly
PROPERTIES
    Terminates
    ImplementsSerial
CHECK_DEADLOCK FALSE
