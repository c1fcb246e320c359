SPECIFICATION FairSpec
CONSTANTS
    p1 = p1
    p2 = p2
    p3 = p3
    hostA = hostA
    hostB = hostB
    hostC = hostC
    Procs <- MCProcs
    HostOf <- ThreeHosts
INVARIANTS
    ExclusiveUntilACrash
    ExclusiveAcrossHosts
PROPERTIES
    DeadOwnerReclaimed
