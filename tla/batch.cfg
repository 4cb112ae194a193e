SPECIFICATION FairSpec
CONSTANTS
    Orgs = {o1, o2}
    Mems = {m1}
    MaxBumps = 3
    MaxFaults = 2
INVARIANTS
    EachBumpOnce
    NothingStranded
    ShutdownKeepsEarlier
PROPERTIES
    EventuallyWritten
CHECK_DEADLOCK FALSE
