SPECIFICATION Spec
CONSTANTS
    Orgs = {o1}
    Mems = {m1}
    MaxBumps = 3
    MaxFaults = 0
INVARIANTS
    NothingQueuedAtExit
CHECK_DEADLOCK FALSE
