SPECIFICATION Spec
CONSTANTS
    Sessions = {s1}
    Orgs = {o1, o2}
    Mems = {1}
    NoMem = 0
    MaxCount = 1
    CascadeDepth = 1
    MaxRequests = 1
    MaxFaults = 1
INVARIANTS
    ReportedHolds
CHECK_DEADLOCK FALSE
