SPECIFICATION MCSpec
CONSTANTS
    o1 = o1
    s1 = s1
    Sessions = {s1, s2}
    Orgs = {o1, o2}
    Mems = {1, 2}
    NoMem = 0
    MaxCount = 1
    CascadeDepth = 1
    MaxRequests = 2
    MaxFaults = 1
INVARIANTS
    DeletionsAudited
    RelationsJoinMemories
    NoLostBump
    CertificatesTruthful
    RecallsDoNotDeadlock
    ReportedHoldsUnlessSwallowed
PROPERTIES
    DeletionIsFinal
    EveryCallEnds
CHECK_DEADLOCK FALSE
