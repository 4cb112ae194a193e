SPECIFICATION Spec
CONSTANTS
    o1 = o1
    o2 = o2
    Orgs = {o1}
    Writers = {w1, w2}
    Drainers = {d1, d2}
    UuidPrefix <- OwnPrefix
    HalfRange = 2
    BatchSize = 2
    MaxIterations = 2
    PollLimit = 1
    MaxEvents = 3
    MaxClock = 1
    MaxFaults = 0
SYMMETRY Sessions
INVARIANT LinearChain
CHECK_DEADLOCK FALSE
