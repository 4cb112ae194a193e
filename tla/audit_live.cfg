SPECIFICATION FairSpec
CONSTANTS
    o1 = o1
    o2 = o2
    Orgs = {o1, o2}
    Writers = {w1}
    Drainers = {d1, d2}
    UuidPrefix <- SharedPrefix
    HalfRange = 2
    BatchSize = 1
    MaxIterations = 1
    PollLimit = 1
    MaxEvents = 2
    MaxClock = 0
    MaxFaults = 1
PROPERTIES
    EventuallyChained
CHECK_DEADLOCK FALSE
