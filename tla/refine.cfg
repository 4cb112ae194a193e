SPECIFICATION Spec
CONSTANTS
    e1 = e1
    e2 = e2
    Tenants = {t1, t2}
    Watched = t1
    Dispatchers = {d1, d2}
    Workers = {w1, w2}
    Edges = {e1, e2}
    Pair = {a, b}
    signal <- MCSignal
    ClusterStrategy = "connected_components"
    Limit = 1
    Threshold = 3
    Plans <- MCPlans
    MaxTrouble = 1
INVARIANTS
    Rotation
    FeedbackCountsPerRun
    SummarizedOnce
SYMMETRY Anonymous
CHECK_DEADLOCK FALSE
