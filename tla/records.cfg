SPECIFICATION Spec
CONSTANTS
    Sessions = {s1, s2}
    Cadences = {1, 2}
    PageSize = 2
    MaxTurns = 4
    MaxTrouble = 1
    Writers = {w1, w2, w3}
    MaxTime = 4
    Drains = {d1, d2}
    MaxPageSize = 2
    MaxEntries = 4
    MaxIds = 5
    MaxStart = 1
    MonthsAhead = 3
    MaxMonths = 11
    Installed <- MCInstalled
    Recalls = {r1, r2}
    TtlSeconds = 2
    MaxClock = 4
    Memos = {m1, m2, m3}
    InConversation = {m1, m2}
    Aggregate = Aggregate
    AllTiers = 3
    MaxLlmTiers = 2
INVARIANTS
    TurnsDense
    CursorPassesNothing
    SummariesSettle
    VersionsContiguous
    WalkComplete
    VerdictHonest
    DefaultStaysEmpty
    DowngradeFresh
    RecallRecorded
PROPERTIES
    PastIsSettled
CHECK_DEADLOCK FALSE
