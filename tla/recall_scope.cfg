SPECIFICATION RecallSpec
CONSTANTS
    Memos = {m1, m2}
    InConversation = {m1}
    Aggregate = Aggregate
    AllTiers = 3
    MaxLlmTiers = 2
INVARIANTS
    ScopedToConversation
CHECK_DEADLOCK FALSE
