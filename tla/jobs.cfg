SPECIFICATION FairSpec
CONSTANTS
    i1 = i1
    i2 = i2
    f1 = f1
    f2 = f2
    NoJob = NoJob
    ThePage = ThePage
    Workers = {1, 2}
    IngestIds = {i1, i2}
    ForgeIds = {f1, f2}
    Kinds = {"url", "s3_uri", "bad"}
    Workloads <- MCWorkloads
    StaleLimit = 1
    DailyCap = 1
    ProvenanceRequired = FALSE
    IncludeSummary = {f1}
    MaxSources = 2
    MaxTrouble = 2
INVARIANTS
    UrlStoredOnce
    RowsAreTruthful
    DistilledOnce
    CountersAreReal
    DistillationIsTraced
    OverspendBounded
PROPERTIES
    CompletedStands
    RunningEnds
CHECK_DEADLOCK FALSE
