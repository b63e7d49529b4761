SPECIFICATION CallsSpec
CONSTANTS
    Cap = 2
    MaxDeltas = 5
    MaxBlocks = 2
    MaxParts = 2
    BaseDelay = 3
    MaxDelay = 16
    Multiplier = 2
    Retries <- MCRetries
    Noise = {0, 50, 99}
    MaxIter = 3
    CallIds = {0, 1, 2}
    Ids = {1, 2, 3}
    MaxDocs = 3
    K = 1
    SemanticWeight = 3
    KeywordWeight = 7
    HasMerger = TRUE
    Window = 3
    MaxReqs = 2
    Capacity = 2
    Unit = 3
    Rate = 2
    Callers = {c1, c2, c3}
    MaxTime = 2
    LogTime = 9
    MaxLog = 6
    Clients = {a, b}
    WindowSize = 2
    MaxSamples = 2
    Tokens = {1, 2}
    MaxTicks = 3
    MaxCalls = 3
    Workers = {1, 2}
    Stores = {1, 2}
    Batches <- MCBatches
    Queries = {1}
    Reaches = {0}
    TopK = 2
    MaxJobs = 3
    MaxDrops = 1
INVARIANTS
    ChunksInOrder
    StreamExact
    RetryExact
    SkillExact
    FusionExact
    RetrievalExact
    LimitersExact
PROPERTIES
    CallsEnd
    MetricsExact
CHECK_DEADLOCK FALSE
