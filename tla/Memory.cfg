SPECIFICATION MemorySpec
CONSTANTS
    Tools = {"r", "w"}
    Sizes = {0, 4}
    Budget = 1
    MaxTokens = 2
    MaxRuns = 2
    MaxCalls = 2
    MaxNotes = 1
    Thresholds = {0, 1, 2, 3, 4}
    MaxFacts = 6
    MaxFailures = 3
    MaxLens = {4, 6}
    NoticeLen = 3
    Lengths = {6, 8}
    MayFail = TRUE
    MaxExecutions = 3
INVARIANTS
    ResultsFollowCalls
    WindowKept
    RewriteExact
    RequestFaithful
    SummaryExact
    ResultsKept
PROPERTIES
    AddReturns
CHECK_DEADLOCK FALSE
