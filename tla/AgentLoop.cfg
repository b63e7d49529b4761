SPECIFICATION FairSpec
CONSTANTS
    Nil = Nil
    r1 = r1
    r2 = r2
    w1 = w1
    Sigs = {r1, r2, w1}
    Threshold = 2
    Drafts <- MCDrafts
    ToolOf <- MCToolOf
    Configs <- AllConfigs
    Replies <- MCReplies
    HasInterrupter = TRUE
    ReviewsPlans = FALSE
    ReviewsEscalations = TRUE
    ReviewedTools = {"r"}
    MaxIterations = 4
    AutoRetry = 1
    ValidAnswers = {"good"}
    MaxRuns = 1
INVARIANTS
    TypeOK
    NoNilDereference
    OnlyGrantedCallsRun
    RetriesBounded
    CallIsRunningStep
PROPERTIES
    RunEnds
CHECK_DEADLOCK FALSE
