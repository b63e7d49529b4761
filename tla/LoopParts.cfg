SPECIFICATION PartsSpec
CONSTANTS
    Nil = Nil
    s1 = s1
    Sigs = {s1, b, c}
    Threshold = 3
    MaxCalls = 8
    Drafts <- MCDrafts
    Sessions = {a}
    MaxPlans = 2
    MaxRuns = 1
    MaxIterations = 2
    MaxSteps = 1
    Callers = {a}
    AutoApproveRead = TRUE
    ListGiven = TRUE
    WaitTimeout = TRUE
    HasApprovalFn = TRUE
    MaxQuestions = 3
    N = 3
    Limits = {0, 1, 2, 9}
    MaxMembers = 3
    MaxRules = 2
    MaxAutoRetry = 1
    Users = {u1, u2}
    MaxCreates = 2
    MaxOps = 3
INVARIANTS
    RestoreExact
    AnswerIsForQuestion
    LimitRespected
    BatchComplete
    CompositeExact
    OutputExact
PROPERTIES
    ImplementsCounter
    ImplementsPlanner
    PartsEnd
    SandboxExact
CHECK_DEADLOCK FALSE
