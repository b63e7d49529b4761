SPECIFICATION Spec
CONSTANTS
    Nil = Nil
    r1 = r1
    r2 = r2
    w1 = w1
    Sigs = {r1, w1}
    Threshold = 2
    Drafts <- MCDrafts
    ToolOf <- MCToolOf
    Configs <- PlainPlanConfig
    Replies <- MCReplies
    HasInterrupter = TRUE
    ReviewsPlans = TRUE
    ReviewsEscalations = TRUE
    ReviewedTools = {"r"}
    MaxIterations = 4
    AutoRetry = 1
    ValidAnswers = {"good"}
    MaxRuns = 1
INVARIANTS
    RejectedPlanIsDropped
CHECK_DEADLOCK FALSE
