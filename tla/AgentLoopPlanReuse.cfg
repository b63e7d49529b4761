SPECIFICATION Spec
CONSTANTS
    Nil = Nil
    r1 = r1
    r2 = r2
    w1 = w1
    Sigs = {r1, w1}
    Threshold = 2
    Drafts <- TwoCalls
    ToolOf <- MCToolOf
    Configs <- PlainPlanConfig
    Replies <- MCReplies
    HasInterrupter = TRUE
    ReviewsPlans = TRUE
    ReviewsEscalations = TRUE
    ReviewedTools = {"r"}
    MaxIterations = 4
    AutoRetry = 1
    ValidAnswers = {"good"}
    MaxRuns = 2
INVARIANTS
    AnswerFromOwnPlan
CHECK_DEADLOCK FALSE
