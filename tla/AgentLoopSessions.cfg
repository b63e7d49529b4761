SPECIFICATION Spec
CONSTANTS
    Nil = Nil
    r1 = r1
    r2 = r2
    w1 = w1
    Sigs = {r1, w1}
    Threshold = 2
    Drafts <- MCDrafts
    ToolOf <- MCToolOf
    Configs <- WorkingConfigs
    Replies <- MCReplies
    HasInterrupter = TRUE
    ReviewsPlans = TRUE
    ReviewsEscalations = FALSE
    ReviewedTools = {"w"}
    MaxIterations = 3
    AutoRetry = 1
    ValidAnswers = {"good"}
    MaxRuns = 2
INVARIANTS
    CallsAnswered
    StartedInOrder
    StuckStepExplained
CHECK_DEADLOCK FALSE
