SPECIFICATION FairStreamSpec
CONSTANTS
    Cap = 2
    MaxDeltas = 2
INVARIANTS
    AnswerIsComplete
CHECK_DEADLOCK FALSE
