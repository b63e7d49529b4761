SPECIFICATION CPSpec
CONSTANTS
    MaxRuns = 1
    MaxIterations = 2
    MaxSteps = 2
INVARIANTS
    SavedLoads
CHECK_DEADLOCK FALSE
