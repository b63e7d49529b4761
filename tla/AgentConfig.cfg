SPECIFICATION MCSpec
CONSTANTS
    FirstRun = r1
    Runs = {r1, r2}
    Ids = {i1}
    Items = {lazy, always}
    OnDemand = {lazy}
    Evaluators = {e1}
    Givens = {{"model"}, {"prompt", "planner"}}
    MaxIterations = 2
    MaxAgents = 2
    MaxOptions = 4
    Entries <- MCEntries
    Paths <- MCPaths
    MaxChanges = 3
    MaxLines = 4
INVARIANTS
    CatalogHasTool
    PlannerFitsMode
    OneSessionPerId
PROPERTIES
    RacesNeedWriter
    AgentExact
CHECK_DEADLOCK FALSE
