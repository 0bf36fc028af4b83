SPECIFICATION Spec
CONSTANTS
    MaxDelegates = 2
    MaxConcurrency = 1
    PlanGraphs <- Pair
    MaxRepairs = 0
    MaxRestarts = 0
    Faults = {}
INVARIANTS
    FinishedPlanIsDeclared
CHECK_DEADLOCK FALSE
