SPECIFICATION FairSpec
CONSTANTS
    MaxDelegates = 3
    MaxConcurrency = 1
    PlanGraphs <- Ordered
    MaxRepairs = 2
    MaxRestarts = 0
    Faults = {}
PROPERTIES
    EveryDelegateSettles
CHECK_DEADLOCK FALSE
