SPECIFICATION Spec
CONSTANTS
    MaxDelegates = 3
    MaxConcurrency = 2
    PlanGraphs <- Ordered
    MaxRepairs = 2
    MaxRestarts = 1
    Faults = {"preamble", "disk", "synthesis", "midcrash"}
INVARIANTS
    TaskMatchesStatus
    CrystalStored
PROPERTIES
    StartsWithUpstream
CHECK_DEADLOCK FALSE
