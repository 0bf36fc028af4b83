SPECIFICATION Spec
CONSTANTS
    MaxDelegates = 3
    MaxConcurrency = 2
    PlanGraphs <- Plans
    MaxRepairs = 2
    MaxRestarts = 2
    Faults = {}
INVARIANTS
    TypeOK
    NothingStartableWaits
    DiskRecallsMemory
    CompletedMeansDelivered
PROPERTIES
    CancelledIsFinal
    ImplementsRecord
CHECK_DEADLOCK FALSE
