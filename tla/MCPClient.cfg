SPECIFICATION FairSpec
CONSTANTS
    Call = {c1, c2}
    MaxRetries = 1
    FailLimit = 1
    Tolerance = 1
    MaxBuffer = 1
    MaxProcs = 2
    MaxIds = 3
    MaxFaults = 1
INVARIANTS TypeOK OwnAnswer WaiterIsServed SentAgainOnlyOnError ConnectedHasProcess
PROPERTIES EveryCallReturns
