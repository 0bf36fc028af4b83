SPECIFICATION FairSpec
CONSTANTS
    Producer = {p, q}
    Client = {c, d}
    Block = {b}
    HistoryCap = 2
    MaxEvents = 4
    None = None
INVARIANTS TypeOK NothingMissed RegistryIsExact HistoryIsTail
PROPERTIES HistoryIsDropped
CHECK_DEADLOCK FALSE
