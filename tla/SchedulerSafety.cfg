SPECIFICATION Spec
CONSTANTS
    Server = {a, b}
    Card = {once, capped}
    OneShot = {once}
    CatchUp = {once, capped}
    Limited = {capped}
    MaxRuns = 2
    MaxGap = 2
    BeatEvery = 1
    StaleAfter = 2
    MaxStarts = 3
    MaxFaults = 1
SYMMETRY ServerSymmetry
INVARIANTS TypeOK PassOnFreshLock RunsWithinLimit OneShotRunsOnce RunsAreCounted
