SPECIFICATION Spec
CONSTANTS
    Server = {a, b}
    Card = {often}
    OneShot = {}
    CatchUp = {often}
    Limited = {}
    MaxRuns = 1
    MaxGap = 1
    BeatEvery = 2
    StaleAfter = 6
    MaxStarts = 2
    MaxFaults = 0
INVARIANTS OneServerFires
