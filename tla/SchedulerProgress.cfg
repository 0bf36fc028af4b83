SPECIFICATION FairSpec
CONSTANTS
    Server = {a, b}
    Card = {often, unmissed}
    OneShot = {}
    CatchUp = {often}
    Limited = {}
    MaxRuns = 1
    MaxGap = 1
    BeatEvery = 1
    StaleAfter = 2
    MaxStarts = 2
    MaxFaults = 1
PROPERTIES TwoHoldersResolve KeepsFiring
