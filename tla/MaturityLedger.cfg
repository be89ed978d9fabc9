SPECIFICATION LedgerSpec
CONSTANTS
    Recorders = {a, b}
    Versions = {v1, v2}
    NoVersion = none
    ReadyStreak = 2
    Window = 4
    RateNum = 1
    RateDen = 4
    MaxRecords = 5
    MaxCrashes = 2
    MaxUpgrades = 2
INVARIANTS OneLossPerCrash FlagsAreTrue ReadyMeansConverged
CHECK_DEADLOCK FALSE
