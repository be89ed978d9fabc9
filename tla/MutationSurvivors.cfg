SPECIFICATION Spec
CONSTANTS
    NSites = 2
    Longer = {}
    Bytecode = TRUE
    MaxClock = 1
    MaxRuns = 2
    MaxKills = 1
INVARIANT SurvivorsAreGaps
CHECK_DEADLOCK FALSE
