SPECIFICATION AdoptSpec
CONSTANTS
    Agents = {ann, bob}
    Tool = "adopt"
INVARIANTS UnblockedTurnsEndGreen
PROPERTIES FoundFilesAreSpared TurnsEnd
