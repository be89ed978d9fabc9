SPECIFICATION Spec
CONSTANTS
    Agents = {main}
    Lockers = {op}
    Tests = {test}
    Scoring = {score}
    Secrets = {key}
    Others = {notes}
    MaxCalls = 2
    MaxLocks = 1
    MaxCrashes = 0
PROPERTY MutationsBlocked
CHECK_DEADLOCK FALSE
