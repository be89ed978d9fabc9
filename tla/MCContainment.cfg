SPECIFICATION Spec
CONSTANTS
    Agents = {main}
    Lockers = {op}
    Tests = {test}
    Scoring = {score}
    Secrets = {key}
    Others = {notes}
    MaxCalls = 2
    MaxLocks = 2
    MaxCrashes = 1
INVARIANTS ProtectedUnchanged ProtectedStaysDenied NothingLeaks
CHECK_DEADLOCK FALSE
CONSTRAINT NoWindow
VIEW CallsByEffect
