SPECIFICATION Spec
CONSTANTS
    Agents = {main}
    Lockers = {op}
    Tests = {test}
    Scoring = {score}
    Secrets = {key}
    Others = {notes}
    MaxCalls = 2
    MaxLocks = 0
    MaxCrashes = 0
INVARIANT BrokenPolicyIsStrict
CHECK_DEADLOCK FALSE
