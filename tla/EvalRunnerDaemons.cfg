SPECIFICATION Spec
CONSTANTS
    NTasks = 2
    NSeeds = 2
    Checked = {1}
    Workdirs = {{1, 2}}
    MaxAlive = 2
INVARIANT DaemonsDieToo
