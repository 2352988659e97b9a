CONSTANTS
    NumPids = 5
    MaxTasks = 4
    MaxFailures = 0
    MaxKills = 0
    HadesQueueLen = 1
    ChildrenLen = 2
SPECIFICATION SafetySpec
INVARIANT HadesNeverStuck
CHECK_DEADLOCK FALSE
