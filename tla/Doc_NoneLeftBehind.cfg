CONSTANTS
    NumPids = 5
    MaxTasks = 3
    MaxFailures = 0
    MaxKills = 1
    HadesQueueLen = 3
    ChildrenLen = 2
SPECIFICATION SafetySpec
INVARIANT NoneLeftBehind
CHECK_DEADLOCK FALSE
