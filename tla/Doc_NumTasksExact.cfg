CONSTANTS
    NumPids = 5
    MaxTasks = 3
    MaxFailures = 0
    MaxKills = 0
    HadesQueueLen = 3
    ChildrenLen = 2
SPECIFICATION SafetySpec
INVARIANT NumTasksExact
CHECK_DEADLOCK FALSE
