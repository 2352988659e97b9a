CONSTANTS
    NumPids = 4
    MaxTasks = 3
    MaxFailures = 0
    MaxKills = 0
    HadesQueueLen = 3
    ChildrenLen = 2
SPECIFICATION SafetySpec
INVARIANT ReportsGoToTheMaker
CHECK_DEADLOCK FALSE
