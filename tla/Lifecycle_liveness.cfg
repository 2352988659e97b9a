CONSTANTS
    NumPids = 4
    MaxTasks = 3
    MaxFailures = 0
    MaxKills = 1
    HadesQueueLen = 2
    ChildrenLen = 2
SPECIFICATION Spec
PROPERTIES DeadAreReaped RequestsAreAnswered
CHECK_DEADLOCK FALSE
