CONSTANTS
    Task = {t1, t2}
    NoTask = NoTask
    MaxWindowsMade = 2
    MaxWindows = 2
    QueueLen = 1
    CommandsPerFrame = 1
    HadesQueueLen = 2
    MaxKills = 1
SPECIFICATION Spec
PROPERTIES CallsReturn DeadLeaveNoWindows
CHECK_DEADLOCK FALSE
