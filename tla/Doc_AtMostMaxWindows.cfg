CONSTANTS
    Task = {t1, t2}
    NoTask = NoTask
    MaxWindowsMade = 2
    MaxWindows = 1
    QueueLen = 2
    CommandsPerFrame = 1
    HadesQueueLen = 2
    MaxKills = 0
SPECIFICATION SafetySpec
INVARIANT AtMostMaxWindows
CHECK_DEADLOCK FALSE
