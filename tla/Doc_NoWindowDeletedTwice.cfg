CONSTANTS
    Task = {t1, t2}
    NoTask = NoTask
    MaxWindowsMade = 2
    MaxWindows = 2
    QueueLen = 2
    CommandsPerFrame = 1
    HadesQueueLen = 2
    MaxKills = 0
SPECIFICATION SafetySpec
INVARIANT NoWindowDeletedTwice
CHECK_DEADLOCK FALSE
