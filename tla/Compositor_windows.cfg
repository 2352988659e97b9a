CONSTANTS
    Task = {t1, t2}
    NoTask = NoTask
    MaxWindowsMade = 3
    MaxWindows = 2
    QueueLen = 2
    CommandsPerFrame = 0
    HadesQueueLen = 2
    MaxKills = 1
SPECIFICATION SafetySpec
INVARIANTS
    RingIsSound CommandsFindTheirWindow RingLeadsToNothingFreed
PROPERTY ListSpec
CHECK_DEADLOCK FALSE
