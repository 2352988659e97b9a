CONSTANTS
    NumPids = 4
    MaxTasks = 3
    MaxFailures = 1
    MaxKills = 1
    HadesQueueLen = 2
    ChildrenLen = 2
SPECIFICATION SafetySpec
INVARIANTS
    LifecycleTypeOK PidFreedLast DeathsReportedOnce TableIsExact
    HeapOutlivesUsers RefcountCoversUsers ReportsAreOfTheDead NumTasksNeverBelow
CHECK_DEADLOCK FALSE
