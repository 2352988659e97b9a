CONSTANTS
    NumApps = 2
    Tables <- MCTables
    NumPids = 3
    Cap = 3
    MaxLaunched = 1
    MaxResets = 1
SPECIFICATION Spec
INVARIANTS
    OneProcessOfEach RunOnceStaysDone AppsRunOnGoodFirmware
PROPERTIES
    EntriesAreServed
