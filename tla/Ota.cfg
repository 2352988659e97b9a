CONSTANTS
    Task = {t1, t2}
    MaxSessions = 3
    MaxKills = 1
SPECIFICATION Spec
INVARIANTS
    OneSessionAtATime FreshSessionsWork
PROPERTIES
    DeadOwnersCloseTheSession
