CONSTANTS
    Task = {t1, t2}
    Nobody = Nobody
    Callers = {t1}
    Settings = {t2}
    QueueLen = 1
    Dials = 1
    Hangups = 1
    MaxEvents = 2
SPECIFICATION Spec
INVARIANTS
    StatusFollowsLink UnwantedLinksAreExcused
PROPERTIES
    CallsAreAnswered
CHECK_DEADLOCK FALSE
