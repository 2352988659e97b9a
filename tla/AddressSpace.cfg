CONSTANTS
    Page = {a, b, c}
    NumSlots = 2
    Process = {p1, p2}
    Task = {t1, t2, t3}
    p1 = p1
    p2 = p2
    t1 = t1
    t2 = t2
    t3 = t3
    NoTask = NoTask
    ProcessOf <- MCProcessOf
    MaxGrow = 2
    MaxKills = 2
SPECIFICATION Spec
SYMMETRY PageSymmetry
INVARIANTS
    MmuShowsTheHeap PagesAreHeldOnce AbortsHaveACause
CHECK_DEADLOCK FALSE
