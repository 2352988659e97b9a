CONSTANTS
    Task = {t1, t2}
    Page = {a, b, c}
    NumSlots = 3
    MaxKills = 1
SPECIFICATION Spec
SYMMETRY PageSymmetry
INVARIANTS
    PixelsShowTheirWindow NothingIsLostOrShared FaultsHaveACause
CHECK_DEADLOCK FALSE
