CONSTANT NumPids = 4
SPECIFICATION PidSpec
INVARIANT NoPidLost
