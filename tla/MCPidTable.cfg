CONSTANT NumPids = 6
SPECIFICATION PidSpec
INVARIANTS FreePidsAreUnused AtMostOnePidLost
PROPERTY PoolSpec
