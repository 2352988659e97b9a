CONSTANTS
    Client = {c1, c2}
    Totals = {7, 8, 11}
    MaxRequest = 2
    MaxRaces = 1
SPECIFICATION Spec
SYMMETRY ClientSymmetry
INVARIANTS
    BlocksPartitionPool RefusedOnlyWhenFull CountsAreExact FullyMerged
PROPERTY StoreSpec
