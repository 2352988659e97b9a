CONSTANTS
    Client = {c1}
    Totals = {13}
    MaxRequest = 3
    MaxRaces = 0
SPECIFICATION Spec
INVARIANT RefusalMeansFull
