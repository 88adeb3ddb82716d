\* One order of one unit, under fairness.
CONSTANTS
    Rows = {r1}
    Size = 1
    Overlap = 1
    Attempts = 2
    MaxTime = 3
    MaxCrashes = 1
    MaxDrops = 1
SPECIFICATION LiveSpec
PROPERTY EveryRowFillOwned
CHECK_DEADLOCK FALSE
