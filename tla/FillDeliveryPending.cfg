\* One order of one unit: its row may stay pending over a restart.
CONSTANTS
    Rows = {r1}
    Size = 1
    Overlap = 1
    Attempts = 2
    MaxTime = 3
    MaxCrashes = 1
    MaxDrops = 1
SPECIFICATION Spec
INVARIANT OneOwner
CHECK_DEADLOCK FALSE
