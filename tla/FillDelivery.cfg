\* One order of two units: partial fills, retried adoption passes.
CONSTANTS
    Rows = {r1}
    Size = 2
    Overlap = 1
    Attempts = 2
    MaxTime = 3
    MaxCrashes = 1
    MaxDrops = 1
SPECIFICATION Spec
INVARIANT RowFillsOwnedOnce CursorMatchesOwners
CHECK_DEADLOCK FALSE
