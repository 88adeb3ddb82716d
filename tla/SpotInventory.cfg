\* A buy in two halves and its sell, two windows of two pages of one row.
CONSTANTS
    MaxNow = 3
    Overlap = 1
    Window = 2
    Lag = 1
    Ahead = 0
    PageSize = 1
    MaxPages = 2
    Half = 6
    Sold = 7
    Step = 4
    MinSell = 6
    MaxOwn = 3
    MaxFaults = 1
    MaxCrashes = 1
    None = None
    Beyond = {}
SPECIFICATION Spec
INVARIANT ToldOnce NothingSkipped
PROPERTY EveryFillTold RowsRetire
CHECK_DEADLOCK FALSE
