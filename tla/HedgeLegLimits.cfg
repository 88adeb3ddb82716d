\* Every list at its limit, executions and views too.
CONSTANTS
    MaxViews = 2
    MaxEvents = 2
    MaxCredits = 1
    MaxGaps = 1
    MaxSeq = 3
    MaxSize = 2
    Quantities = {1, 2}
    MaxMissing = 1
    MaxExpiries = 1
    MaxOutages = 1
    ForeignSeq = TRUE
    OwnInOrder = TRUE
    LateStarts = {FALSE}
SPECIFICATION LegSpec
INVARIANT ProvenPartHeld NoFalseReport
CHECK_DEADLOCK FALSE
