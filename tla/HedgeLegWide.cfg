\* Four transactions of one unit, one interval given up; lists at the limits of the code.
CONSTANTS
    MaxViews = 64
    MaxEvents = 512
    MaxCredits = 8
    MaxGaps = 16
    MaxSeq = 4
    MaxSize = 2
    Quantities = {1}
    MaxMissing = 1
    MaxExpiries = 1
    MaxOutages = 0
    ForeignSeq = FALSE
    OwnInOrder = TRUE
    LateStarts = {FALSE, TRUE}
SPECIFICATION LegSpec
INVARIANT ShareWithinBounds ProvenPartHeld NoFalseReport ExactAtCursor NotNettedTwice
CHECK_DEADLOCK FALSE
