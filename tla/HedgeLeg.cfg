\* Three transactions of one or two units, one interval given up, one stream
\* outage; lists of two views, one credit, one gap.
CONSTANTS
    MaxViews = 2
    MaxEvents = 512
    MaxCredits = 1
    MaxGaps = 1
    MaxSeq = 3
    MaxSize = 2
    Quantities = {1, 2}
    MaxMissing = 1
    MaxExpiries = 1
    MaxOutages = 1
    ForeignSeq = TRUE
    OwnInOrder = TRUE
    LateStarts = {FALSE, TRUE}
SPECIFICATION LegSpec
INVARIANT ShareWithinBounds ProvenPartHeld NoFalseReport ExactAtCursor NotNettedTwice
CHECK_DEADLOCK FALSE
