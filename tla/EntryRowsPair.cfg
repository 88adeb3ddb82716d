\* Two entries of one unit on one leg; one push may be lost.
CONSTANTS
    Rows = {r1, r2}
    Kinds = {"working"}
    Selling = {}
    Size = 1
    Hedge = FALSE
    MaxExecs = 3
    MaxLost = 1
    MaxRestarts = 0
    BlindClose = TRUE
SPECIFICATION Spec
INVARIANT OwnedCoversHeld
CHECK_DEADLOCK FALSE
