\* Two entries of one unit on opposite legs of a hedge account.
CONSTANTS
    Rows = {e1, e2}
    Kinds = {"working"}
    Selling = {e2}
    Size = 1
    Hedge = TRUE
    MaxExecs = 3
    MaxLost = 1
    MaxRestarts = 0
    BlindClose = TRUE
SPECIFICATION Spec
INVARIANT OwnedCoversHeld
CHECK_DEADLOCK FALSE
