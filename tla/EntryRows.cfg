\* One entry of two units on a one-way account: safety with a restart.
CONSTANTS
    Rows = {r1}
    Kinds = {"working", "position"}
    Selling = {}
    Size = 2
    Hedge = FALSE
    MaxExecs = 3
    MaxLost = 1
    MaxRestarts = 1
    BlindClose = TRUE
SPECIFICATION Spec
INVARIANT OwnedCoversHeld RoomForOwed CursorMatches
CHECK_DEADLOCK FALSE
