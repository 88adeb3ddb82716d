\* One working entry of two units, under fairness.
CONSTANTS
    Rows = {r1}
    Kinds = {"working"}
    Selling = {}
    Size = 2
    Hedge = FALSE
    MaxExecs = 2
    MaxLost = 1
    MaxRestarts = 0
    BlindClose = TRUE
SPECIFICATION LiveSpec
PROPERTY RowSettles RowsRetire
CHECK_DEADLOCK FALSE
