\* The new socket may die while on_reconnect runs.
CONSTANTS
    Warm = 1
    MaxBar = 4
    KlineLimit = 1
    MaxWire = 1
    MaxFaults = 2
    DropInReconnect = TRUE
    PushInClose = FALSE
SPECIFICATION Spec
PROPERTY BarsInSequence
CHECK_DEADLOCK FALSE
