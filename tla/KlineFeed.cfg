\* Five bars, pages of two, three faults; no death inside on_reconnect, no push
\* during a close handshake.
CONSTANTS
    Warm = 1
    MaxBar = 5
    KlineLimit = 2
    MaxWire = 2
    MaxFaults = 3
    DropInReconnect = FALSE
    PushInClose = FALSE
SPECIFICATION FairSpec
INVARIANT TypeOK CursorBacked
PROPERTY ImplementsBarStream StaysFresh DeliversEveryBar
CHECK_DEADLOCK FALSE
