\* Two generations suffice; one change makes the spent id.
CONSTANTS
    MaxIds = 2
    Qty = 2
    MaxFaults = 1
    MaxChanges = 1
    SlowCancel = FALSE
SPECIFICATION Spec
INVARIANT ConfirmedResidual
CHECK_DEADLOCK FALSE
