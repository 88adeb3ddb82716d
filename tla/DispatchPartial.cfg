\* The venue may cancel the rest of a partly filled order.
CONSTANTS
    MaxIds = 2
    MaxPosts = 3
    MaxTime = 5
    MaxCrashes = 1
    Grace = 1
    MissesToReject = 2
    Skew = 1
    PartialCancel = TRUE
SPECIFICATION Spec
INVARIANT OneOrder
CHECK_DEADLOCK FALSE
