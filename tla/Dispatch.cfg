\* Three ids, one crash; the clock stops four intervals in.
CONSTANTS
    MaxIds = 3
    MaxPosts = 4
    MaxTime = 6
    MaxCrashes = 1
    Grace = 1
    MissesToReject = 2
    Skew = 1
    PartialCancel = FALSE
SPECIFICATION LiveSpec
INVARIANT TypeOK OneOrder PlacedIsReal RejectedIsGone
PROPERTY ParkResolves
CHECK_DEADLOCK FALSE
