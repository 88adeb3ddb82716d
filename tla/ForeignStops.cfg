\* One order amended once, one restart, outage or interval given up.
CONSTANTS
    MaxLog = 4
    MaxLeg = 2
    MaxVersions = 2
    MaxFaults = 1
    Beyond = {}
SPECIFICATION Spec
INVARIANT NoFalseReport NoMissedReport PreexistingIsOlder JudgedOnce
CHECK_DEADLOCK FALSE
