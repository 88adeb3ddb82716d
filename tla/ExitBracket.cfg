\* Three generations, legs of two units, three faults, two changes.
CONSTANTS
    MaxIds = 3
    Qty = 2
    MaxFaults = 3
    MaxChanges = 2
    SlowCancel = FALSE
SPECIFICATION LiveSpec
INVARIANT Traceable FreshBracketAlone DefensiveSize PlacedIsWhole CancelOutcomeSound
PROPERTY EscalationEnds
CHECK_DEADLOCK FALSE
