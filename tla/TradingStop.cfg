\* Two exits, each of an entry of two units, one foreign unit.
CONSTANTS
    Exits = {x1, x2}
    MaxGens = 2
    Qty = 2
    MaxForeign = 1
    MaxEntries = 2
    MaxExecs = 2
    MaxFaults = 2
    MaxCrashes = 1
    None = None
    Beyond = {"early"}
SPECIFICATION Spec
INVARIANT OneActiveOwner JournalSettles NotSilentlyBare
CHECK_DEADLOCK FALSE
