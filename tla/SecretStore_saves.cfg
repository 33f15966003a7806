SPECIFICATION Spec
CONSTANTS
    a = a
    b = b
    c = c
    Procs = {a, b, c}
    Platforms = {"unix", "windows"}
    MaxCrashes = 2
    MaxPowerLosses = 2
    None = None
    Missing = Missing
SYMMETRY Commands
CHECK_DEADLOCK FALSE
INVARIANTS
    Readable
    SavedStays
