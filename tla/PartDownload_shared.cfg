SPECIFICATION FairSpec
CONSTANTS
    Slots = 2
    Parts = 2
    Blocks = 2
    Concurrency = 1
    Absent = Absent
    MaxVersion = 3
    MaxRivals = 1
    MaxFaults = 1
INVARIANTS
    NeverMixed
    SuccessIsWhole
PROPERTIES
    NeverTorn
    Repairs
