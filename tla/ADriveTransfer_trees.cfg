SPECIFICATION FairSpec
CONSTANTS
    a = a
    b = b
    x = x
    Files = {a, b, x}
    Matching = {a, b}
    Tasks <- Tried
    Concurrency = 2
    MaxVersion = 3
    MaxFaults = 1
INVARIANTS
    SuccessIsReal
    CheckpointIsReal
PROPERTIES
    MovedIsKept
    CopiedBeforeRemoved
    ExtrasOnly
    Converges
