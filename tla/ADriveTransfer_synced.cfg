SPECIFICATION Spec
CONSTANTS
    a = a
    b = b
    x = x
    Files = {a, b}
    Matching = {a, b}
    Tasks <- Repeated
    Concurrency = 2
    MaxVersion = 3
    MaxFaults = 0
INVARIANTS
    SyncFollows
