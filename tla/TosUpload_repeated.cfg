SPECIFICATION FairSpec
CONSTANTS
    Runs = {r1, r2}
    N = 2
    Concurrency = 2
    MaxVersion = 2
    MaxUploads = 3
    Commands <- Chosen
    Faults = {"request", "reply", "kill", "power", "edit", "other", "output"}
    MaxFaults = 2
    None = None
    Torn = Torn
    Sent = Sent
    Foreign = Foreign
CHECK_DEADLOCK FALSE
INVARIANTS
    ObjectWhole
    Exclusive
    CheckpointHonest
    LeaksFromFaults
PROPERTY Finishes
