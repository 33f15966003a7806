SPECIFICATION FairSpec
CONSTANTS
    Runs = {r1}
    N = 2
    Concurrency = 2
    MaxVersion = 1
    MaxUploads = 2
    Commands <- Forced
    Faults = {"kill"}
    MaxFaults = 1
    None = None
    Torn = Torn
    Sent = Sent
    Foreign = Foreign
CHECK_DEADLOCK FALSE
PROPERTY Resumes
