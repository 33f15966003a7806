SPECIFICATION FairSpec
CONSTANTS
    N = 2
    Concurrency = 2
    Identities <- Pinned
    Checkpoints = {TRUE, FALSE}
    MaxFaults = 2
CHECK_DEADLOCK FALSE
INVARIANTS
    PublishedIsManifest
    LeftoversWarned
PROPERTIES WorkKept Recovers
