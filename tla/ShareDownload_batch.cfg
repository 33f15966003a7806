SPECIFICATION Spec
CONSTANTS
    N = 2
    Concurrency = 2
    Policies = {"force", "no-clobber", "newer"}
    Users = {u1, u2}
    u1 = u1
    u2 = u2
    Recipient = u1
    None = None
CHECK_DEADLOCK FALSE
INVARIANTS
    CompleteMeansAll
    AvailableMeansSaved
    SameRecipient
    QuotaAccounted
    AccountAgrees
    IndependentFiles
PROPERTIES
    NeverClobbers
    Ends
