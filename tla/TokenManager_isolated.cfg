SPECIFICATION Spec
CONSTANTS
    Tasks = {t1, t2}
    NoTask = NoTask
    Profiles = {p1}
    Instances = {i1, i2}
    Kinds <- Requests
    MaxGrant = 3
    MaxRefreshRetries = 1
    MaxSendRetries = 0
SYMMETRY TaskSymmetry
INVARIANTS GuardExact GrantNotLost ReplayTakesAnotherToken ShareTokenMatchesInstance
