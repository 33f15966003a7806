SPECIFICATION Spec
CONSTANTS
    Tasks = {t1, t2}
    NoTask = NoTask
    Profiles = {p1, p2}
    Instances = {i1}
    Kinds <- Managers
    MaxGrant = 3
    MaxRefreshRetries = 0
    MaxSendRetries = 0
SYMMETRY TaskSymmetry
INVARIANTS InvalidGrantOnlyAfterLoss
