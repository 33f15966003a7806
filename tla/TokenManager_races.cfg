SPECIFICATION FairSpec
CONSTANTS
    Tasks = {t1, t2}
    NoTask = NoTask
    Profiles = {p1, p2}
    Instances = {i1}
    Kinds <- Racing
    MaxGrant = 2
    MaxRefreshRetries = 0
    MaxSendRetries = 1
INVARIANT TokensStayInProfile
PROPERTIES OwnerReplayKeepsToken CommandEnds
