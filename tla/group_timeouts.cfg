SPECIFICATION FairSpec
CONSTANTS
    s = s  t = t  g1 = g1  g2 = g2  g3 = g3
    NoReq = 0  NoSource = NoSource  NoThread = NoThread
    MaxRequests = 3
    Sources = {s, t}
    SourceOf <- TwoSources
    Threads = {g1, g2}
    MAX_GROUP_REQUESTS = 2
    consecutive_timeout_limit = 1
    MaxFaults = 1
    MaxAdmin = 1
INVARIANTS
    NoAcceptedLoss
    BreakerHolds
PROPERTIES
    InboxDrains
CHECK_DEADLOCK FALSE
