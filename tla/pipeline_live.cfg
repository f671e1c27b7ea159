SPECIFICATION FairSpec
CONSTANTS
    a = a  b = b  z = z  s = s  t = t
    h1 = h1  h2 = h2  g = g  k = k
    NoRow = NoRow  NoHash = NoHash  NoSource = NoSource  NoBody = NoBody
    NoReq = 0
    MaxRequests = 2
    Paths <- MCPaths
    Sources = {s, t}
    SourceOf <- MCSourceOf
    Hashes = {h1, h2, g, k}
    Bodies <- CrashBodies
    PHASE1_BATCH_SIZE = 2
    MAX_GROUP_REQUESTS = 2
    DONE_CAPACITY = 1
    Faults = {"lock", "commit", "archive", "open", "decode", "request", "panic"}
    MaxFaults = 2
PROPERTIES
    InboxDrains
    ContentEventuallyStored
INVARIANTS
    ContentRecoverable
CHECK_DEADLOCK FALSE
