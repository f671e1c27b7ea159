SPECIFICATION Spec
CONSTANTS
    a = a  b = b  z = z  s = s  t = t
    h1 = h1  h2 = h2  g = g  k = k
    NoRow = NoRow  NoHash = NoHash  NoSource = NoSource  NoBody = NoBody
    NoReq = 0
    MaxRequests = 3
    Paths <- MCPaths
    Sources = {s, t}
    SourceOf <- MCSourceOf
    Hashes = {h1, h2, g, k}
    Bodies <- TwoSourceBodies
    PHASE1_BATCH_SIZE = 2
    MAX_GROUP_REQUESTS = 2
    DONE_CAPACITY = 1
    Faults = {"decode", "open", "request", "lock", "panic", "commit", "payload", "remove", "file", "put", "read", "archive", "pause", "crash"}
    MaxFaults = 1
INVARIANTS
    NoAcceptedLoss
    DispatchedFilesExist
PROPERTIES
    RefinesQueue
CHECK_DEADLOCK FALSE
