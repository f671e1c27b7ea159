SPECIFICATION Spec
CONSTANTS
    a = a  b = b  z = z  s = s  t = t
    h1 = h1  h2 = h2  g = g  k = k
    NoRow = NoRow  NoHash = NoHash  NoSource = NoSource  NoBody = NoBody
    NoReq = 0
    MaxRequests = 3
    Paths <- MCPaths
    Sources = {s, t}
    SourceOf <- MCSourceOf
    Hashes = {h1, h2, g, k}
    Bodies <- OrderBodies
    PHASE1_BATCH_SIZE = 2
    MAX_GROUP_REQUESTS = 2
    DONE_CAPACITY = 1
    Faults = {"crash"}
    MaxFaults = 1
INVARIANTS
    PayloadAfterCommit
    ArrivalOrder
    InOrderOutcome
CHECK_DEADLOCK FALSE
