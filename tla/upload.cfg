SPECIFICATION FairSpec
CONSTANTS
    Clients = {scan, watch}
    Ids = {i1, i2}
    Size <- MCSize
    HeadHasBody = FALSE
    NoRow = NoRow
    NoMeta = NoMeta
    NoPart = NoPart
    NoId = NoId
    MaxOps = 1
    MaxPending = 2
    MaxErrors = 1
INVARIANTS
    WholeContent
PROPERTIES
    Converges
    Reclaimed
CHECK_DEADLOCK FALSE
