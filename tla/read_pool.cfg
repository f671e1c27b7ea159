SPECIFICATION MCSpec
CONSTANTS
    t1 = t1  t2 = t2  t3 = t3  t4 = t4
    empty = empty  lineA = lineA  lineB = lineB
    codeA = codeA  codeB = codeB  p1 = p1  p2 = p2  peer1 = peer1
    Threads <- MCThreads
    max_connections = 2
    MAX_IDLE_READ_CONNS = 1
    MaxCalls = 1
    MaxOpenFailures = 1
    Lines <- MCLines
    Length <- MCLength
    Empty = empty
    Blobs <- MCBlobs
    Ranges <- MCRanges
    chunk_size = 3
    MaxPuts = 2
    MaxDeletes = 1
    Outers = {"z", "/"}
    IllegalOuters = {"/"}
    Contents <- MCContents
    Stored = {"jpg", "zip"}
    Format <- MCFormat
    FileSize <- MCSize
    ZipEntries <- MCZipEntries
    MAX_MEMBER_BYTES = 2
    download_zip_member_levels = 2
    RootToken = "root"
    TokenScopes <- MCTokenScopes
    preview_timeout = 2
    StderrRoom = 2
    Codes = {codeA, codeB}
    Targets <- MCTargets
    Posters = {p1, p2}
    Peers = {peer1}
    LinkTtls = {0, Default}
    Default = Default
    links_ttl_secs = 1
    Never = 2
    RATE_LIMIT_REQUESTS = 1
    RATE_LIMIT_WINDOW = 2
    Unarchived = Unarchived
    Nobody = Nobody
    MaxHanded = 2
    Composite = {"z::m"}
    Bulk <- MCBulk
    Followers = {p1}
    PHASE1_BATCH_SIZE = 2
    activity_log_max_entries = 4
    recent_tx_capacity = 2
    MAX_RECENT_LIMIT = 3
    follow_limit = 2
    NoNewPath = NoNewPath
    BadRequest = BadRequest
    MaxBulk = 3
    MaxAborts = 1
INVARIANTS
    CapRespected
    NoLostWakeup
    LinesInPlace
    LinkGivesWhatMakerSees
    OnlyPendingMissed
PROPERTIES
    EveryCallerServed
    PreviewsEnd
CHECK_DEADLOCK FALSE
