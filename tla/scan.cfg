SPECIFICATION FairSpec
CONSTANTS
    plainFile = plainFile  zipFile = zipFile  member = member  full = full  sub = sub
    Scanners = {full, sub}
    Scope <- MCScope
    Upgrading = {full}
    Plain = {plainFile}
    Archives = {zipFile}
    Members = {member}
    MembersOf <- MCMembersOf
    OldRows = {plainFile}
    Watched = {plainFile, zipFile}
    SCANNER_VERSION = 1
    batch_size = 2
    NoRow = NoRow
    NoFile = NoFile
    MaxOps = 1
    MaxWatch = 1
    MaxFailures = 1
    MaxInbox = 1
INVARIANTS
    CompleteArchives
PROPERTIES
    Converges
CHECK_DEADLOCK FALSE
