SPECIFICATION MCSpec
CONSTANTS
    plainFile = plainFile  member = member  text = text  image = image  daily = daily  other = other
    Outer = {plainFile}
    Inner = {member}
    Kinds = {text, image}
    Sizes = {1}
    NoRow = NoRow
    Rebuilders = {daily, other}
    Daily = daily
    MaxOps = 2
    MaxFailures = 1
    MaxExtra = 1
    NoArchive = NoArchive
    NoTime = NoTime
    ArchiveIds <- MCArchiveIds
    Contents <- MCContents
    max_depth = 2
    include_hidden = FALSE
    Tops = {"topZip", "topTar", "top7z", "topGz", "topPages", "unpackable"}
    External = {"unpackable"}
    capacity = 2
    max_items = 2
INVARIANTS
    Accurate
    MembersListed
    MemberErrorsShown
PROPERTIES
    Heals
CHECK_DEADLOCK FALSE
