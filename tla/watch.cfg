SPECIFICATION MCSpec
CONSTANTS
    rootDir = rootDir  dir1 = dir1  dir2 = dir2  fileA = fileA  fileB = fileB  marker = marker
    Root = rootDir
    Dirs <- MCDirs
    Names <- MCNames
    Ctl = marker
    SourceIncludes <- MCIncludes
    Excluded <- MCExcluded
    InitFiles <- MCInitFiles
    batch_limit = 2
    NoRow = NoRow
    Idle = Idle
    MaxOps = 3
    MaxFailures = 1
    SampleFiles <- MCSamples
    Unindexed = Unindexed
    MaxEdits = 1
    Inherit = Inherit
    TreeDirs <- MCTreeDirs
    TreeFiles <- MCTreeFiles
    HiddenNames <- MCHiddenNames
    SelectWorlds <- MCWorlds
INVARIANTS
    Accounted
    WalkSelects
CHECK_DEADLOCK FALSE
PROPERTIES
    Settles
    RetriedOnceInstalled
