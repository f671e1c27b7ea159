SPECIFICATION CompactionSpec
CONSTANTS
    s = s  t = t  p = p  q = q  h1 = h1  h2 = h2
    scheduler = scheduler  admin = admin
    SourceDbs = {s, t}
    Paths = {p, q}
    Hashes = {h1, h2}
    NoHash = NoHash
    Compactors = {scheduler, admin}
    MaxChanges = 3
    MaxSkips = 1
    NoText = NoText
    Undecodable = Undecodable
    MaxLines = 100
    NonAscii = {"umlaut", "emoji"}
    Astral = {"emoji"}
    NotFound = NotFound
PROPERTIES
    SteadyContentKept
    OrphansReclaimed
SYMMETRY MCSymmetry
