SPECIFICATION Spec
CONSTANTS
    plainFile = plainFile  zipFile = zipFile  member = member  hashG = hashG  hashH = hashH  wordU = wordU  wordV = wordV
    Outer = {plainFile, zipFile}
    Archives = {zipFile}
    Members = {member}
    Words = {wordU, wordV}
    Hashes = {hashG, hashH}
    NoHash = NoHash
    NoRow = NoRow
    Extractions <- MCExtractions
    Modes = {"Regex", "FileExact", "FileRegex", "Document"}
    Sensitive = {FALSE}
    MaxMtime = 1
    MaxOps = 4
    MaxSearches = 1
INVARIANTS
    Indexed
    DuplicatesKnown
    Found
CHECK_DEADLOCK FALSE
