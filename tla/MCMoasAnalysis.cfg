SPECIFICATION Spec
CONSTANTS
    p = p
    q = q
    r = r
    a = a
    b = b
    c = c
    Asns = {a, b, c}
    NoRow = NoRow
    NoOp = NoOp
    Prefixes <- MCPrefixes
    V4 <- MCV4
    Keys <- MCKeys
    Paths <- MCPaths
    Tables <- MCTables
    Earlier <- MCEarlier
    Limit = 2
    Concurrency = 1
    MaxUpdates = 2
    MaxPasses = 2
INVARIANTS
    TypeOK
    PanicNeedsRace
    ScansAccounted
PROPERTIES
    ConflictsWereReal
    LastingConflictsFound
    PassEnds
CHECK_DEADLOCK FALSE
