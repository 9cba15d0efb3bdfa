\* The same file with overlapped downloads that end late.
SPECIFICATION Spec
CONSTANTS
    p1 = p1
    p2 = p2
    r1 = r1
    r2 = r2
    Users = {u1, u2}
    Paths = {p1}
    Roots = {r1}
    Items = {i1, i2}
    NoItem = NoItem
    NoDownload = NoDownload
    ListRoot = ListRoot
    Blocks = 2
    LastPriority = 1
    MaxSegments = 2
    Placements <- OnePlace
    ListUsers = {}
    KeepFinishedFiles = FALSE
    MultiChunk = TRUE
    OverlapChunks = TRUE
    BadData = FALSE
INVARIANT NoDanglingEntries
CHECK_DEADLOCK FALSE
