\* A file of one block and a file list, two paths, three priorities, and blocks
\* that fail their check: the user queue stays an exact cache.
SPECIFICATION Spec
CONSTANTS
    p1 = p1
    p2 = p2
    r1 = r1
    r2 = r2
    Users = {u1, u2}
    Paths = {p1, p2}
    Roots = {r1}
    Items = {i1, i2}
    NoItem = NoItem
    NoDownload = NoDownload
    ListRoot = ListRoot
    Blocks = 1
    LastPriority = 2
    MaxSegments = 1
    Placements <- OnePlace
    ListUsers = {u1}
    KeepFinishedFiles = FALSE
    MultiChunk = TRUE
    OverlapChunks = TRUE
    BadData = TRUE
SYMMETRY ItemSymmetric
INVARIANTS
    CacheExact
CHECK_DEADLOCK FALSE
