\* One file of two blocks and two sources, with the default settings: segmented
\* downloading with overlaps, finished files leave the queue.
SPECIFICATION Spec
CONSTANTS
    p1 = p1
    p2 = p2
    r1 = r1
    r2 = r2
    Users = {u1, u2}
    Paths = {p1}
    Roots = {r1}
    Items = {i1, i2}
    NoItem = NoItem
    NoDownload = NoDownload
    ListRoot = ListRoot
    Blocks = 2
    LastPriority = 1
    MaxSegments = 2
    Placements <- OnePlace
    ListUsers = {}
    KeepFinishedFiles = FALSE
    MultiChunk = TRUE
    OverlapChunks = TRUE
    BadData = FALSE
SYMMETRY Symmetric
INVARIANTS
    TypeOK
    RunningConsistent
    OneItemPerFile
    DoneIsReal
    DownloadsSound
    ChunksDisjoint
PROPERTIES
    MovedFileIsWhole
    CacheKept
    QueueSpec
CHECK_DEADLOCK FALSE
