\* Three users and two connections for one slot, with every way to get one.
SPECIFICATION Spec
CONSTANTS
    Users = {u1, u2, u3}
    Conns = {c1, c2}
    NoConn = NoConn
    Slots = 1
    ExtraSlots = 1
    PartialSlots = 1
    AutoSlots = 0
    MinUploadSpeed = FALSE
    Favourites = {}
    Reservable = {u1}
    MiniSlotUsers = {u3}
    Operators = {}
    Exclusive = TRUE
INVARIANTS
    TypeOK
    CountersExact
    UploadIsListed
    PromisesFit
    ServedNotWaiting
PROPERTY
    WaitingEnds
CHECK_DEADLOCK FALSE
