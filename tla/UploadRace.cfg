\* The same with two threads that change a counter at once.
SPECIFICATION Spec
CONSTANTS
    Users = {u1, u2, u3}
    Conns = {c1, c2}
    NoConn = NoConn
    Slots = 1
    ExtraSlots = 1
    PartialSlots = 1
    AutoSlots = 0
    MinUploadSpeed = FALSE
    Favourites = {}
    Reservable = {u1}
    MiniSlotUsers = {u3}
    Operators = {}
    Exclusive = FALSE
INVARIANT CountersExact
CHECK_DEADLOCK FALSE
