\* The same: a promise and a reservation for one slot.
SPECIFICATION Spec
CONSTANTS
    Users = {u1, u2, u3}
    Conns = {c1, c2}
    NoConn = NoConn
    Slots = 1
    ExtraSlots = 1
    PartialSlots = 1
    AutoSlots = 0
    MinUploadSpeed = FALSE
    Favourites = {}
    Reservable = {u1}
    MiniSlotUsers = {u3}
    Operators = {}
    Exclusive = TRUE
PROPERTY KeptUntilHeAsks
CHECK_DEADLOCK FALSE
