\* A user with two connections, one download slot and an extra one that somebody else may use.
SPECIFICATION Spec
CONSTANTS
    Users = {u1}
    Conns = {c1, c2}
    None = None
    DownloadSlots = 1
    ExtraSlots = 1
    AttemptsPerSecond = 1
    OtherDownloads = 1
    Priorities = {"normal", "highest"}
INVARIANTS
    TypeOK
    ActiveIsConnected
    AnnouncedIsPending
    TwoOnlyWhileFailing
CHECK_DEADLOCK FALSE
PROPERTIES
    AttemptsEnd
    OffersAreTried
    IdleIsNoticed
