\* A file of four blocks, the last one short, and up to three downloads of it.
SPECIFICATION Spec
CONSTANTS
    Blocks = 4
    BlockSize = 2
    Size = 7
    MaxParts = 255
    MaxBusy = 2
    MaxLate = 1
INVARIANTS
    TypeOK
    AddSegmentAgrees
    NextSegmentAgrees
    NextSegmentIsFree
    NothingMadeUp
    NeededIsSource
    PartialSegmentIsTheirs
CHECK_DEADLOCK FALSE
