\* A file that is changed once; two roots it may have, and the root of a part of it; room for a tree to be stored twice.
CONSTANTS
    None = None
    Files = {f1}
    Contents = {a, b}
    Others = {h}
    SmallRoots = {h}
    MaxStamp = 2
    MaxTrees = 3
SPECIFICATION Spec
INVARIANTS TypeOK AcceptedIsCurrent KnownIsStored
PROPERTIES StoreSpec
CHECK_DEADLOCK FALSE
