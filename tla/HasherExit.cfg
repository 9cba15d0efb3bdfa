\* The program ends while the user has paused the hashing.
CONSTANTS
    Files = {f1}
    FastHash = TRUE
    Buffers = 1
    Wrap = 3
    MaxSignals = 3
SPECIFICATION Spec
PROPERTIES ExitWhenPaused
CHECK_DEADLOCK FALSE
