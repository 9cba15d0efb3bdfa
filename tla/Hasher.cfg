\* Two files of two pieces, with pauses, a dialog and rebuilds.
CONSTANTS
    Files = {f1, f2}
    FastHash = TRUE
    Buffers = 2
    Wrap = 3
    MaxSignals = 4
SPECIFICATION Spec
INVARIANTS TypeOK NothingForgotten PausersHold
PROPERTIES FilesTaken PauseSettles ShutdownUnpaused
CHECK_DEADLOCK FALSE
