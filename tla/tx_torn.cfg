SPECIFICATION Spec
CONSTANTS
    Sizes <- MCSizes
    MaxChunks = 2
    Faults <- ShortWrites
INVARIANT
    InOrder
CHECK_DEADLOCK FALSE
