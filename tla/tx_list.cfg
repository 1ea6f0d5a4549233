SPECIFICATION Spec
CONSTANTS
    Null = Null
    Sizes <- MCSizes
    MaxChunks = 3
    Faults <- AllFaults
INVARIANTS
    ListIntact
    CursorOnRing
PROPERTIES
    TxSpec
CHECK_DEADLOCK FALSE
