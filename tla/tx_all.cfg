SPECIFICATION FairSpec
CONSTANTS
    Sizes <- MCSizes
    MaxChunks = 3
    Faults <- AllFaults
INVARIANTS
    TypeOK
    Conserved
    ArmedWhilePending
    PosOwned
    InOrderUnlessTorn
PROPERTIES
    StreamSpec
    Drains
CHECK_DEADLOCK FALSE
