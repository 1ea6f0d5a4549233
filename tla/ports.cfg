SPECIFICATION FairSpec
CONSTANTS
    p1 = p1
    p2 = p2
    Ports = {p1, p2}
    Settings <- MCSettings
    Speeds <- MCSpeeds
    MaxInput = 2
    MaxHups = 1
    MaxQueued = 2
    Garbage = Garbage
INVARIANTS
    TypeOK
    OwnColumns
    HandlerSet
PROPERTIES
    RequestLeaves
CHECK_DEADLOCK FALSE
