SPECIFICATION FairSpec
CONSTANTS
    Base = 4
    Fields <- MCFields
    MaxFields = 3
    Values <- MCValues
    MaxArgs = 3
    Headers = {0, 3}
    Room = 6
    Swap = FALSE
INVARIANTS
    TypeOK
    CacheFits
    ParsedAsWritten
    PackExact
    PackFits
    CrashBlamed
    RoundTrip
    UnpackWithin
PROPERTIES
    PackEnds
CHECK_DEADLOCK FALSE
