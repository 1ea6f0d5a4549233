SPECIFICATION Spec
CONSTANTS
    Base = 4
    Fields <- MCFields
    MaxFields = 3
    Values <- MCValues
    MaxArgs = 3
    Headers = {0, 3}
    Room = 6
    Swap = FALSE
INVARIANTS
    PackAlwaysExact
CHECK_DEADLOCK FALSE
