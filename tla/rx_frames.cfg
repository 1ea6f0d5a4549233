SPECIFICATION Spec
CONSTANTS
    MaxByte = 7
    Start = 7
    Alloc0 = 8
    Payload <- MCPayload
    Beyond <- MCBeyond
    MaxRead = 2
    MaxState = 2
    MaxObjs = 1
    MaxAlloc = 16
    MaxRefused = 16
INVARIANTS
    TypeOK
    FrameShape
    BoundaryAtScript
    OverrunBounded
PROPERTY
    ObjectsFrozen
CHECK_DEADLOCK FALSE
