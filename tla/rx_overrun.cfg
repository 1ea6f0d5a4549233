SPECIFICATION Spec
CONSTANTS
    MaxByte = 7
    Start = 7
    Alloc0 = 8
    Payload <- MCPayload
    Beyond <- MCBeyond
    MaxRead = 2
    MaxState = 2
    MaxObjs = 1
    MaxAlloc = 8
    MaxRefused = 0
INVARIANT
    UsedWithinAlloc
CHECK_DEADLOCK FALSE
