SPECIFICATION LinkSpec
CONSTANTS
    MaxByte = 7
    Start = 7
    Alloc0 = 8
    Payload <- Byte
    Beyond <- MCBeyond
    MaxRead = 1
    MaxState = 4
    MaxObjs = 4
    MaxAlloc = 16
    MaxRefused = 0
    Stop = 6
    DevObjects <- MCDevObjects
    Csum = 5
    ReplyBody <- MCReplyBody
    EventBodies <- MCEventBodies
    Leftovers <- CleanLine
    LinkFaults = {}
    MaxRounds = 2
    MaxCalls = 0
    MaxEvents = 0
    MaxLosses = 1
INVARIANTS
    CountsDiscovered
CHECK_DEADLOCK FALSE
