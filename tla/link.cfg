SPECIFICATION LinkFairSpec
CONSTANTS
    MaxByte = 7
    Start = 7
    Alloc0 = 8
    Payload <- Byte
    Beyond <- MCBeyond
    MaxRead = 1
    MaxState = 4
    MaxObjs = 3
    MaxAlloc = 16
    MaxRefused = 16
    Stop = 6
    DevObjects <- MCDevObjects
    Csum = 5
    ReplyBody <- MCReplyBody
    EventBodies <- MCEventBodies
    Leftovers <- MCLeftovers
    LinkFaults = {"ctl", "loss"}
    MaxRounds = 1
    MaxCalls = 1
    MaxEvents = 1
    MaxLosses = 1
INVARIANTS
    LinkTypeOK
    DiscoveryExact
    AnsweredAfterSent
PROPERTIES
    DiscoveryCompletes
CHECK_DEADLOCK FALSE
