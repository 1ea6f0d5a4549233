SPECIFICATION ServerSpec
CONSTANTS
    Null = Null
    Names <- MCNames
    Devices <- MCDevices
    MaxInsts = 3
    MaxObjs = 3
    Configs <- MCConfigs
    Present <- MCPresent
    Counts <- MCCounts
    Default = 90
    MaxOps = 5
INVARIANTS
    ServerTypeOK
    HelpComplete
    TablesExact
    CallsReachNamed

    
CHECK_DEADLOCK FALSE
