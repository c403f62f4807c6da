SPECIFICATION GadgetSpec
CONSTANTS
    Configs <- MCConfigs
    Funcs <- MCFuncs
    Plan <- MCPlan
    FunctionsOf <- MCFunctionsOf
    Value <- MCValue
    Power <- MCPower
    Interfaces <- MCInterfaces
    Endpoints <- MCEndpoints
    Strings <- MCStrings
    Descriptors <- MCDescriptors
    DelayFuncs <- MCDelayFuncs
    HoldFuncs <- MCHoldFuncs
    MaxInterfaces = 3
    MaxStringId = 4
    NumEndpoints = 2
    MaxOwed = 2
    Smp = FALSE
    MaxChars = 2
    ByteValues = 8
    BufSize = 30
    PtrSize = 4
    MaxEpNum = 15
CHECK_DEADLOCK FALSE
INVARIANTS
    TypeOK
    RequestsReachOwner
    DelayedStatusMatches
    PullupHeld
    PowerFollows
    BoundAreListed
    EnumerationComplete
    
    
    EndpointsChosen
PROPERTY
    StatusAnswered
