SPECIFICATION DriversSpec
CONSTANTS
    t1 = t1
    t2 = t2
    w1 = w1
    w2 = w2
    f1 = f1
    f2 = f2
    Threads <- MCThreads
    Core = Core
    Values <- MCValues
    MaxTimeout = 2
    NoValue = NoValue
    NoThread = NoThread
    Writers <- MCWriters
    Periods <- MCPeriods
    Procs <- MCThreads
    SpiCallers <- MCCaller
    MaxLen = 5
    OpWords = 2
    FuseThreads <- MCThreads
    Files <- MCFiles
    Size = 2
    Bits <- MCBits
    Ranges <- MCRanges
    Sharing <- MCSharing
    MaxStuck = 1
    Devs <- MCDevs
    ifindex <- MCIfindex
    MaxPorts = 2
    MaxHops = 2
    MaxLost = 2
    N = 2
    MaxMaps = 3
    Outputs = 3
    Tables <- MCTables
    MaxCount = 6
    PortThreads <- MCThreads
    Unloader = Core
INVARIANTS
    OnIsTimed
    TimerSafe
    
    
    FuseSafe
    
    
    TablesTranslate
    ProbeSafe
    PortSafe
    
PROPERTIES
    ServiceSpec
    PulseEnds
    CallsReturn
CHECK_DEADLOCK FALSE
