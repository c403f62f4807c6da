SPECIFICATION FairSpec
CONSTANTS
    f1 = f1
    f2 = f2
    t1 = t1
    t2 = t2
    w1 = w1
    NoFile = NoFile
    Files <- MCOneFile
    Threads <- MCThreads
    Writers <- MCWriters
    Periods <- MCPeriods
    MaxData = 1
INVARIANTS
    NoLostWakeup
PROPERTY
    TickDelivered
CHECK_DEADLOCK FALSE
