SPECIFICATION Spec
CONSTANTS
    f1 = f1
    f2 = f2
    t1 = t1
    t2 = t2
    w1 = w1
    NoFile = NoFile
    Files <- MCFiles
    Threads <- MCOneThread
    Writers <- MCWriters
    Periods <- MCPeriods
    MaxData = 2
SYMMETRY FileSymm
INVARIANTS
    WalkIsSafe
    RefCntExact
    NoMissedTick
CHECK_DEADLOCK FALSE
