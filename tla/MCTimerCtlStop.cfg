SPECIFICATION TimerSpec
CONSTANTS
    w1 = w1
    w2 = w2
    Writers <- MCWriters
    Periods <- MCPeriods
INVARIANTS
    StopIsFinal
CHECK_DEADLOCK FALSE
