SPECIFICATION Spec
CONSTANTS
    t1 = t1
    t2 = t2
    r1 = r1
    r2 = r2
    x1 = x1
    x2 = x2
    NoThread = NoThread
    NoReq = NoReq
    Threads <- MCThreads
    RxReqs <- MCRxReqs
    TxReqs <- MCTxReqs
    SMP = TRUE
    MaxLen = 2
    MaxBytes = 2
SYMMETRY Symm
INVARIANT ActiveIsQueued
CHECK_DEADLOCK FALSE
