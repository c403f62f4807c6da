SPECIFICATION Spec
CONSTANTS
    t1 = t1
    t2 = t2
    r1 = r1
    r2 = r2
    x1 = x1
    x2 = x2
    NoThread = NoThread
    NoReq = NoReq
    Threads <- MCThreads
    RxReqs <- MCRxReqs
    TxReqs <- MCOneTx
    SMP = FALSE
    MaxLen = 2
    MaxBytes = 2
PROPERTY FsyncWaits
CHECK_DEADLOCK FALSE
