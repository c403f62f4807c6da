CONSTANTS
    t1 = t1
    t2 = t2
    NoThread = NoThread
    Threads <- MCThreads
    Size = 5
    Chunk = 2
    Base = 4
    Bytes = {"a", "b", "x"}
    Calls <- MCCalls
SYMMETRY Symm
SPECIFICATION Spec
INVARIANTS
    SuccessIsReal
    
    
CHECK_DEADLOCK FALSE
