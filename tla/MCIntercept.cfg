CONSTANTS
    t1 = t1
    t2 = t2
    None = None
    Threads <- MCThreads
    ProcOf <- OneProcess
    CallsOf <- MCCallsOf
    Sources <- MCSources
    SrcDirs <- MCSrcDirs
SPECIFICATION Spec
INVARIANTS
    StreamsOpenedOnce
    
    CacheIsCurrent
PROPERTIES
    CallsReturn
CHECK_DEADLOCK FALSE
