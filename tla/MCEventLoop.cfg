CONSTANTS
    f1 = f1
    Null = Null
    User = User
    Stack = Stack
    Fds <- MCFds
    MaxPromises = 4
    MaxParams = 2
    MaxOps = 7
SPECIFICATION LoopFairSpec
INVARIANTS
    CountsAreRight
    WatchesAreRight
    NothingIsForgotten
PROPERTIES
    LoopReturns
CHECK_DEADLOCK FALSE
