CONSTANTS
    f1 = f1
    Null = Null
    User = User
    Stack = Stack
    Fds <- MCFds
    MaxPromises = 3
    MaxParams = 2
    MaxOps = 3
SPECIFICATION LoopSpec
INVARIANTS
    ErrorsArePassedOn
CHECK_DEADLOCK FALSE
