CONSTANTS
    t1 = t1
    t2 = t2
    c1 = c1
    None = None
    Tasks <- MCTasks
    Silent <- MCSilent
    Clients <- MCClients
    RowChoices <- MCRows
    OutputLimit = 2
    PipeCapacity = 2
    MaxOps = 6
    MaxJoins = 2
    MaxDebug = 1
SPECIFICATION Spec
INVARIANTS
    
    ClientsAgree
PROPERTIES
    ClientsComeAndGo
CHECK_DEADLOCK FALSE
