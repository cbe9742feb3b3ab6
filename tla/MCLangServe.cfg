CONSTANTS
    t1 = t1
    t2 = t2
    None = None
    Tasks <- MCTasks
    Pieces = {"error", "junk", "alias", "note"}
    NotePieces = {"note"}
    NameOf <- MCNameOf
    RealPath <- MCRealPath
    MaxMessages = 5
    MaxChanges = 1
    MaxConnections = 2
SPECIFICATION Spec
INVARIANTS
    DiagnosticsAreRight
    EditorIsCurrent
    NothingIsLeftBehind
PROPERTIES
    ChangesArePublished
CHECK_DEADLOCK FALSE
