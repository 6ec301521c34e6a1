CONSTANTS
    Workers = {w1, w2}
    None = None
    Scenes <- MCScenes
    Shippers = {s1, s2}
    Capacities = {1, 2}
    MaxBatch = 2
    MaxFailures = 2
    MaxRecords = 2
    MaxEnables = 1
    Sources <- MCSources
    MaxLines = 3
    Room = 1
    Rolled = 1
    PageSize = 1
    Backfill = 1
    ScanLimit = 4
    Licenses = {k1, k2}
    Numbered = {k1}
    Plugins = {p1, p2}
    MaxCommands = 2
    MaxTouches = 1
    Callbacks = {c1, c2}
    Urgent = {c1}
    MaxListeners = 3
    Keyed <- MCKeyed
    MaxRetries = 1
    MaxPerformed = 2
    Events = {e1, e2}
    Connections = {m1}
    f1 = f1
    f2 = f2
    Fields = {f1, f2}
    Schemas <- MCSchemas
    MaxAttempts = 2
    MaxEditions = 2
    Parts <- MCParts
    MaxRows = 4
SPECIFICATION Spec
INVARIANTS TypeOK LogsAreFaithful GateIsRight SeedsAreWhole EveryListenerHears  DeletionsHold
PROPERTIES CallsAreExact
SYMMETRY Interchangeable
VIEW Varying
CHECK_DEADLOCK FALSE
