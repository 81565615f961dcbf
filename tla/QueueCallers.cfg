CONSTANTS
    c1 = c1
    c2 = c2
    Clients = {c1, c2}
    Nobody = Nobody
    MaxStarts = 1
    MaxID = 2
    MaxPid = 1
    Ops = {"addTask", "removeTask", "clearPending", "start", "stop"}
    Faults = {"step"}
SPECIFICATION Spec
INVARIANTS TypeOK IDOrder DisjointTables NothingLost
PROPERTIES FreshIDs RemovedNeverRuns
SYMMETRY Symmetry
CHECK_DEADLOCK FALSE
