CONSTANTS
    c1 = c1
    c2 = c2
    Clients = {c1}
    Nobody = Nobody
    MaxStarts = 2
    MaxID = 2
    MaxPid = 1
    Ops = {"addTask", "removeTask", "clearPending", "clearFinished", "query", "start", "stop"}
    Faults = {"crash", "prepare"}
SPECIFICATION Spec
ACTION_CONSTRAINT Serial
PROPERTIES Ledger
CHECK_DEADLOCK FALSE
