CONSTANTS
    c1 = c1
    c2 = c2
    Clients = {c1,c2}
    Nobody = Nobody
    MaxStarts = 1
    MaxID = 2
    MaxPid = 1
    Ops = {"addTask", "start", "stop"}
    Faults = {}
SPECIFICATION Spec
INVARIANTS StopSparesServer
CHECK_DEADLOCK FALSE
