CONSTANTS
    c1 = c1
    c2 = c2
    Clients = {c1}
    Nobody = Nobody
    MaxStarts = 1
    MaxID = 2
    MaxPid = 1
    Ops = {"addTask", "start", "removeTask"}
    Faults = {}
SPECIFICATION FairSpec
PROPERTIES EveryCallReturns
CHECK_DEADLOCK FALSE
