CONSTANTS
    c1 = c1
    c2 = c2
    Clients = {c1, c2}
    Nobody = Nobody
    MaxStarts = 2
    MaxID = 2
    MaxPid = 2
    Ops = {"addTask", "currentTask", "start", "stop"}
    Faults = {}
SPECIFICATION FairSpec
PROPERTIES NoStrandedTask StopEnds EveryCallReturns
ACTION_CONSTRAINT LastStartAlone
CHECK_DEADLOCK FALSE
