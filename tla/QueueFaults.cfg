CONSTANTS
    c1 = c1
    c2 = c2
    Clients = {c1}
    Nobody = Nobody
    MaxStarts = 2
    MaxID = 2
    MaxPid = 2
    Ops = {"addTask", "start", "stop"}
    Faults = {"fork", "setup", "crash"}
SPECIFICATION Spec
INVARIANTS DoneIsTrue OneChild
PROPERTIES Fifo
CHECK_DEADLOCK FALSE
