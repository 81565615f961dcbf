CONSTANTS
    Clients = {c1}
    Names = {a, b}
    None = None
    Ops = {"addTask", "removeTask", "clearPending", "listPending", "other", "silent", "createQueue", "deleteQueue", "renameQueue", "listQueue", "getQueue"}
    MaxCalls = 3
    MaxID = 2
    MaxCrashes = 1
SPECIFICATION Spec
INVARIANTS TypeOK GivenIDs ReadsOwnWrites
PROPERTIES AtMostOnce
SYMMETRY Symmetry
CHECK_DEADLOCK FALSE
