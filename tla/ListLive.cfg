CONSTANTS
    Names = {a}
    Handlers = {h1, h2}
    Boot = Boot
    Queues = {q1, q2}
    None = None
    Ops = {"create", "delete", "rename", "use"}
    Deaths = {"crash", "signal"}
    MaxDeaths = 2
    Faults = {"hang"}
SPECIFICATION FairSpec
INVARIANTS NothingRunsOn
PROPERTIES CallsReturn ComesUp ShutdownEnds
CHECK_DEADLOCK FALSE
