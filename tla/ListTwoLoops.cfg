CONSTANTS
    Names = {a, b}
    Handlers = {h1}
    Boot = Boot
    Queues = {q1, q2}
    None = None
    Ops = {"create", "rename", "use"}
    Deaths = {}
    MaxDeaths = 0
    Faults = {}
SPECIFICATION Spec
INVARIANTS OneLoopPerFile
