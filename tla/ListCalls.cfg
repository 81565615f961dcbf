CONSTANTS
    Names = {a, b}
    Handlers = {h1, h2}
    Boot = Boot
    Queues = {q1, q2}
    None = None
    Ops = {"create", "delete", "rename", "list", "use"}
    Deaths = {"crash"}
    MaxDeaths = 1
    Faults = {"statement", "bind"}
SYMMETRY Symmetry
SPECIFICATION Spec
INVARIANTS TypeOK OpenedIsWhole NoDanglingQueue ListIsOfFiles
