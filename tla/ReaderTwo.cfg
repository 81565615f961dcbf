CONSTANTS
    Tasks = 2
    MaxChunks = 2
    MaxQueue = 2
    None = None
    MaxLength = 5
    MaxStops = 1
    Faults = {"admin", "pipe", "console", "create", "active"}
SPECIFICATION MCSpec
CHECK_DEADLOCK FALSE
INVARIANTS TypeOK OutputInOrder OneLateUse WinTypeOK WinOutputInOrder WholeOutput CodeIsOwn ArgsSurvive ProgramGetsArgs WordsOfLine
PROPERTIES JoinReturns ReaderEnds DestructorReturns EveryTaskEnds WinDestructorReturns
