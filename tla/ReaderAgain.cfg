CONSTANTS
    Tasks = 2
    MaxChunks = 1
    MaxQueue = 2
    None = None
SPECIFICATION FairSpec
CHECK_DEADLOCK FALSE
PROPERTIES ReaderReturns
