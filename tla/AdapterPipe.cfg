SPECIFICATION PipeFairSpec
CONSTANTS
    ChannelBound = 2
    PipeBound = 2
    MaxLines = 6
PROPERTIES
    ImplementsLines
    NothingLeftBehind
CHECK_DEADLOCK FALSE
