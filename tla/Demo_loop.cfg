SPECIFICATION DemoSpec
CONSTANTS
    Symbols = {0}
    kMaxSymbols = 1
    Messages <- SimMessages
    QueueLimit = 2
    MaxMessages = 3
    MaxFills = 2
    MaxStarts = 1
PROPERTY LoopEndsWithSim
CHECK_DEADLOCK FALSE
