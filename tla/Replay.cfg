SPECIFICATION ReplaySpec
CONSTANTS
    Symbols = {0}
    kMaxSymbols = 1
    Messages <- TraceMessages
    QueueLimit = 1
    MaxMessages = 6
    MaxFills = 1
    MaxStarts = 1
    MaxEvents = 3
    MaxReplays = 2
    kSpins = 2
    warmup_events = 1
 
PROPERTY ReplayEnds
CHECK_DEADLOCK FALSE
