SPECIFICATION FairSpec
CONSTANTS
    Symbols = {0, 1, 2}
    kMaxSymbols = 2
    Messages <- SomeMessages
    QueueLimit = 2
    MaxMessages = 3
    MaxFills = 2
    MaxStarts = 2
INVARIANTS AppliedInOrder StopDrains  
PROPERTY EngineProgresses
CHECK_DEADLOCK FALSE
