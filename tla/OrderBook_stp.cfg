SPECIFICATION FairSpec
CONSTANTS
    Slots = {s1, s2}
    NULL_IDX = NULL_IDX
    NoOrder = NoOrder
    Prices = {1, 2}
    OrderIds = {a, b, c}
    QtyMod = 3
    kMaxLevels = 2
    Inputs <- TwoAccountInputs
    UniqueIds = TRUE
INVARIANTS NotCrossed FillOrKill IndexComplete
PROPERTY PriceTimePriority ImplementsPriceTime OperationsReturn
