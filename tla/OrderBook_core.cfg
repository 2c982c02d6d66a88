SPECIFICATION Spec
CONSTANTS
    Slots = {s1, s2, s3}
    NULL_IDX = NULL_IDX
    NoOrder = NoOrder
    Prices = {1, 2, 3}
    OrderIds = {a, b, c}
    QtyMod = 3
    kMaxLevels = 2
    Inputs <- UntrackedInputs
    UniqueIds = FALSE
SYMMETRY Symmetry
INVARIANTS ListsMatchQueues LevelQuantities LevelsSorted SlotsPartitioned IndexSound Conservation
