SPECIFICATION StoreSpec
CONSTANTS
    kMaxOrders = 3
    NULL_IDX = NULL_IDX
    Keys = {1, 2, 3}
    Values = {0, 1, 2}
    kTableSize = 6
    Hashes <- AllHashes
    kEmpty = kEmpty
INVARIANTS FreeListExact LookupMatches Compact EntriesLive
PROPERTY RemoveTerminates
