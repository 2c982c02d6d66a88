SPECIFICATION Spec
CONSTANTS
    Capacity = 2
    Producers = {p1, p2}
    Consumers = {c1, c2}
    Values = {v1, v2}
    NoItem = NoItem
    MaxPushes = 3
SYMMETRY Symmetry
INVARIANTS ExclusiveCells PopsInClaimOrder
PROPERTY SequenceAdvances ImplementsQueue
