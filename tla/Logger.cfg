SPECIFICATION LogSpec
CONSTANTS
    Capacity = 4
    Values = {v1, v2}
    NoItem = NoItem
INVARIANTS NoDataRace 
PROPERTY ImplementsQueue RecordsComeOut StopEnds
