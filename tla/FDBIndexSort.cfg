SPECIFICATION SortSpec
CONSTANTS
    Keys = {1, 2, 3, 4}
    MaxLen = 6
INVARIANTS
    SortTypeOK
    BoundsMeet
    KeepsRows
    InOrder
PROPERTY SortEnds
CHECK_DEADLOCK FALSE
