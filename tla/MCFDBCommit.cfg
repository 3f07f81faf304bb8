SPECIFICATION Spec
CONSTANTS
    h = h
    NoHandle = NoHandle
    Handles <- MCHandles
    Writers <- MCHandles
    Calls <- MCCalls
    Window = 2
    Wrap = 16
    MaxBatch = 2
    MaxRows = 3
    MaxRowid = 3
INVARIANTS
    CommitFindsItem
