SPECIFICATION FairSpec
CONSTANTS
    writer = writer
    reader = reader
    NoHandle = NoHandle
    Handles <- MCHandles
    Writers <- MCWriters
    Calls <- SeekCalls
    Window = 2
    Wrap = 16
    MaxBatch = 2
    MaxRows = 4
    MaxRowid = 4
INVARIANTS
    SeekFindsRow
    RowCountNeverOverstates
