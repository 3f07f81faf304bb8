SPECIFICATION Spec
CONSTANTS
    Tasks = {img, doc, res}
    Forced = {doc}
    Resume = {res}
    Check = {img}
    Chunks = 2
    MaxVersion = 2
INVARIANTS
    SavedIsWhole
PROPERTIES
    CopyIsKept
CONSTRAINT Unspoilt
CHECK_DEADLOCK FALSE
