SPECIFICATION Spec
CONSTANTS
    Base = 2
    TagLen = 1
    BufSize = 5
    MaxData = 3
    MaxFile = 10
INVARIANTS
    TypeOK
    BlobFound
    BufferFramed
