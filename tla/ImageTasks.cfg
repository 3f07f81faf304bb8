SPECIFICATION FairSpec
CONSTANTS
    Views = {c, p}
    Srcs = {a, b}
    Nothing = Nothing
    Cancellable = {a}
    Async = {p}
    Rebound = {c}
    Headers = {c}
    Paged = {p}
    MaxOps = 3
INVARIANTS
    OwnImage
    WaitersHaveDownload
PROPERTIES
    LoadingEnds
CHECK_DEADLOCK FALSE
