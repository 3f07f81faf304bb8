SPECIFICATION FairSpec
CONSTANTS
    a = a
    b = b
    Sources <- MCSources
    Url <- OwnUrl
    Gestures <- ListAndCell
    Checked = {b}
    Kept = {}
    Pages = 2
    MaxThread = 1
    MaxSubject = 3
    MaxWants = 2
    MaxRequests = 3
    MaxVersion = 1
CHECK_DEADLOCK FALSE
INVARIANTS
    PagesTypeOK
    CacheBeforeAnswer
    OneAnswer
    CacheIsFirstPage
PROPERTIES
    LoadingEnds
    OpsEnd
