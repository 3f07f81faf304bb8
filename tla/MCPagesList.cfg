SPECIFICATION Spec
CONSTANTS
    a = a
    b = b
    Sources <- OneList
    Url <- OwnUrl
    Gestures <- ListOnly
    Checked = {}
    Kept = {a}
    Pages = 2
    MaxThread = 1
    MaxSubject = 1
    MaxWants = 2
    MaxRequests = 4
    MaxVersion = 2
CHECK_DEADLOCK FALSE
INVARIANTS
    ListIsPages
    FreshWhenResting
