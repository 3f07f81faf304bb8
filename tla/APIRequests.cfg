SPECIFICATION FairSpec
CONSTANTS
    Comments = {c}
    Sources = {s}
    MaxRequests = 3
INVARIANTS
    DelegateAlive
PROPERTIES
    AnsweredOnce
    OverlayGoes
CHECK_DEADLOCK FALSE
