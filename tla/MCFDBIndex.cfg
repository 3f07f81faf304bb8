SPECIFICATION FairSpec
CONSTANTS
    Keys <- MCKeys
    Window = 5
    Wide = 8
    MaxLen = 11
INVARIANTS
    TypeOK
    ProbeInWindow
    GivesWantedInOrder
    EndIsEnd
    MissIsAbsent
PROPERTY SearchEnds
