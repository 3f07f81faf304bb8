SPECIFICATION FairSpec
CONSTANTS
    N = 2
    Pids = {1, 2, 3}
    Refusing = {2}
INVARIANTS
    Accounted
PROPERTIES
    Replaced
CHECK_DEADLOCK FALSE
