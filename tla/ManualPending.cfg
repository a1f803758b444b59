SPECIFICATION Spec
CONSTANTS
    NumRounds = 1
    Length = 11
    BufSize = 2
INVARIANT PendingBounded
CHECK_DEADLOCK FALSE
