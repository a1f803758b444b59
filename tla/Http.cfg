SPECIFICATION Spec
CONSTANTS
    Shapes <- MCShapes
    Modes <- MCModes
    MaxRequests = 2
    InitialBufSize = 4
    MaxBufSize = 8
INVARIANTS RequestsExact NothingLost BadRequestJustified
PROPERTY EveryRequestAnswered
CHECK_DEADLOCK FALSE
