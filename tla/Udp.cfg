SPECIFICATION Spec
CONSTANTS
    MaxSends = 4
    MaxStrays = 2
    PoolSize = 3
    BatchSize = 2
    RingSize = 1
    RxPackets = 2
    TxPackets = 2
    Truncated = {1}
    Oversized = {3}
    Unreachable = {4}
INVARIANTS RawMbufsConserved DatagramsExact
PROPERTIES FlushReturns WaitersServed
CHECK_DEADLOCK FALSE
