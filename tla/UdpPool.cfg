\* The raw socket is dropped with received frames in rx_batch.
SPECIFICATION Spec
CONSTANTS
    MaxSends = 1
    MaxStrays = 1
    PoolSize = 2
    BatchSize = 1
    RingSize = 1
    RxPackets = 1
    TxPackets = 1
    Truncated = {}
    Oversized = {}
    Unreachable = {}
INVARIANT DroppedMbufsHavePool
CHECK_DEADLOCK FALSE
