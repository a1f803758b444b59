\* Buffers of different sizes, so that reads and sends are partial.
CONSTANTS
  RxCap = 4
  TxCap = 2
  BufSize = 3
  MaxBytes = 6
SPECIFICATION FairSpec
INVARIANTS EchoInOrder NoLostWakeup FlushMeansDelivered
PROPERTIES AllEchoed TaskEnds
\* the connection is over
CHECK_DEADLOCK FALSE
