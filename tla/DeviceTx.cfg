\* Two queues on one small mempool: partial flushes, lost answers, a full tx_batch.
CONSTANTS
  Queues = {0, 1}
  Ips = {ip1}
  Macs = {m1}
  NoMac = NoMac
  RxCap = 2
  TxCap = 2
  TxBurst = 1
  RxRingSize = 2
  TxRingSize = 1
  PoolSize = 5
  MaxVersion = 1
  MaxFrames <- OneFrameEach
  MaxFabricated = 1
  MaxSends = 4
  MaxExpiries = 0
SPECIFICATION Spec
INVARIANTS MbufsConserved TxInOrder ReceivedExactlyOnce TransmitTokenSafe
\* a thread whose consume() panicked stops
CHECK_DEADLOCK FALSE
