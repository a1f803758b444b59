\* A link that does not drain the TX ring.
CONSTANTS
  Queues = {0}
  Ips = {ip1}
  Macs = {m1}
  NoMac = NoMac
  RxCap = 2
  TxCap = 2
  TxBurst = 2
  RxRingSize = 2
  TxRingSize = 1
  PoolSize = 6
  MaxVersion = 0
  MaxFrames <- ThreeFramesEach
  MaxFabricated = 0
  MaxSends = 4
  MaxExpiries = 0
SPECIFICATION Spec
INVARIANT TokensHaveSpace
CHECK_DEADLOCK FALSE
