\* Two queues sharing one ARP entry whose MAC changes and expires.
CONSTANTS
  Queues = {0, 1}
  Ips = {ip1}
  Macs = {m1, m2}
  NoMac = NoMac
  RxCap = 2
  TxCap = 1
  TxBurst = 1
  RxRingSize = 2
  TxRingSize = 1
  PoolSize = 4
  MaxVersion = 3
  MaxFrames <- TwoFrames
  MaxFabricated = 0
  MaxSends = 0
  MaxExpiries = 1
SPECIFICATION FairSpec
PROPERTIES ImplementsSharedArpCache FramesDelivered RetryCompletes RefreshHealsExpiry
