\* Two ARP entries shared with one other queue, and a MAC that changes.
CONSTANTS
  Queues = {0, 1}
  Ips = {ip1, ip2}
  Macs = {m1, m2}
  NoMac = NoMac
  RxCap = 4
  TxCap = 1
  TxBurst = 1
  RxRingSize = 2
  TxRingSize = 1
  PoolSize = 6
  MaxVersion = 3
  MaxFrames <- NoFrames
  MaxFabricated = 0
  MaxSends = 0
  MaxExpiries = 0
SPECIFICATION Spec
INVARIANT NeighborsFresh
CHECK_DEADLOCK FALSE
