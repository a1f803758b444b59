CONSTANTS
  Ips = {ip1, ip2}
  Macs = {m1, m2}
  NoMac = NoMac
  Consumers = {q1, q2}
  MaxVersion = 3
SPECIFICATION FairSpec
INVARIANTS FastPathIsSafe
PROPERTIES VersionMovesOnSuccess ConsumersConverge
CHECK_DEADLOCK FALSE
