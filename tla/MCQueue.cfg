\* Data and ARP packets for two stations, and broadcasts.
SPECIFICATION Spec
CONSTANTS
  a = a  b = b  bc = bc  udp = udp  arp = arp
  Addrs = {a, b}
  Group = bc
  Ports = {udp}
  NoUdp = arp
  Workload <- MixedWorkload
  None = None
  MaxSize = 3
  RestrictionNum = 2
  SizeLimit = 3
  Unassigned = {0, 3}
  MaxArrivals = 4
INVARIANTS TypeOK CounterIsLength SizeIsSum PayloadFits RowForHeld
PROPERTIES KeepsFlows
