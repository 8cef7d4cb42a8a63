\* An ARP packet taken into a slot that described data before.
SPECIFICATION Spec
CONSTANTS
  a = a  b = b  bc = bc  udp = udp  arp = arp
  Addrs = {a, b}
  Group = bc
  Ports = {udp}
  NoUdp = arp
  Workload <- MixedWorkload
  None = None
  MaxSize = 3
  RestrictionNum = 2
  SizeLimit = 3
  Unassigned = {1}
  MaxArrivals = 4
INVARIANTS AggregatesOwnFlow
