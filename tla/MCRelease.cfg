\* A pair that is superposed while one more packet is queued, in a simulator
\* that keeps running.
SPECIFICATION FairSpec
CONSTANTS
  self = self  a = a  b = b  bc = bc  x = x  port = port
  Addrs <- MCAddrs
  Group = bc
  NoAddr = NoAddr
  Ports = {port}
  NoPacket = NoPacket
  NoFrame = NoFrame
  Sifs = 2  Difs = 3  MaxProp = 1
  RtsTime = 2  CtsTime = 2  AckTime = 2  DataTime = 2
  CwMin = 1  CwMax = 3  ResendRtsMax = 1  ResendDataMax = 1
  QueueMax = 2
  Self = self
  Workload <- LargeWorkload
  MaxArrivals = 4
  Foreign = {}
  MaxForeign = 0
  AggregateNums = {0, 1}
INVARIANTS ExchangeMatchesPackets
PROPERTIES SuperposedOnce HeldIsReleased
