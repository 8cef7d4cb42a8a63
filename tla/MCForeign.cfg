\* Another station transmits in the middle of it all.
SPECIFICATION Spec
CONSTANTS
  self = self  a = a  b = b  bc = bc  x = x  port = port
  Addrs <- MCAddrs
  Group = bc
  NoAddr = NoAddr
  Ports = {port}
  NoPacket = NoPacket
  NoFrame = NoFrame
  Sifs = 2  Difs = 3  MaxProp = 1
  RtsTime = 2  CtsTime = 2  AckTime = 2  DataTime = 2
  CwMin = 1  CwMax = 3  ResendRtsMax = 1  ResendDataMax = 1
  QueueMax = 2
  Self = self
  Workload <- LargeWorkload
  MaxArrivals = 3
  Foreign <- ToAnyone
  MaxForeign = 1
  AggregateNums = {1}
INVARIANTS ExchangeMatchesPackets AssertionsHold
PROPERTIES NoLaunchBeforeReply
