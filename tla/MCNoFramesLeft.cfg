\* The message of BackoffTimeout when it finds no packet.
SPECIFICATION Spec
CONSTANTS
  self = self  a = a  b = b  bc = bc  x = x  port = port
  Addrs <- MCAddrs
  Group = bc
  NoAddr = NoAddr
  Ports = {port}
  NoPacket = NoPacket
  NoFrame = NoFrame
  Sifs = 2  Difs = 3  MaxProp = 1
  RtsTime = 2  CtsTime = 2  AckTime = 2  DataTime = 2
  CwMin = 3  CwMax = 7  ResendRtsMax = 1  ResendDataMax = 1
  QueueMax = 2
  Self = self
  Workload <- LargeWorkload
  MaxArrivals = 3
  Foreign = {}
  MaxForeign = 0
  AggregateNums = {1}
INVARIANTS NoFramesLeft
