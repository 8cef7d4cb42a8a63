\* SendRts asserts that the CTS timer is not running.
SPECIFICATION Spec
CONSTANTS
  self = self  a = a  b = b  bc = bc  x = x  port = port
  Addrs <- MCAddrs
  Group = bc
  NoAddr = NoAddr
  Ports = {port}
  NoPacket = NoPacket
  NoFrame = NoFrame
  Sifs = 2  Difs = 3  MaxProp = 1
  RtsTime = 1  CtsTime = 1  AckTime = 2  DataTime = 2
  CwMin = 7  CwMax = 15  ResendRtsMax = 1  ResendDataMax = 1
  QueueMax = 2
  Self = self
  Workload <- LargeWorkload
  MaxArrivals = 3
  Foreign = {}
  MaxForeign = 0
  AggregateNums = {1}
INVARIANTS RtsTimerExpired
