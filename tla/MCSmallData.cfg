\* A packet too small for an RTS, and another one to the next station.
SPECIFICATION Spec
CONSTANTS
  n0 = n0  n1 = n1  n2 = n2  bc = bc  p1 = p1  p2 = p2  p3 = p3  p4 = p4
  Addrs <- MCAddrs
  Group = bc
  NoAddr = NoAddr
  Ports = {p1, p2, p3, p4}
  NoPacket = NoPacket
  NoFrame = NoFrame
  NoSignal = NoSignal
  Unknown = Unknown
  Sifs = 2  Difs = 3  MaxProp = 1
  RtsTime = 1  CtsTime = 1  AckTime = 1  DataTime = 1
  CwMin = 1  CwMax = 3  ResendRtsMax = 1  ResendDataMax = 1
  QueueMax = 2
  Power <- MCPower
  Threshold <- MCThreshold
  Offers <- MCOffersSmall
  Early <- MCOffersSmall
  MaxLosses = 0
INVARIANTS AckedWasDelivered
