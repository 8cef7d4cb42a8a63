\* Three stations in a line.  The first sends to everyone, to the second and to
\* the third; the second may send to it at any time; one frame may be lost.
SPECIFICATION Spec
CONSTANTS
  n0 = n0  n1 = n1  n2 = n2  bc = bc  p1 = p1  p2 = p2  p3 = p3  p4 = p4
  Addrs <- MCAddrs
  Group = bc
  NoAddr = NoAddr
  Ports = {p1, p2, p3, p4}
  NoPacket = NoPacket
  NoFrame = NoFrame
  NoSignal = NoSignal
  Unknown = Unknown
  Sifs = 2  Difs = 3  MaxProp = 1
  RtsTime = 1  CtsTime = 1  AckTime = 1  DataTime = 1
  CwMin = 1  CwMax = 3  ResendRtsMax = 1  ResendDataMax = 1
  QueueMax = 2
  Power <- MCPower
  Threshold <- MCThreshold
  Offers <- MCOffersBack
  Early <- MCOffersPair
  MaxLosses = 1
INVARIANTS TypeOK NoOrphanPacket LearnedPower NothingAstray
PROPERTIES NoLaunchOutOfTurn KeepsPromises BothAgreed KeepsDestination NoLaunchInExchange AnswersReach
