\* Two packets in one signal, and interference that begins during its header.
SPECIFICATION Spec
CONSTANTS
  Powers = {1, 3, 5}
  EdThreshold = 4
  CcaThreshold = 2
  MaxDuration = 4
  PreambleTime = 1
  MaxSignals = 3
  MaxSends = 2
  None = None
INVARIANTS PairJudgedByAir
