\* Three signals of other stations and two of the station's own.
SPECIFICATION Spec
CONSTANTS
  Powers = {1, 3, 5}
  EdThreshold = 4
  CcaThreshold = 2
  MaxDuration = 4
  PreambleTime = 1
  MaxSignals = 3
  MaxSends = 2
  None = None
INVARIANTS TypeOK ReceptionAgrees ListIsAir JudgedByAir IdleIsQuiet MacAgrees
PROPERTIES BusyWhileEnergy
