SPECIFICATION Spec
CONSTANTS
  Names = {a2dp, esco}
  Table <- MCTable
  MinFreq = 2
  MaxFreq = 3
  Periods = 3
  MaxPosted = 2
  NoName = NoName
INVARIANTS
  TypeOK
  SpeedHonoured
PROPERTIES
  PinNotStolen
  CalibrationEnds
