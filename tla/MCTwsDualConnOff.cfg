CONSTANTS
  p1 = p1
  p2 = p2
  Phones <- OnePhone
  NoPhone = NoPhone
  DualConfig = "CLOSE"
  Happenings = {"modes"}
  MaxQueue = 2
  MaxWindows = 2
SPECIFICATION FairSpec
PROPERTIES
  GivesUp
CHECK_DEADLOCK FALSE
