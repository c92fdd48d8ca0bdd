CONSTANTS
  Filter <- OneTick
  LowLimit = 2
  Happenings = {"key", "keep", "stuck"}
  MaxQueue = 2
SPECIFICATION FairSpec
INVARIANTS
  TypeOK
  ViewFollows
  RightPlace
  ChargesOnlyIdle
PROPERTIES
  InCaseCharges
  LowEnds
CHECK_DEADLOCK FALSE
