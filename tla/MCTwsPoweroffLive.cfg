CONSTANTS
  Buds = {l, r}
  BusyLimit = 1
  DetachLimit = 1
  Happenings = {"lowpower", "charger", "roles", "audio"}
  MaxQueue = 0
SPECIFICATION FairSpec
PROPERTIES
  PowerOffEnds
CHECK_DEADLOCK FALSE
