CONSTANTS
  Buds = {l, r}
  BusyLimit = 1
  DetachLimit = 1
  Happenings = {"roles", "audio", "key", "alone"}
  MaxQueue = 1
SPECIFICATION Spec
SYMMETRY Swapped
INVARIANTS
  TypeOK
  NeverAbandoned
  NeverParked
  SameTime
  AutoOffSpares
CHECK_DEADLOCK FALSE
