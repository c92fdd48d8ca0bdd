CONSTANTS
  Buds = {l, r}
  Phones = {p, q}
  None = None
  Happenings = {"calls", "roles", "tws", "links", "silence", "deaf"}
  MaxEvents = 3
  MaxQueue = 3
SPECIFICATION Spec
SYMMETRY Swapped
INVARIANTS
  TypeOK
  FrontNotDetected
  
  SameCall
  SameMusic
  NotMuted
CHECK_DEADLOCK FALSE
