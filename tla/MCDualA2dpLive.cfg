CONSTANTS
  Buds = {l, r}
  Phones = {p, q}
  None = None
  Happenings = {"roles", "tws", "links"}
  MaxEvents = 4
  MaxQueue = 2
SPECIFICATION FairSpec
PROPERTIES
  HeardInTheEnd
CHECK_DEADLOCK FALSE
