CONSTANTS
  Buds = {l, r}
  Tones = {t1, t2}
  NoRequest = NoRequest
  IdSpan = 4
  Happenings = {}
SPECIFICATION FairSpec
PROPERTIES
  TonesQueue
  EveryToneEnds
  BothHear
CHECK_DEADLOCK FALSE
