CONSTANTS
  Buds = {l, r}
  Tones = {t1, t2}
  NoRequest = NoRequest
  IdSpan = 4
  Happenings = {"lists"}
SPECIFICATION Spec
SYMMETRY Swapped
INVARIANTS
  ListsKeepTheirFiles
CHECK_DEADLOCK FALSE
