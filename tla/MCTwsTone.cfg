CONSTANTS
  Buds = {l, r}
  Tones = {t1, t2}
  NoRequest = NoRequest
  IdSpan = 4
  Happenings = {"missing", "unsent", "stop", "preempt", "lists"}
SPECIFICATION Spec
SYMMETRY Swapped
INVARIANTS
  TypeOK
  StopIsLast
  HeadSounds
  AddingEnds
PROPERTIES
  LateEventsHarmless
CHECK_DEADLOCK FALSE
