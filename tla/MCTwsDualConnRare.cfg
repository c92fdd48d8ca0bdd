CONSTANTS
  p1 = p1
  p2 = p2
  Phones <- OnePhone
  NoPhone = NoPhone
  DualConfig = "SET_ONE"
  Happenings = {"unpair", "exists", "test", "inquiry", "poweroff"}
  MaxQueue = 2
  MaxWindows = 2
SPECIFICATION Spec
INVARIANTS
  TypeOK
  NeverDeaf
  NoForgottenTimer
CHECK_DEADLOCK FALSE
