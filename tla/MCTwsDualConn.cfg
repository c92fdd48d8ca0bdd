CONSTANTS
  p1 = p1
  p2 = p2
  Phones <- MCPhones
  NoPhone = NoPhone
  DualConfig = "SET_TWO"
  Happenings = {}
  MaxQueue = 2
  MaxWindows = 2
SYMMETRY PhoneSymmetry
SPECIFICATION Spec
INVARIANTS
  SlaveQuiet
  NeverStalls
  ListedOnce
  ConnectedNotListed
  SecondCanReturn
