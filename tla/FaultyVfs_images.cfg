SPECIFICATION Spec
CONSTANTS
  Size = 4
  UnitBytes = 2
  MaxLog = 3
  MaxWindow = 2
  MaxWrite = 2
  Initials = {0, 3}
  ArmedKinds = {"Drop", "Tear"}
  MaxArmed = 1
  MaxSkip = 0
  NoSB = NoSB
INVARIANTS ReplayExact ReorderingIgnorable
PROPERTY ImplementsVfs
CHECK_DEADLOCK FALSE
