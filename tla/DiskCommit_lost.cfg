CONSTANTS
  NoSB = NoSB
  Size = 5
  MaxStamp = 3
  MaxSeq = 1
  MaxGeneration = 2
  MaxAttempts = 2
  MaxAppend = 1
  WarmReopen = TRUE
  ReopenLost = TRUE
SPECIFICATION Spec
INVARIANTS
  AckedSurvives
