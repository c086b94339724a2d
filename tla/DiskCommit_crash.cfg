CONSTANTS
  NoSB = NoSB
  Size = 6
  MaxStamp = 3
  MaxSeq = 1
  MaxGeneration = 2
  MaxAttempts = 2
  MaxAppend = 2
  WarmReopen = FALSE
  ReopenLost = FALSE
SPECIFICATION Spec
INVARIANTS
  TypeOK
  AckedSurvives
  RecoveryExact
  RecoveryNotBehind
  WritesDisjoint
PROPERTIES
  NeverOverwritesRecoverable
  OpenKeepsRecovery
