SPECIFICATION Spec
CONSTANTS
  Keys = {1, 2}
  Modulus = 3
  Opaque = Opaque
  NoValue = NoValue
  Puts = {1, 2}
  Deltas = {2}
  MaxEvents = 5
INVARIANTS
  ReplayFaithful
  OldReplayFaithful
CHECK_DEADLOCK FALSE
