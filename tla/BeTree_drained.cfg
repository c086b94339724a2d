SPECIFICATION Spec
CONSTANTS
  Keys = {1, 2, 3}
  Modulus = 4
  Opaque = Opaque
  NoValue = NoValue
  Fanout = 2
  BufferCapacity = 1
  LeafCapacity = 1
  Puts = {1}
  Deltas = {}
  MaxOps = 6
  UseDrain = TRUE
  UseCommit = TRUE
INVARIANT DirtyConnected
