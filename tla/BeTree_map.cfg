SPECIFICATION Spec
CONSTANTS
  Keys = {1, 2, 3}
  Modulus = 4
  Opaque = Opaque
  NoValue = NoValue
  Fanout = 2
  BufferCapacity = 1
  LeafCapacity = 1
  Puts = {Opaque}
  Deltas = {3}
  MaxOps = 5
  UseDrain = FALSE
  UseCommit = TRUE
INVARIANTS ScanAgrees DirtyConnected ForkFaithful
PROPERTY ImplementsMap
