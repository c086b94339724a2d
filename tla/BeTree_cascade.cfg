SPECIFICATION FairSpec
CONSTANTS
  Keys = {1, 2, 3, 4}
  Modulus = 4
  Opaque = Opaque
  NoValue = NoValue
  Fanout = 2
  BufferCapacity = 1
  LeafCapacity = 1
  Puts = {1}
  Deltas = {}
  MaxOps = 6
  UseDrain = TRUE
  UseCommit = FALSE
INVARIANTS OrderedThroughout FitsAtRest
PROPERTIES DrainEmpties CallsReturn ImplementsMap
