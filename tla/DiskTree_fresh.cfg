SPECIFICATION Spec
CONSTANTS
    Keys = {1, 2}
    Modulus = 2
    Opaque = Opaque
    NoValue = NoValue
    Unknown = Unknown
    Fanout = 2
    BufferCapacity = 1
    LeafCapacity = 1
    Stored <- FreshOrDeep
    Puts = {1}
    Deltas = {1}
    MaxOps = 3
    MaxCommits = 2
    MaxFaults = 1
    UseDrain = TRUE
    UseReads = TRUE
INVARIANTS CleanIsRecord StackResident
PROPERTIES CommitKeepsLive ImplementsDurableMap
