SPECIFICATION FairSpec
CONSTANTS
    Keys = {1, 2, 3}
    Modulus = 2
    Opaque = Opaque
    NoValue = NoValue
    Unknown = Unknown
    Fanout = 2
    BufferCapacity = 1
    LeafCapacity = 1
    Stored <- Deep
    Puts = {1}
    Deltas = {}
    MaxOps = 6
    MaxCommits = 2
    MaxFaults = 1
    UseDrain = TRUE
    UseReads = FALSE
INVARIANTS NoOrphans RecordsValid InterningExact
PROPERTIES ImplementsDurableMap CallsReturn
