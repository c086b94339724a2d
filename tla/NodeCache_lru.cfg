SPECIFICATION Spec
CONSTANTS
    Sizes = {1, 2}
    Budget = 2
    CompactFloor = 2
    MaxNodes = 3
    MaxCalls = 5
INVARIANTS Accounting OvercommitJustified
PROPERTIES EvictsOldest QueueBounded EnforcementEnds
CHECK_DEADLOCK FALSE
