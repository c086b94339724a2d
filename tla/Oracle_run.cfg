SPECIFICATION Spec
CONSTANTS
    Ops = 4
    Children = {1, 2, 3}
    MaxDecisions = 3
    Seeds = {0, 1, 2, 3, 4, 5, 6, 7, 8, 9, 10, 11, 12, 13, 14, 15}
    Intervals = {1, 2, 3}
    Windows = {0, 1, 3}
    Samples = {{}, {7}, {1, 2}, {0, 8}, {4, 5, 10}, {0, 1, 2, 3, 4, 5, 6, 7, 8, 9, 10, 11}}
INVARIANTS RebuildExact ScriptReplays RecordsExact NeverCostlier
CHECK_DEADLOCK FALSE
