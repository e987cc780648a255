SPECIFICATION Spec
CONSTANTS
    Votes = {0}
    SegmentSize = 2
    MaxIndex = 3
    MaxTerm = 2
    MaxBatch = 2
    MaxCalls = 4
    MaxCrashes = 1
INVARIANT Reopens
CHECK_DEADLOCK FALSE
