SPECIFICATION SharesSpec
CONSTANTS
    Votes = {0, 1}
    SegmentSize = 2
    MaxIndex = 3
    MaxTerm = 2
    MaxBatch = 2
    MaxCalls = 4
    MaxCrashes = 2
INVARIANTS
    TypeOK
    NoStraySnapshots
PROPERTY Implements
CHECK_DEADLOCK FALSE
