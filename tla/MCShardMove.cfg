SPECIFICATION SharesSpec
CONSTANTS
    r1 = r1
    r2 = r2
    Router = {r1, r2}
    Key = {1, 2}
    ShardOf <- OneShard
    Group = {1, 2}
    Default <- InFirst
    Moves <- ToSecond
    ImportChunk = 1
    ReadModes = {"log", "index"}
    MaxWrites = 2
    MaxReads = 1
    MaxLate = 1
    MaxRuns = 2
SYMMETRY RouterSymmetry
INVARIANTS
    PurgedElsewhere
    OneWriter
    LogReadsFresh
CHECK_DEADLOCK FALSE
