SPECIFICATION Spec
CONSTANTS
    r1 = r1
    r2 = r2
    Router = {r1, r2}
    Key = {1}
    ShardOf <- OneShard
    Group = {1, 2, 3}
    Default <- InFirst
    Moves <- ToEither
    ImportChunk = 1
    ReadModes = {}
    MaxWrites = 0
    MaxReads = 0
    MaxLate = 0
    MaxRuns = 2
SYMMETRY RouterSymmetry
PROPERTY MoveExclusive
CHECK_DEADLOCK FALSE
