SPECIFICATION Spec
CONSTANTS
    u1 = u1
    u2 = u2
    User = {u1, u2}
    Key = {1, 2}
    ShardOf <- TwoKeys
    Group = {1, 2}
    MetaGroup = 1
    Home <- TwoGroups
    Outstanding = 1
    Ops <- Spread
    MaxSeq = 2
    MaxIndex = 3
    MaxDups = 1
SYMMETRY UserSymmetry
INVARIANTS
    TypeOK
    ExecutedOnce
    AckedExecuted
    SessionsUnique
CHECK_DEADLOCK FALSE
