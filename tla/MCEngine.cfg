\* minRun is 4, maxTables 10 and maxImmutables 2 in the code.
CONSTANTS
    Keys = {1, 2, 3}
    Readers = {r1}
    Batches <- DeleteOrPuts
    Snapshots <- Exports
    Policies = {"always", "interval"}
    MemtableSize = 1
    maxImmutables = 1
    minRun = 2
    maxTables = 2
    MaxGroup = 2
    MaxWrites = 3
    MaxRestarts = 2
    MaxRestores = 1
SPECIFICATION SharesSpec
INVARIANTS TypeOK ReadsAgree TiersInOrder NothingLeftBehind
PROPERTIES Implements StallEnds
CHECK_DEADLOCK FALSE
