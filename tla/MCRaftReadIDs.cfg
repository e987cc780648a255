SPECIFICATION ReadCutShortSpec
CONSTANTS
    s1 = s1
    s2 = s2
    s3 = s3
    v1 = v1
    Server = {s1, s2, s3}
    Value = {v1}
    None = None
    Noop = Noop
    MaxBatch = 2
    SnapChunk = 1
    SnapGap = 0
    MaxTerm = 3
    MaxLog = 0
    MaxPropose = 1
    MaxReads = 1
    MaxRestarts = 0
    Lossy = TRUE
    MaxInFlight = 2
    BeatWindow = 0
    MaxDups = 0
INVARIANTS
    ReadsLinearizable
CHECK_DEADLOCK FALSE
