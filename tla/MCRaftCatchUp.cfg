SPECIFICATION StableSpec
CONSTANTS
    s1 = s1
    s2 = s2
    s3 = s3
    v1 = v1
    Server = {s1, s2, s3}
    Value = {v1}
    None = None
    Noop = Noop
    MaxBatch = 2
    SnapChunk = 1
    SnapGap = 2
    MaxTerm = 3
    MaxLog = 0
    MaxPropose = 1
    MaxReads = 0
    MaxRestarts = 1
    Lossy = FALSE
    MaxInFlight = 12
    BeatWindow = 1
    MaxDups = 0
PROPERTIES
    LeaderCatchesUpAll
CHECK_DEADLOCK FALSE
