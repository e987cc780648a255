SPECIFICATION Spec
CONSTANTS
    s1 = s1
    s2 = s2
    s3 = s3
    v1 = v1
    Server = {s1, s2}
    Value = {v1}
    None = None
    Noop = Noop
    MaxBatch = 2
    SnapChunk = 1
    SnapGap = 2
    MaxTerm = 2
    MaxLog = 3
    MaxPropose = 2
    MaxReads = 0
    MaxRestarts = 1
    Lossy = TRUE
    MaxInFlight = 2
    BeatWindow = 1
    MaxDups = 1
SYMMETRY Symmetry
INVARIANTS
    CommittedDurable
    MatchTruthful
    StateMachineSafety
PROPERTIES
    VoteOnce
CHECK_DEADLOCK FALSE
