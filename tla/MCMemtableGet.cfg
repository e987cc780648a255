CONSTANTS
    restartInterval = 2
    BlockSize = 2
    bloomProbes = 2
    BitsPerKey = 3
    MinBits = 8
    Word = 256
    Hashes <- SomeHashes
    Users <- Names
    Written <- Three
    maxHeight = 2
    MaxSeq = 7
SPECIFICATION MCSpec
INVARIANT GetsFind
CHECK_DEADLOCK FALSE
