---------------------------- MODULE MCDiskStore -----------------------------
EXTENDS DiskStore

\* The initial state with n calls and k crashes left of what the bounds allow.
Left(n, k) ==
    /\ wal = NewWAL
    /\ snaps = {}
    /\ m = NewStore
    /\ call = NoCall
    /\ pc = "idle"
    /\ calls = MaxCalls - n /\ crashes = MaxCrashes - k

\* Long runs with one crash, shorter ones with two.
SharesSpec == (Left(4, 1) \/ Left(3, 2)) /\ [][Next]_vars
=============================================================================
