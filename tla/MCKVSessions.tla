---------------------------- MODULE MCKVSessions ----------------------------
EXTENDS KVSessions, TLC

\* Two keys, each a shard of its own, in two groups of which the first is also
\* the meta group.
TwoKeys == [k \in {1, 2} |-> k]
TwoGroups == [s \in {1, 2} |-> s]

\* A write in each of the two groups, whose result tells whether it ran first.
Spread ==
    {[op |-> "cas", key |-> 1, expected |-> Absent, val |-> 1],
     [op |-> "cas", key |-> 2, expected |-> Absent, val |-> 1]}

UserSymmetry == Permutations(User)
=============================================================================
