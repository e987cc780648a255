------------------------------ MODULE MCEngine ------------------------------
(***************************************************************************)
(* The storage engine with two or three keys, one reader and thresholds    *)
(* small enough for stalls, flushes and both kinds of compaction.          *)
(***************************************************************************)
EXTENDS Engine

Op(kind, k) == [kind |-> kind, key |-> k]

DeleteOrPuts == {<<Op("delete", 1)>>, <<Op("put", 1), Op("put", 2)>>}

\* What another replica exported: nothing, or a key it wrote after many others.
Exports == {{}, {[key |-> 1, seq |-> 9, kind |-> "put", val |-> 99]}}

\* A table so large that one of one key is not similar to it: two newer ones are
\* merged on top of it.
Wide == {[key |-> k, seq |-> 1 + k, kind |-> "put", val |-> 100] : k \in 1..3}

\* Three tables, one too many, of which no two neighbours are similar.
Uneven == <<{[key |-> 2, seq |-> 5, kind |-> "delete", val |-> Absent]}, Wide,
            {[key |-> 2, seq |-> 1, kind |-> "put", val |-> 101]}>>

\* Opened on tables, with n writes, c restarts and d restores to go.
Left(tables, p, n, c, d) ==
    /\ Opened(tables) /\ policy = p
    /\ writes = MaxWrites - n /\ restarts = MaxRestarts - c /\ restores = MaxRestores - d

Shares ==
    \/ Left(<<Wide>>, "interval", 3, 0, 0)
    \/ Left(<<Wide>>, "interval", 2, 0, 1)
    \/ Left(<<Wide>>, "interval", 1, 1, 1)
    \/ Left(Uneven, "interval", 1, 2, 0)
    \/ Left(<<>>, "interval", 2, 2, 0)
    \/ Left(<<>>, "always", 2, 2, 0)

SharesSpec == Shares /\ [][Next]_vars /\ Fairness
=============================================================================
