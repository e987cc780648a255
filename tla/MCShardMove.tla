---------------------------- MODULE MCShardMove -----------------------------
EXTENDS ShardMove, TLC

\* One shard of one key, or of two.
OneShard == [k \in Key |-> 1]
InFirst == [s \in {1} |-> 1]

\* The shard moves to group 2; or two operators send it to different groups.
ToSecond == {<<1, 2>>}
ToEither == {<<1, 2>>, <<1, 3>>}

\* The initial state with n runs of MoveShard, l late requests, w writes and d
\* reads left of what the bounds allow.
Left(n, l, w, d) ==
    /\ meta = NoMap
    /\ sm = [g \in Group |-> EmptyGroup]
    /\ shards = [r \in Router |-> NoMap] /\ raw = shards /\ fetched = shards
    /\ mv = [r \in Router |-> Idle]
    /\ late = {} /\ lates = MaxLate - l /\ runs = MaxRuns - n
    /\ wr = [seq |-> MaxWrites - w, call |-> NoCall]
    /\ rd = [call |-> NoCall, mode |-> "log", got |-> 0, floor |-> 0, n |-> MaxReads - d]
    /\ known = [k \in Key |-> 0]

\* Two movers with a writer; two movers with a late request; one mover with two
\* writes and a late request; one mover with a writer and a reader.
SharesSpec ==
    /\ Left(2, 0, 1, 0) \/ Left(2, 1, 0, 0) \/ Left(1, 1, 2, 0) \/ Left(1, 0, 1, 1)
    /\ [][Next]_vars

RouterSymmetry == Permutations(Router)
=============================================================================
