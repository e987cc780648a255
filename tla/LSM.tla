-------------------------------- MODULE LSM ---------------------------------
(***************************************************************************)
(* What the tiers of the storage engine hold and how they are read and     *)
(* merged, as values: memtables and tables are sets of versions, a version *)
(* being a key with its sequence number, its kind and its value.  The      *)
(* order of a merged stream is the one of compareInternalKey, by key and,  *)
(* for one key, newest first; over a set it is a choice of the maximum.    *)
(***************************************************************************)
EXTENDS Integers, Sequences, FiniteSetsExt, SequencesExt

\* The value of a key that is not there.
Absent == 0

\* One operation of a batch, as the version it becomes.
Version(op, n, id) == [key |-> op.key, seq |-> n, kind |-> op.kind,
                       val |-> IF op.kind = "put" THEN id ELSE Absent]

\* decodeBatch and the loop over its operations: the i-th has sequence seq + i.
Versions(rec) == {Version(rec.ops[i], rec.seq + i - 1, rec.id) : i \in DOMAIN rec.ops}

MaxSeq(vs) == Max({0} \cup {e.seq : e \in vs})

Seen(vs, k, bound) == {e \in vs : e.key = k /\ e.seq <= bound}

\* The first version of k in a stream that starts at its internal key with bound.
Newest(vs) == CHOOSE e \in vs : \A f \in vs : f.seq <= e.seq

\* Get: the tiers are tried in order, and the first that has the key answers.
Get(tiers, k, bound) ==
    LET has == {i \in DOMAIN tiers : Seen(tiers[i], k, bound) # {}}
    IN  IF has = {} THEN Absent ELSE Newest(Seen(tiers[Min(has)], k, bound)).val

\* Scan: one stream merged from all tiers; of each key the first version counts.
Scan(tiers, k, bound) ==
    LET vs == Seen(UNION Range(tiers), k, bound)
    IN  IF vs = {} THEN Absent ELSE Newest(vs).val

\* Bug: a tombstone is dropped wherever the output goes.
Filtered_Always(vs, dropTombstones) ==
    {e \in vs : (\A f \in vs : f.key = e.key => f.seq <= e.seq) /\ e.kind # "delete"}

\* writeTableFiltered: the newest version of each key.
Filtered(vs, dropTombstones) ==
    {e \in vs : /\ \A f \in vs : f.key = e.key => f.seq <= e.seq
                /\ ~(dropTombstones /\ e.kind = "delete")}

\* exportIter, and Export: what a reader with bound sees, without its tombstones.
exportIter(vs, bound) == Filtered({e \in vs : e.seq <= bound}, TRUE)

similarSize(a, b) == b <= 2 * a /\ a <= 2 * b

\* pickCompaction over the sizes of the tables: the window <<i, j>> to merge, or
\* <<0, 0>>. Runs are cut greedily, each around its first table; of the longest
\* the last is taken; with too many tables, the first of the cheapest windows.
NoPick == <<0, 0>>

RunEnd(sizes, i) ==
    Max({j \in i..Len(sizes) : \A x \in i..j : similarSize(sizes[i], sizes[x])})

Runs(sizes) ==
    LET from[i \in 1..Len(sizes) + 1] ==
            IF i > Len(sizes) THEN {}
            ELSE {<<i, RunEnd(sizes, i)>>} \cup from[RunEnd(sizes, i) + 1]
    IN  from[1]

pickCompaction(sizes, minRun, maxTables) ==
    LET size(p) == p[2] - p[1] + 1
        sum(p) == FoldLeft(+, 0, SubSeq(sizes, p[1], p[2]))
        long == {p \in Runs(sizes) : size(p) >= minRun}
        windows == {<<i, i + minRun - 1>> : i \in 1..Len(sizes) - minRun + 1}
    IN  IF long # {}
        THEN CHOOSE p \in long :
                 \A q \in long : size(q) < size(p) \/ (size(q) = size(p) /\ q[1] <= p[1])
        ELSE IF Len(sizes) <= maxTables THEN NoPick
        ELSE CHOOSE p \in windows :
                 \A q \in windows : sum(p) < sum(q) \/ (sum(p) = sum(q) /\ p[1] <= q[1])
=============================================================================
