----------------------------- MODULE MCMemtable -----------------------------
(***************************************************************************)
(* Five user keys, some a prefix of another, blocks of two entries and a   *)
(* restart point at every other one; a skip list of two levels.            *)
(***************************************************************************)
EXTENDS Memtable

Names == {<<1>>, <<1, 1>>, <<1, 2>>, <<2>>, <<2, 1>>}

Three == {<<1>>, <<1, 1>>, <<2>>}

\* The first sums of a probe wrap round, and two keys share their first bit.
SomeHashes ==
    (<<1>> :> <<250, 3>>) @@ (<<1, 1>> :> <<7, 101>>) @@ (<<1, 2>> :> <<250, 5>>)
    @@ (<<2>> :> <<255, 255>>) @@ (<<2, 1>> :> <<0, 1>>)

\* One version of each of some keys, numbered in the order of the keys or against it.
Versions(us, up, kind) ==
    LET s == SetToSortSeq(us, BytesLess)
    IN  {makeInternalKey(s[i], IF up THEN i ELSE Len(s) + 1 - i, kind) : i \in DOMAIN s}

\* Old memtables of every set of keys, one of them written a second time.
AnyOld ==
    {Versions(us, up, kindPut) \cup vs :
        us \in SUBSET Names, up \in BOOLEAN,
        vs \in {{}} \cup {{makeInternalKey(u, 6, kind)} : u \in Names, kind \in {kindDelete, kindPut}}}

\* All of them are drained; reads and writes go on beside a few.
MCInit ==
    \/ \E vs \in AnyOld : Start(vs, MaxSeq)
    \/ \E us \in {{}, {<<1>>, <<2>>}} : Start(Versions(us, TRUE, kindPut), MaxSeq - 2)

MCSpec == MCInit /\ [][Next]_vars
=============================================================================
