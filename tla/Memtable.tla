------------------------------ MODULE Memtable ------------------------------
(***************************************************************************)
(* The two ends of a memtable's life.  An old one is drained into a table, *)
(* entry by entry (db.writeTable).  A new one, a skip list, takes versions *)
(* from one writer while a reader without locks looks a key up or scans    *)
(* the list and the table merged (skiplist.go, merge.go, dbIter of db.go). *)
(* Every load and store of a pointer is a step of its own.                 *)
(***************************************************************************)
EXTENDS Tables, TLC

CONSTANTS Users, Written, maxHeight, MaxSeq

VARIABLES
    old,        \* what is left to drain of the old memtable, in order
    last,       \* the user key that was drained last
    tw, table,  \* the table being written; the finished one, when there is one
    drained,    \* history: the versions of the old memtable
    next, height,   \* the skip list: the pointers of each node, by level
    ins,        \* the insertion under way
    seq,        \* what is published to readers
    rd          \* the reader

flushing == <<old, last, tw, table, drained>>
list == <<next, height>>
vars == <<flushing, list, ins, seq, rd>>

head == <<-1>>
Nil == <<>>
NoInsert == [pc |-> "idle"]
NoRead == [pc |-> "idle"]

Order(S) == SetToSortSeq(S, Less)

\* What the list and the old memtable hold that a reader with bound may see.
SeenOf(user, bound) ==
    {k \in (DOMAIN next \ {head}) \cup drained : userKey(k) = user /\ seqOf(k) <= bound}

Newest(vs) == CHOOSE k \in vs : \A l \in vs : seqOf(l) <= seqOf(k)

\* The version of user that a reader with bound should find, or NoKey.
Right(user, bound) ==
    IF SeenOf(user, bound) = {} THEN NoKey ELSE Newest(SeenOf(user, bound))

Present(k) == k # NoKey /\ kindOf(k) = kindPut
-----------------------------------------------------------------------------
(* writeTable.                                                             *)

\* One turn of the loop: of each user key the first version is kept.
Drain ==
    /\ old # <<>>
    /\ old' = Tail(old)
    /\ last' = userKey(old[1])
    /\ tw' = IF userKey(old[1]) = last THEN tw ELSE addToTable(tw, old[1], seqOf(old[1]))
    /\ UNCHANGED <<table, drained, list, ins, seq, rd>>

FinishTable ==
    /\ old = <<>> /\ table = <<>>
    /\ table' = <<finish(tw)>>
    /\ tw' = NewWriter
    /\ UNCHANGED <<old, last, drained, list, ins, seq, rd>>
-----------------------------------------------------------------------------
(* The skip list.                                                          *)

\* The search of insert: the last node before key on each level. Only the writer
\* changes the list, so its own search is one step.
Before(key, level) ==
    LET nodes == {n \in DOMAIN next : Len(next[n]) >= level /\ (n = head \/ Less(n, key))}
    IN  CHOOSE n \in nodes : \A l \in nodes : l # n => l = head \/ (n # head /\ Less(l, n))

\* Bug: the node goes in before it points anywhere.
BeginInsert_Bare(user, kind, h) ==
    /\ table # <<>> /\ ins = NoInsert /\ seq < MaxSeq
    /\ LET key == makeInternalKey(user, seq + 1, kind)
       IN  /\ next' = (key :> [l \in 1..h |-> Nil]) @@ next
           /\ ins' = [pc |-> "link", key |-> key, level |-> 1, prev |-> [l \in 1..h |-> Before(key, l)]]
    /\ height' = Max({height, h})
    /\ UNCHANGED <<flushing, seq, rd>>

\* Bug: the height of the list stays as it is.
BeginInsert_Low(user, kind, h) ==
    /\ table # <<>> /\ ins = NoInsert /\ seq < MaxSeq
    /\ LET key == makeInternalKey(user, seq + 1, kind)
       IN  /\ next' = (key :> [l \in 1..h |-> next[Before(key, l)][l]]) @@ next
           /\ ins' = [pc |-> "link", key |-> key, level |-> 1, prev |-> [l \in 1..h |-> Before(key, l)]]
    /\ UNCHANGED <<flushing, height, seq, rd>>

\* memtable.put and insert, up to the first store that readers can follow: the height
\* is raised, and the node built with pointers of its own.
BeginInsert(user, kind, h) ==
    /\ table # <<>> /\ ins = NoInsert /\ seq < MaxSeq
    /\ LET key == makeInternalKey(user, seq + 1, kind)
       IN  /\ next' = (key :> [l \in 1..h |-> next[Before(key, l)][l]]) @@ next
           /\ ins' = [pc |-> "link", key |-> key, level |-> 1, prev |-> [l \in 1..h |-> Before(key, l)]]
    /\ height' = Max({height, h})
    /\ UNCHANGED <<flushing, seq, rd>>

\* One store of the last loop, bottom up.
Link ==
    /\ ins.pc = "link"
    /\ next' = [next EXCEPT ![ins.prev[ins.level]][ins.level] = ins.key]
    /\ ins' = IF ins.level = Len(ins.prev) THEN [ins EXCEPT !.pc = "publish"]
              ELSE [ins EXCEPT !.level = @ + 1]
    /\ UNCHANGED <<flushing, height, seq, rd>>

\* seq.Store at the end of commit.
Publish ==
    /\ ins.pc = "publish"
    /\ seq' = seqOf(ins.key)
    /\ ins' = NoInsert
    /\ UNCHANGED <<flushing, list, rd>>
-----------------------------------------------------------------------------
(* The reader.                                                             *)

\* Get and Scan take the sequence number and seek; Scan in all children.
Seeking(user) ==
    [pc |-> "seek", target |-> makeInternalKey(user, seq, kindPut), x |-> head, level |-> height]

Get(user) ==
    /\ table # <<>> /\ rd = NoRead
    /\ rd' = [op |-> "get", bound |-> seq, want |-> Right(user, seq)] @@ Seeking(user)
    /\ UNCHANGED <<flushing, list, ins, seq>>

\* The keys from start on, before end; the result is what should come out, in order.
Scan(start, end) ==
    /\ table # <<>> /\ rd = NoRead
    /\ LET keys == {u \in Users : ~BytesLess(u, start) /\ BytesLess(u, end)}
           vs == {Right(u, seq) : u \in keys}
       IN  rd' = [op |-> "scan", bound |-> seq, end |-> end, last |-> <<>>, out |-> <<>>,
                  ti |-> tableSeek(table[1], makeInternalKey(start, seq, kindPut)),
                  want |-> Order({k \in vs : Present(k)})] @@ Seeking(start)
    /\ UNCHANGED <<flushing, list, ins, seq>>

\* One load of skiplist.seek: along the level, or down.
SeekStep ==
    /\ rd.pc = "seek" /\ rd.level > 0
    /\ LET n == next[rd.x][rd.level]
       IN  rd' = IF n # Nil /\ Less(n, rd.target) THEN [rd EXCEPT !.x = n]
                 ELSE [rd EXCEPT !.level = @ - 1]
    /\ UNCHANGED <<flushing, list, ins, seq>>

\* The last load of seek. Get goes on to the table when this tier has no version.
SeekEnd ==
    /\ rd.pc = "seek" /\ rd.level = 0
    /\ LET n == next[rd.x][1]
           user == userKey(rd.target)
       IN  rd' = IF rd.op = "scan" THEN [rd EXCEPT !.pc = "next", !.x = n]
                 ELSE [out |-> IF n # Nil /\ userKey(n) = user THEN n
                               ELSE tableGet(table[1], user, rd.bound)]
                      @@ [rd EXCEPT !.pc = "done"]
    /\ UNCHANGED <<flushing, list, ins, seq>>

\* mergeIter: the child with the least key is on top of the heap, the list first.
FromList == rd.x # Nil /\ (rd.ti.blk.at = 0 \/ ~Less(rd.ti.blk.k, rd.x))

\* One turn of dbIter.Next, with its call of mergeIter.next.
ScanStep ==
    /\ rd.pc = "next"
    /\ LET top == IF FromList THEN rd.x ELSE rd.ti.blk.k
           skip == seqOf(top) > rd.bound \/ userKey(top) = rd.last
           moved == IF FromList THEN [rd EXCEPT !.x = next[rd.x][1]]
                    ELSE [rd EXCEPT !.ti = tableNext(table[1], rd.ti)]
       IN  rd' = IF (rd.x = Nil /\ rd.ti.blk.at = 0) \/ ~BytesLess(userKey(top), rd.end)
                 THEN [rd EXCEPT !.pc = "done"]
                 ELSE IF skip THEN moved
                 ELSE [moved EXCEPT !.last = userKey(top),
                                    !.out = IF kindOf(top) = kindDelete THEN @ ELSE Append(@, top)]
    /\ UNCHANGED <<flushing, list, ins, seq>>

Return ==
    /\ rd.pc = "done"
    /\ rd' = NoRead
    /\ UNCHANGED <<flushing, list, ins, seq>>
-----------------------------------------------------------------------------
\* The old memtable holds vs, and the new one is empty; n was the last number given out.
Start(vs, n) ==
    /\ old = Order(vs) /\ last = <<>> /\ tw = NewWriter /\ table = <<>> /\ drained = vs
    /\ next = (head :> [l \in 1..maxHeight |-> Nil]) /\ height = 1
    /\ ins = NoInsert /\ seq = n /\ rd = NoRead

Next ==
    \/ Drain \/ FinishTable
    \/ \E u \in Written, kind \in {kindDelete, kindPut}, h \in 1..maxHeight : BeginInsert(u, kind, h)
    \/ Link \/ Publish
    \/ \E u \in Users : Get(u) \/ \E e \in Users \cup {<<MaxSeq>>} : Scan(u, e)
    \/ SeekStep \/ SeekEnd \/ ScanStep \/ Return
-----------------------------------------------------------------------------
TypeOK ==
    /\ Len(table) <= 1
    /\ height \in 1..maxHeight
    /\ \A n \in DOMAIN next : \A l \in DOMAIN next[n] : next[n][l] \in DOMAIN next \cup {Nil}
    /\ \A n \in DOMAIN next \ {head} : Len(next[n]) <= height
    /\ rd # NoRead => rd.level <= height

\* The newest version of each user key of the old memtable, in order.
Kept == Order({Newest({l \in drained : userKey(l) = userKey(k)}) : k \in drained})

\* A finished table is what was drained into it: walked from the first entry it gives
\* the newest version of each key in order, sought at any key the first that is not
\* before it, and the filter turns no key away that is there. It does not change, so
\* it is looked at once.
TableExact ==
    (table # <<>> /\ rd = NoRead /\ DOMAIN next = {head}) =>
        LET t == table[1]
            walk[n \in 1..Len(Kept) + 1] == IF n = 1 THEN tableFirst(t) ELSE tableNext(t, walk[n - 1])
        IN  /\ \A n \in DOMAIN Kept : walk[n].blk.k = Kept[n] /\ tableValue(t, walk[n]) = seqOf(Kept[n])
            /\ walk[Len(Kept) + 1] = EndOfTable
            /\ \A u \in Users, s \in 0..MaxSeq :
                   LET target == makeInternalKey(u, s, kindPut)
                       from == SelectSeq(Kept, LAMBDA k : ~Less(k, target))
                   IN  tableSeek(t, target).blk.k = IF from = <<>> THEN NoKey ELSE from[1]
            /\ \A k \in Range(Kept) : tableGet(t, userKey(k), MaxSeq) = k

\* A scan returns what the store held when it began: nothing that was published is
\* missed and nothing newer is seen, however the list changes under its feet.
ScansExact == (rd.pc = "done" /\ rd.op = "scan") => rd.out = rd.want

\* A lookup that began when a version of its key was published finds that one or a
\* newer one: memtable.get says that it finds none only "when no version qualifies".
GetsFind ==
    (rd.pc = "done" /\ rd.op = "get" /\ rd.want # NoKey) =>
        rd.out # NoKey /\ seqOf(rd.out) >= seqOf(rd.want)
=============================================================================
