------------------------------- MODULE Tables -------------------------------
(***************************************************************************)
(* The files of the storage engine as values: internal keys (key.go),      *)
(* blocks with prefix compression and restart points (block.go), tables    *)
(* with an index and a Bloom filter (sstable.go, bloom.go), written and    *)
(* read the way the code does it.                                          *)
(*                                                                         *)
(* An internal key is a sequence of numbers: the bytes of the user key,    *)
(* then one number for the eight bytes of the trailer.  A file is a        *)
(* sequence of blocks and a handle the place of one, so offsets, sizes in  *)
(* bytes, checksums and the encoding of lengths do not appear; the size of *)
(* a block is the number of its entries.                                   *)
(***************************************************************************)
EXTENDS Integers, Sequences, FiniteSetsExt, SequencesExt

CONSTANTS
    restartInterval, BlockSize,
    bloomProbes, BitsPerKey, MinBits,   \* the filter of n keys has Max(n * BitsPerKey, MinBits) bits
    Word,           \* 2^32 in the code: where the sum of a probe wraps round
    Hashes          \* bloomHashes, of each user key
-----------------------------------------------------------------------------
(* Internal keys.                                                          *)

kindDelete == 0
kindPut == 1

makeInternalKey(user, seq, kind) == Append(user, 2 * seq + kind)

userKey(ik) == Front(ik)

seqOf(ik) == Last(ik) \div 2

kindOf(ik) == Last(ik) % 2

\* bytes.Compare(a, b) < 0
BytesLess(a, b) ==
    \E n \in 0..Len(a) :
        /\ n < Len(b) /\ SubSeq(a, 1, n) = SubSeq(b, 1, n)
        /\ n < Len(a) => a[n + 1] < b[n + 1]

\* compareInternalKey(a, b) < 0
Less(a, b) ==
    \/ BytesLess(userKey(a), userKey(b))
    \/ userKey(a) = userKey(b) /\ Last(a) > Last(b)
-----------------------------------------------------------------------------
(* Blocks: entries, and the places of those that start afresh.             *)

EmptyBlock == [entries |-> <<>>, restarts |-> <<>>, lastKey |-> <<>>]

\* How many leading bytes two keys share.
Shared(a, b) ==
    Max({n \in 0..Min({Len(a), Len(b)}) : SubSeq(a, 1, n) = SubSeq(b, 1, n)})

\* blockBuilder.add
addEntry(b, key, value) ==
    LET restart == Len(b.entries) % restartInterval = 0
        shared == IF restart THEN 0 ELSE Shared(key, b.lastKey)
    IN  [entries  |-> Append(b.entries, [shared |-> shared,
                                         rest   |-> SubSeq(key, shared + 1, Len(key)),
                                         value  |-> value]),
         restarts |-> IF restart THEN Append(b.restarts, Len(b.entries) + 1) ELSE b.restarts,
         lastKey  |-> key]

\* decodeAt with prev in k: the key of entry i, or no key where prev is too short.
NoKey == <<>>

decodeAt(b, i, prev) ==
    LET e == b.entries[i]
    IN  IF e.shared > Len(prev) THEN NoKey ELSE SubSeq(prev, 1, e.shared) \o e.rest

\* A position in a block: the entry, 0 when it is not valid, and its key.
Nowhere == [at |-> 0, k |-> NoKey]

\* blockIter.next; an entry that cannot be decoded ends the walk.
blockNext(b, it) ==
    IF it.at = Len(b.entries) THEN Nowhere
    ELSE LET k == decodeAt(b, it.at + 1, it.k)
         IN  IF k = NoKey THEN Nowhere ELSE [at |-> it.at + 1, k |-> k]

blockFirst(b) == blockNext(b, Nowhere)

\* The linear scan of blockIter.seek, from restart point i.
ScanFrom(b, i, target) ==
    LET scan[n \in 0..Len(b.entries)] ==
            IF n = 0 THEN blockNext(b, [at |-> b.restarts[i] - 1, k |-> <<>>])
            ELSE IF scan[n - 1].at # 0 /\ Less(scan[n - 1].k, target) THEN blockNext(b, scan[n - 1])
            ELSE scan[n - 1]
    IN  scan[Len(b.entries)]

\* sort.Search: the first restart point that is not before the target, or the end.
Search(b, target) ==
    Min({Len(b.restarts) + 1} \cup
        {r \in DOMAIN b.restarts : ~Less(decodeAt(b, b.restarts[r], <<>>), target)})

\* Bug: the scan starts where the search ended.
blockSeek_NoStepBack(b, target) ==
    IF b.restarts = <<>> THEN Nowhere
    ELSE ScanFrom(b, Min({Search(b, target), Len(b.restarts)}), target)

\* blockIter.seek: the scan starts at the last restart point before the target.
blockSeek(b, target) ==
    IF b.restarts = <<>> THEN Nowhere
    ELSE ScanFrom(b, Max({1, Search(b, target) - 1}), target)
-----------------------------------------------------------------------------
(* The Bloom filter.                                                       *)

Bits(n) == 8 * ((Max({n * BitsPerKey, MinBits}) + 7) \div 8)

Probe(user, i, nbits) == ((Hashes[user][1] + i * Hashes[user][2]) % Word) % nbits

buildBloom(keys) ==
    [nbits |-> Bits(Len(keys)),
     set   |-> {Probe(k, i, Bits(Len(keys))) : k \in Range(keys), i \in 0..bloomProbes - 1}]

mayContain(f, user) == \A i \in 0..bloomProbes - 1 : Probe(user, i, f.nbits) \in f.set
-----------------------------------------------------------------------------
(* Tables.                                                                 *)

NewWriter == [blocks |-> <<>>, data |-> EmptyBlock, index |-> EmptyBlock, bloomKeys |-> <<>>,
              pending |-> FALSE, lastKey |-> <<>>, handle |-> 0]

\* The index entry of a block is written when the next one begins: its last key.
indexPending(t) ==
    IF t.pending THEN [t EXCEPT !.index = addEntry(@, t.lastKey, t.handle), !.pending = FALSE] ELSE t

flushBlock(t) ==
    IF t.data.entries = <<>> THEN t
    ELSE [t EXCEPT !.blocks = Append(@, t.data), !.data = EmptyBlock,
                   !.handle = Len(t.blocks) + 1, !.pending = TRUE]

\* tableWriter.add
addToTable(t, ik, value) ==
    LET u == [indexPending(t) EXCEPT !.data = addEntry(@, ik, value),
                                     !.lastKey = ik,
                                     !.bloomKeys = Append(@, userKey(ik))]
    IN  IF Len(u.data.entries) >= BlockSize THEN flushBlock(u) ELSE u

\* tableWriter.finish, and readFooter when the table is opened.
finish(t) ==
    LET u == indexPending(flushBlock(t))
    IN  [blocks |-> u.blocks, index |-> u.index, bloom |-> buildBloom(u.bloomKeys)]

\* An iterator: its place in the index and in the block that the index entry names.
EndOfTable == [ix |-> Nowhere, blk |-> Nowhere]

blockAt(t, ix) == t.blocks[t.index.entries[ix.at].value]

\* skipExhausted: from a place in a block to the next block that has an entry.
skipExhausted(t, it) ==
    LET skip[n \in 0..Len(t.index.entries)] ==
            IF n = 0 THEN it
            ELSE LET i == skip[n - 1]
                     ix == blockNext(t.index, i.ix)
                 IN  IF i.ix.at = 0 \/ i.blk.at # 0 THEN i
                     ELSE IF ix.at = 0 THEN EndOfTable
                     ELSE [ix |-> ix, blk |-> blockFirst(blockAt(t, ix))]
    IN  skip[Len(t.index.entries)]

tableFirst(t) ==
    LET ix == blockFirst(t.index)
    IN  IF ix.at = 0 THEN EndOfTable
        ELSE skipExhausted(t, [ix |-> ix, blk |-> blockFirst(blockAt(t, ix))])

tableSeek(t, target) ==
    LET ix == blockSeek(t.index, target)
    IN  IF ix.at = 0 THEN EndOfTable
        ELSE skipExhausted(t, [ix |-> ix, blk |-> blockSeek(blockAt(t, ix), target)])

tableNext(t, it) == skipExhausted(t, [it EXCEPT !.blk = blockNext(blockAt(t, it.ix), @)])

tableValue(t, it) == blockAt(t, it.ix).entries[it.blk.at].value

\* table.get: the key found, or NoKey.
tableGet(t, user, seq) ==
    LET it == tableSeek(t, makeInternalKey(user, seq, kindPut))
    IN  IF mayContain(t.bloom, user) /\ it.blk.at # 0 /\ userKey(it.blk.k) = user
        THEN it.blk.k ELSE NoKey
=============================================================================
