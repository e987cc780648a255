----------------------------- MODULE DiskStore ------------------------------
(***************************************************************************)
(* The LogStore of raft/diskstore.go: entries, states and snapshot records *)
(* in the segments of a write-ahead log that is synced on every append,    *)
(* snapshots in files of their own, the live tail of the log in memory.    *)
(*                                                                         *)
(* The node makes one call at a time.  A call takes several steps on the   *)
(* disk, and the process or the machine may stop between any two, while    *)
(* the store is being opened again too.                                    *)
(***************************************************************************)
EXTENDS WAL, SequencesExt

CONSTANTS
    Votes,          \* what votedFor may be, 0 for nobody
    SegmentSize,    \* the size at which Append starts a new segment, in records
    MaxIndex,       \* bound: indices
    MaxTerm,        \* bound: terms
    MaxBatch,       \* bound: entries of one Append
    MaxCalls,       \* bound: calls
    MaxCrashes      \* bound: crashes

ASSUME DiskStoreConstants ==
    /\ 0 \in Votes
    /\ SegmentSize \in Nat \ {0}
    /\ {MaxIndex, MaxTerm, MaxBatch, MaxCalls, MaxCrashes} \subseteq Nat

VARIABLES
    wal,        \* the segments on disk
    snaps,      \* the indices of the snapshot files on disk
    m,          \* the DiskStore in memory; between a crash and the next open,
                \* what that open will recover
    call,       \* the call that is being served
    pc,         \* its next step, or that the store is not open
    calls, crashes

vars == <<wal, snaps, m, call, pc, calls, crashes>>

NoCall == [op |-> "none"]

NewStore == [base |-> 0, entries |-> <<>>, snapIdx |-> 0, snapTerm |-> 0,
             term |-> 0, vote |-> 0, segMax |-> [s \in {} |-> 0], ok |-> TRUE]

Init ==
    /\ wal = NewWAL
    /\ snaps = {}
    /\ m = NewStore
    /\ call = NoCall
    /\ pc = "idle"
    /\ calls = 0 /\ crashes = 0
-----------------------------------------------------------------------------
\* Record payloads.
EntryRec(i, t) == [kind |-> "entry", idx |-> i, term |-> t]
StateRec(t, v) == [kind |-> "state", term |-> t, vote |-> v]
SnapshotRec(i, t) == [kind |-> "snapshot", idx |-> i, term |-> t]

last(s) == s.base + Len(s.entries)

\* The entries of s below index i, and then e.
Extend(s, i, e) == [s EXCEPT !.entries = SubSeq(@, 1, i - s.base - 1) \o <<e>>]

SetMax(s, seg, i) == [s EXCEPT !.segMax = (seg :> i) @@ @]

dropThrough(s, i) ==
    [s EXCEPT !.base = i,
              !.entries = IF i >= last(s) THEN <<>>
                          ELSE SubSeq(@, i - s.base + 1, Len(@))]

\* replay, of an entry.  A slice that begins below the log panics.
ReplayEntry(s, seg, r) ==
    LET e == [term |-> r.term]
    IN  CASE r.idx <= s.snapIdx -> s
          [] s.entries = <<>> /\ r.idx > last(s) + 1 ->
               SetMax([s EXCEPT !.base = r.idx - 1, !.entries = <<e>>], seg, r.idx)
          [] s.snapIdx < r.idx /\ r.idx \in s.base + 1..last(s) + 1 ->
               SetMax(Extend(s, r.idx, e), seg, r.idx)
          [] OTHER -> [s EXCEPT !.ok = FALSE]

ReplaySnapshot(s, r) ==
    IF r.idx < s.base THEN [s EXCEPT !.ok = FALSE]
    ELSE [dropThrough(s, r.idx) EXCEPT !.snapIdx = r.idx, !.snapTerm = r.term]

\* An error stops the replay.
replay(s, x) ==
    CASE ~s.ok                   -> s
      [] x.rec.kind = "entry"    -> ReplayEntry(s, x.seg, x.rec)
      [] x.rec.kind = "state"    -> [s EXCEPT !.term = x.rec.term, !.vote = x.rec.vote]
      [] x.rec.kind = "snapshot" -> ReplaySnapshot(s, x.rec)

\* What OpenDiskStore makes of a disk; ok is false where it returns an error.
Reopened(w, files) ==
    LET s == FoldLeft(replay, NewStore, Replayed(w))
    IN  [s EXCEPT !.ok = /\ @ /\ ~Corrupt(w)
                         /\ s.base = s.snapIdx
                         /\ s.snapIdx > 0 => s.snapIdx \in files]
-----------------------------------------------------------------------------
\* The node's calls.
Invoke(c, at) ==
    /\ pc = "idle"
    /\ calls < MaxCalls
    /\ calls' = calls + 1
    /\ call' = c
    /\ pc' = at
    /\ UNCHANGED <<wal, snaps, m, crashes>>

\* Entries are appended where the log ends or where it conflicts, in the order
\* of their terms.
Append_(first, t, n) ==
    /\ first \in m.snapIdx + 1..last(m) + 1
    /\ first + n - 1 <= MaxIndex
    /\ first <= last(m) => m.entries[first - m.base].term # t
    /\ \A i \in 1..first - m.base - 1 : m.entries[i].term <= t
    /\ Invoke([op |-> "append", first |-> first, es |-> [i \in 1..n |-> [term |-> t]]], "write")

SetState(t, v) ==
    /\ t > m.term \/ (t = m.term /\ m.vote = 0 /\ v # 0)
    /\ Invoke([op |-> "state", term |-> t, vote |-> v], "write")

\* Of the node's own state, with the term of the last entry it covers, or of a
\* snapshot it was sent.
Compact(i, t) ==
    /\ i > m.snapIdx
    /\ IF i <= last(m) THEN t = m.entries[i - m.base].term
       ELSE \A k \in DOMAIN m.entries : m.entries[k].term <= t
    /\ Invoke([op |-> "compact", idx |-> i, term |-> t, old |-> m.snapIdx], "snapshot")

\* writeFileAtomic.
WriteSnapshot ==
    /\ pc = "snapshot"
    /\ snaps' = snaps \cup {call.idx}
    /\ pc' = "rotate"
    /\ UNCHANGED <<wal, m, call, calls, crashes>>

RotateForSnapshot ==
    /\ pc = "rotate"
    /\ wal' = Rotate(wal)
    /\ pc' = "write"
    /\ UNCHANGED <<snaps, m, call, calls, crashes>>

\* The records of a call.
Payloads(c) ==
    CASE c.op = "append"  -> [i \in DOMAIN c.es |-> EntryRec(c.first + i - 1, c.es[i].term)]
      [] c.op = "state"   -> <<StateRec(c.term, c.vote)>>
      [] c.op = "compact" -> <<SnapshotRec(c.idx, c.term), StateRec(m.term, m.vote)>>

Full == Len(wal[Segment(wal)].recs) >= SegmentSize

\* WAL.Append: the rotation, and the write.
RotateFull ==
    /\ pc = "write"
    /\ Full
    /\ wal' = Rotate(wal)
    /\ UNCHANGED <<snaps, m, call, pc, calls, crashes>>

WriteRecords ==
    /\ pc = "write"
    /\ ~Full
    /\ wal' = Write(wal, Payloads(call))
    /\ pc' = "sync"
    /\ UNCHANGED <<snaps, m, call, calls, crashes>>

\* What a call does to the store in memory.
Served(s, c, seg) ==
    CASE c.op = "append" ->
           SetMax([s EXCEPT !.entries = SubSeq(@, 1, c.first - s.base - 1) \o c.es],
                  seg, c.first + Len(c.es) - 1)
      [] c.op = "state" -> [s EXCEPT !.term = c.term, !.vote = c.vote]
      [] c.op = "compact" ->
           [dropThrough(s, c.idx) EXCEPT !.snapIdx = c.idx, !.snapTerm = c.term]

\* syncLocked, and the rest of the call but for what Compact cleans up.
SyncRecords ==
    /\ pc = "sync"
    /\ wal' = Sync(wal)
    /\ m' = Served(m, call, Segment(wal))
    /\ IF call.op = "compact" THEN pc' = "unlink" /\ UNCHANGED call
       ELSE pc' = "idle" /\ call' = NoCall
    /\ UNCHANGED <<snaps, calls, crashes>>

\* A segment with entries that the snapshot does not cover.
Needed(s, seg) == s.segMax[seg] > s.snapIdx

Oldest(s) ==
    LET cur == Segment(wal)
        needed == {seg \in DOMAIN s.segMax : seg < cur /\ Needed(s, seg)}
    IN  IF needed = {} THEN cur ELSE Min(needed)

\* Bug: segMax keeps what it said of the segments that go.
RemoveOldSnapshot_KeepMax ==
    /\ pc = "unlink"
    /\ snaps' = snaps \ {call.old}
    /\ pc' = "delete"
    /\ UNCHANGED <<wal, m, call, calls, crashes>>

\* The end of Compact, and deleteObsoleteSegments, which deletes one file after
\* the other.
RemoveOldSnapshot ==
    /\ pc = "unlink"
    /\ snaps' = snaps \ {call.old}
    /\ m' = [m EXCEPT !.segMax = [s \in {x \in DOMAIN @ : x >= Oldest(m)} |-> @[s]]]
    /\ pc' = "delete"
    /\ UNCHANGED <<wal, call, calls, crashes>>

DeleteSegment ==
    /\ pc = "delete"
    /\ Min(DOMAIN wal) < Oldest(m)
    /\ wal' = DeleteBefore(wal, Min(DOMAIN wal) + 1)
    /\ UNCHANGED <<snaps, m, call, pc, calls, crashes>>

Compacted ==
    /\ pc = "delete"
    /\ Min(DOMAIN wal) >= Oldest(m)
    /\ call' = NoCall
    /\ pc' = "idle"
    /\ UNCHANGED <<wal, snaps, m, calls, crashes>>
-----------------------------------------------------------------------------
\* The process or the machine stops, or a write fails and the node panics.
Crash ==
    /\ pc \notin {"down", "failed"}
    /\ crashes < MaxCrashes
    /\ crashes' = crashes + 1
    /\ \E w \in AfterCrash(wal) \cup
                (IF pc = "write" THEN PartWritten(wal, Payloads(call)) ELSE {}) :
          LET s == Reopened(w, snaps)
          IN  /\ wal' = w
              /\ IF s.ok THEN m' = s /\ pc' = "down" ELSE UNCHANGED m /\ pc' = "failed"
    /\ call' = NoCall
    /\ UNCHANGED <<snaps, calls>>

\* OpenDiskStore, as far as OpenWAL.
Open ==
    /\ pc = "down"
    /\ m' = Reopened(wal, snaps)
    /\ wal' = OpenWAL(wal)
    /\ pc' = "stale"
    /\ UNCHANGED <<snaps, call, calls, crashes>>

\* Bug: only older files are taken for stale.
removeStaleSnapshots_Older ==
    /\ pc = "stale"
    /\ snaps' = {i \in snaps : i >= m.snapIdx}
    /\ pc' = "idle"
    /\ UNCHANGED <<wal, m, call, calls, crashes>>

removeStaleSnapshots ==
    /\ pc = "stale"
    /\ snaps' = snaps \cap {m.snapIdx}
    /\ pc' = "idle"
    /\ UNCHANGED <<wal, m, call, calls, crashes>>

Next ==
    \/ \E i \in 1..MaxIndex, t \in 1..MaxTerm : Compact(i, t) \/ \E n \in 1..MaxBatch : Append_(i, t, n)
    \/ \E t \in 1..MaxTerm, v \in Votes : SetState(t, v)
    \/ WriteSnapshot \/ RotateForSnapshot \/ RotateFull \/ WriteRecords \/ SyncRecords
    \/ RemoveOldSnapshot \/ DeleteSegment \/ Compacted
    \/ Crash \/ Open \/ removeStaleSnapshots

Spec == Init /\ [][Next]_vars
-----------------------------------------------------------------------------
TypeOK ==
    /\ \A s \in DOMAIN wal : wal[s].synced \in 0..Len(wal[s].recs)
    /\ snaps \subseteq 1..MaxIndex
    /\ m.snapIdx \in 0..MaxIndex /\ m.base \in 0..MaxIndex
    /\ last(m) <= MaxIndex
    /\ DOMAIN m.segMax \subseteq DOMAIN wal
    /\ pc \in {"idle", "snapshot", "rotate", "write", "sync", "unlink", "delete",
               "down", "stale", "failed"}
    /\ pc \in {"idle", "down", "stale", "failed"} <=> call = NoCall

\* What the node sees of the store, and the call it waits for.
Promised == INSTANCE StableLog WITH
    stable <- [log  |-> [snapIdx  |-> m.snapIdx,
                         snapTerm |-> m.snapTerm,
                         snap     |-> IF m.snapIdx \in snaps \cup {0} THEN m.snapIdx ELSE -1,
                         entries  |-> m.entries],
               term |-> m.term,
               vote |-> m.vote],
    call   <- IF pc \in {"unlink", "delete"} THEN NoCall ELSE call

\* The records and the files keep the promise of StableLog over every crash, also
\* inside a call and inside an open: replay finds the log, the state and the
\* snapshot of the calls that returned, and of a call that did not at most a
\* beginning.
Implements == Promised!Spec

\* A store that is open keeps its snapshot file and no other: what a compaction
\* or a crash inside one leaves behind is gone with the next open.
NoStraySnapshots == pc = "idle" => snaps = {m.snapIdx} \ {0}

\* Comment in replay: entries missing below the first one left are covered by a
\* snapshot record further on, so the log a node has written can be opened again.
Reopens == pc # "failed"
=============================================================================
