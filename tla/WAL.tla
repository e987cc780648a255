-------------------------------- MODULE WAL ---------------------------------
(***************************************************************************)
(* The write-ahead log of storage/wal.go as values and operations on them. *)
(* A log is its segment files: a function from the numbers of the files    *)
(* that exist to their contents.  A file has its records, how many of them *)
(* an fsync has covered, and whether part of a record follows the last     *)
(* one.  Checksums and lengths only tell a whole record from part of one.  *)
(***************************************************************************)
EXTENDS Integers, Sequences, FiniteSetsExt, TLC

NewFile == [recs |-> <<>>, synced |-> 0, torn |-> FALSE]

\* OpenWAL in an empty directory.
NewWAL == 1 :> NewFile

\* The segment that is written to; the others are closed.
Segment(w) == Max(DOMAIN w)

openSegment(w, seg) == (seg :> NewFile) @@ w

\* Append, as far as the write: the records reach the page cache.
Write(w, recs) == [w EXCEPT ![Segment(w)].recs = @ \o recs]

\* What a write that fails or is cut short may leave.
PartWritten(w, recs) ==
    {[Write(w, SubSeq(recs, 1, n)) EXCEPT ![Segment(w)].torn = t] :
        n \in 0..Len(recs) - 1, t \in BOOLEAN}

syncFile(f) == [f EXCEPT !.synced = Len(f.recs)]

Sync(w) == [w EXCEPT ![Segment(w)] = syncFile(@)]

\* rotateLocked: the segment is synced before the next one is started.
Rotate(w) == openSegment(Sync(w), Segment(w) + 1)

DeleteBefore(w, seg) == [s \in {x \in DOMAIN w : x >= seg} |-> w[s]]

\* A power loss keeps of each file what was synced, and any part of the rest.
Survivors(f) ==
    {f} \cup {[recs |-> SubSeq(f.recs, 1, n), synced |-> n, torn |-> n < Len(f.recs) /\ t] :
                 n \in f.synced..Len(f.recs), t \in BOOLEAN}

\* The logs a crash may leave of w; a process that dies loses nothing written.
AfterCrash(w) ==
    {v \in [DOMAIN w -> UNION {Survivors(w[s]) : s \in DOMAIN w}] :
        \A s \in DOMAIN w : v[s] \in Survivors(w[s])}

\* replaySegment refuses damage in any segment but the newest.
Corrupt(w) == \E s \in DOMAIN w : s < Segment(w) /\ w[s].torn

\* What replay is called with: the records, each with its segment.
Replayed(w) ==
    LET upTo[s \in Min(DOMAIN w) - 1..Segment(w)] ==
            IF s \notin DOMAIN w THEN <<>>
            ELSE upTo[s - 1] \o [i \in DOMAIN w[s].recs |-> [seg |-> s, rec |-> w[s].recs[i]]]
    IN  upTo[Segment(w)]

\* Bug: the tail that was replayed is not synced.
Recovered_NoSync(w) == [w EXCEPT ![Segment(w)].torn = FALSE]

\* The end of replaySegment, for the newest segment: a torn tail is cut off, and
\* what was replayed is synced before anyone acts on it.
Recovered(w) == [w EXCEPT ![Segment(w)] = [syncFile(@) EXCEPT !.torn = FALSE]]

\* OpenWAL, after the replay.
OpenWAL(w) == openSegment(Recovered(w), Segment(w) + 1)
=============================================================================
