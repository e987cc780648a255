------------------------------ MODULE LogStore ------------------------------
(***************************************************************************)
(* The LogStore a Raft node persists through (raft/logstore.go), as values *)
(* and the operations on them.  The store is the one of raft/memstore.go:  *)
(* the entries above the last snapshot, the index and term that snapshot   *)
(* ends at, and its data.  currentTerm and votedFor, which live in the     *)
(* same Go struct, are variables of the modules that use this one.         *)
(*                                                                         *)
(* The data of a snapshot is the state machine's state, and the state      *)
(* machine is taken to be the sequence of entries it has applied: a        *)
(* snapshot at index k is the sequence of the first k entries.  Cutting    *)
(* that sequence into pieces stands for cutting the bytes of the file.     *)
(***************************************************************************)
EXTENDS Integers, Sequences

EmptyStore == [snapIdx |-> 0, snapTerm |-> 0, snap |-> <<>>, entries |-> <<>>]

FirstIndex(s) == s.snapIdx + 1
LastIndex(s) == s.snapIdx + Len(s.entries)

\* What Term returns where the store reports an error, on which raft panics.
ErrTerm == -1

Term(s, k) ==
    IF k = s.snapIdx THEN s.snapTerm
    ELSE IF k \in FirstIndex(s)..LastIndex(s) THEN s.entries[k - s.snapIdx].term
    ELSE ErrTerm

LastTerm(s) == Term(s, LastIndex(s))

\* The entries lo..hi, both included.
Entries(s, lo, hi) == SubSeq(s.entries, lo - s.snapIdx, hi - s.snapIdx)

\* Store.Append(es) with es[1] at index first: what the log held from first on
\* is cut off.
AppendAt(s, first, es) ==
    [s EXCEPT !.entries = SubSeq(s.entries, 1, first - FirstIndex(s)) \o es]

\* Entries above k are kept whatever their terms.
Compact(s, k, t, data) ==
    IF k <= s.snapIdx THEN s
    ELSE [snapIdx  |-> k,
          snapTerm |-> t,
          snap     |-> data,
          entries  |-> IF k <= LastIndex(s)
                       THEN SubSeq(s.entries, k - s.snapIdx + 1, Len(s.entries))
                       ELSE <<>>]

\* The first k entries of the history this store stands for.
PrefixOf(s, k) == s.snap \o SubSeq(s.entries, 1, k - s.snapIdx)
=============================================================================
