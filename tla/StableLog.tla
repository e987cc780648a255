----------------------------- MODULE StableLog ------------------------------
(***************************************************************************)
(* What a LogStore promises the Raft node above it over crashes            *)
(* (raft/logstore.go): a call that returned is never undone, and a crash   *)
(* inside a call leaves it undone or done, or, for an append of several    *)
(* entries, done for the first few of them.  Raft assumes this of the      *)
(* store of every node; DiskStore is shown to implement it.                *)
(***************************************************************************)
EXTENDS LogStore

VARIABLES
    stable,     \* the log, currentTerm and votedFor
    call        \* the call that has not returned

NoCall == [op |-> "none"]

\* The data of a snapshot is its index.
After(s, c) ==
    CASE c.op = "append"  -> [s EXCEPT !.log = AppendAt(@, c.first, c.es)]
      [] c.op = "state"   -> [s EXCEPT !.term = c.term, !.vote = c.vote]
      [] c.op = "compact" -> [s EXCEPT !.log = Compact(@, c.idx, c.term, c.idx)]

\* Where a crash inside a call may leave the store.
Cut(s, c) ==
    {s} \cup (IF c.op = "append"
              THEN {After(s, [c EXCEPT !.es = SubSeq(@, 1, n)]) : n \in 1..Len(c.es)}
              ELSE IF c.op = "none" THEN {} ELSE {After(s, c)})

Init ==
    /\ stable = [log |-> [EmptyStore EXCEPT !.snap = 0], term |-> 0, vote |-> 0]
    /\ call = NoCall

Invoke ==
    /\ call = NoCall
    /\ call' # NoCall
    /\ UNCHANGED stable

Return ==
    /\ call # NoCall
    /\ stable' = After(stable, call)
    /\ call' = NoCall

Fail ==
    /\ stable' \in Cut(stable, call)
    /\ call' = NoCall

Next == Invoke \/ Return \/ Fail

Spec == Init /\ [][Next]_<<stable, call>>
=============================================================================
