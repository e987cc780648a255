----------------------------- MODULE DurableMap -----------------------------
(***************************************************************************)
(* What the storage engine promises its caller: one map from keys to       *)
(* values.  A batch is applied whole and in the order of the calls; a      *)
(* reader sees one state of the map for as long as it reads; a crash takes *)
(* the map back to a state it was in no longer ago than the last sync, or  *)
(* on to what the batches under way were about to make of it.              *)
(***************************************************************************)
EXTENDS Sequences, SequencesExt

CONSTANTS Readers, NoView

VARIABLES
    past,       \* the states a crash may return to, oldest first, and the current one
    pending,    \* the batches under way: what each sets, by key
    view        \* the state each reader sees

vars == <<past, pending, view>>

Set(map, batch) == [k \in DOMAIN map |-> IF k \in DOMAIN batch THEN batch[k] ELSE map[k]]

\* The states map goes through with the first n of batches.
Through(map, batches, n) ==
    LET after[i \in 0..n] == IF i = 0 THEN map ELSE Set(after[i - 1], batches[i])
    IN  [i \in 1..n |-> after[i]]

Init ==
    /\ Len(past) = 1
    /\ pending = <<>>
    /\ view = [r \in Readers |-> NoView]

Call ==
    /\ pending' # <<>> /\ pending = Front(pending')
    /\ UNCHANGED <<past, view>>

\* The first n batches return; what is kept of the past may be settled by it.
Return ==
    /\ \E n \in 1..Len(pending) :
           /\ pending' = SubSeq(pending, n + 1, Len(pending))
           /\ LET all == past \o Through(Last(past), pending, n)
              IN  \E d \in 1..Len(all) : past' = SubSeq(all, d, Len(all))
    /\ UNCHANGED view

\* What is synced is not lost any more, and readers leave; a close does both.
Settle ==
    /\ \E d \in 1..Len(past) : past' = SubSeq(past, d, Len(past))
    /\ \A r \in Readers : view'[r] \in {view[r], NoView}
    /\ UNCHANGED pending

Look ==
    /\ \E r \in Readers : view[r] = NoView /\ view' = [view EXCEPT ![r] = Last(past)]
    /\ UNCHANGED <<past, pending>>

Recover ==
    /\ \E m \in Range(past \o Through(Last(past), pending, Len(pending))) : past' = <<m>>
    /\ pending' = <<>>
    /\ view' = [r \in Readers |-> NoView]

Next == Call \/ Return \/ Settle \/ Look \/ Recover

Spec == Init /\ [][Next]_vars
=============================================================================
