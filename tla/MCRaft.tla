------------------------------- MODULE MCRaft -------------------------------
(***************************************************************************)
(* Raft for TLC: symmetry, and states that an execution reaches only after *)
(* many steps, from which runs with small bounds start.                    *)
(***************************************************************************)
EXTENDS Raft, TLC

CONSTANTS s1, s2, s3

Symmetry == Permutations(Server) \cup Permutations(Value)

\* d[i] is what i has on disk, es the entries committed, all in the term by, and ms
\* the messages in flight.  s1 is the leader of f, whose match it knows to be m, unless
\* f is None; for the rest every process is as a restart leaves it.
Quiet(d, es, by, wins, ms, f, m) ==
    /\ term = [i \in Server |-> d[i].term]
    /\ vote = [i \in Server |-> d[i].vote]
    /\ store = [i \in Server |-> d[i].store]
    /\ commit = [i \in Server |-> d[i].store.snapIdx]
    /\ state = [i \in Server |-> IF f # None /\ i = s1 THEN "leader" ELSE "follower"]
    /\ lead = [i \in Server |-> IF f # None /\ i \in {s1, f} THEN s1 ELSE None]
    /\ votes = [i \in Server |-> IF f = None \/ i # s1 THEN NoVotes
                                 ELSE [NoVotes EXCEPT ![s1] = "granted", ![f] = "granted"]]
    /\ LET n == LastIndex(d[s1].store)
           seen == [p \in Server |-> [NoPeer EXCEPT !.next = IF p = s1 THEN n ELSE n + 1,
                                                    !.match = CASE p = s1 -> n
                                                                [] p = f  -> m
                                                                [] OTHER  -> 0]]
       IN  peer = [i \in Server |-> IF f = None \/ i # s1 THEN NoPeers ELSE seen]
    /\ reads = [i \in Server |-> {}]
    /\ nextReadID = [i \in Server |-> 0]
    /\ snapIn = [i \in Server |-> NoTransfer]
    /\ msgs = ms
    /\ dups = 0
    /\ restarts = 0
    /\ committed = [k \in 1..Len(es) |-> [entry |-> es[k], by |-> by]]
    /\ elected = wins
    /\ served = {}

\* Every process has just been restarted.
Rested(d, es, by, wins, ms) == Quiet(d, es, by, wins, ms, None, 0)

Leading(t) == [term |-> t, val |-> Noop]
Disk(t, v, es) == [term |-> t, vote |-> v, store |-> [EmptyStore EXCEPT !.entries = es]]

\* Two leaders that reached nobody, and a third.  s1 won term 1 with the vote of s3;
\* s2 stood in term 1, and won term 2 with the vote of s3.  Each wrote its own no-op at
\* index 1, and lost the messages that carried it.  Both stood in term 3, and
\* s1 won with the vote of s3, which refused the first append; its answer is on the way,
\* and the append to s2 lost.
DivergedInit ==
    Quiet(s1 :> Disk(3, s1, <<Leading(1), Leading(3)>>) @@ s2 :> Disk(3, s2, <<Leading(2)>>)
             @@ s3 :> Disk(3, s1, <<>>),
          <<>>, 0, {<<1, s1>>, <<2, s2>>, <<3, s1>>},
          {MsgAppResp(s3, s1, 3, 0, TRUE, 0, 1, 0)}, s3, 0)

\* A leader in office.  s1 won term 3 with the vote of s2, and committed its no-op with
\* it and compacted it away; s3 has stood in every term so far, and heard from nobody.
LedInit ==
    LET es == <<Leading(3)>>
    IN  Quiet(s1 :> [term |-> 3, vote |-> s1,
                     store |-> Compact(AppendAt(EmptyStore, 1, es), 1, 3, es)]
                 @@ s2 :> Disk(3, s1, es) @@ s3 :> Disk(3, s3, <<>>),
              es, 3, {<<3, s1>>}, {}, s2, 1)

\* A member left behind.  s3 won the term before t with the vote of s2, and
\* appended three entries that reached nobody; s1 won the term t with the vote of
\* s2, committed two entries with it, and compacted them away.
Val == CHOOSE v \in Value : TRUE
Payload(t) == [term |-> t, val |-> Val]
Behind(t, d2, d3) ==
    LET es == <<Leading(t), Payload(t)>>
    IN  Rested(s1 :> [term |-> t, vote |-> s1,
                      store |-> Compact(AppendAt(EmptyStore, 1, es), 2, t, es)]
                  @@ s2 :> Disk(d2.term, d2.vote, es)
                  @@ s3 :> Disk(d3.term, d3.vote,
                                <<Leading(t - 1), Payload(t - 1), Payload(t - 1)>>),
               es, t, {<<t - 1, s3>>, <<t, s1>>}, {})

\* Any of them, each with one more term to come.
PreparedSpec ==
    /\ \/ DivergedInit
       \/ LedInit
       \/ Behind(3, [term |-> 3, vote |-> s1], [term |-> 2, vote |-> s3])
    /\ [][Next]_vars

\* The last with t = 2, after s3 has stood in terms 2 and 3, and lost: s2 refused
\* it the second time.  Only s1 can stand up to term 3 now.
StableSpec ==
    /\ Behind(2, [term |-> 3, vote |-> None], [term |-> 3, vote |-> s3])
    /\ [][Next]_vars
    /\ Fairness

\* A read cut short.  s1 won term 1 with the vote of s2, committed its no-op with
\* it, and opened a read round; its message to s3 is still on the way.
ReadCutShortInit ==
    Rested(s1 :> Disk(1, s1, <<Leading(1)>>) @@ s2 :> Disk(1, s1, <<Leading(1)>>)
              @@ s3 :> Disk(0, None, <<>>),
           <<Leading(1)>>, 1, {<<1, s1>>},
           {MsgApp(s1, s3, 1, 1, 1, <<>>, 1, 1)})
ReadCutShortSpec == ReadCutShortInit /\ [][Next]_vars
=============================================================================
