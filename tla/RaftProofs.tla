----------------------------- MODULE RaftProofs -----------------------------
(***************************************************************************)
(* Raft is type-correct: TypeOK holds in every reachable state, for every  *)
(* group, every batch and chunk size and every snapshot threshold.         *)
(***************************************************************************)
EXTENDS RaftHandlerProofs

USE RaftConstants

\* A restart finds a state machine that has applied at least the snapshot, and
\* at most what had been committed and is in the log on disk.
LEMMA CrashType ==
    ASSUME TypeOK, NEW i \in Server, NEW t \in Nat, NEW v \in Server \cup {None},
           NEW st \in Store, st.snapIdx = store[i].snapIdx, commit[i] <= LastIndex(st),
           Crash(i, t, v, st), msgs' \subseteq Message, dups' \in Nat,
           elected' \subseteq Nat \X Server
    PROVE  TypeOK'
  <1>a. /\ store \in [Server -> Store] /\ commit \in [Server -> Nat]
        /\ \A j \in Server : commit[j] \in store[j].snapIdx..LastIndex(store[j])
    BY DEF TypeOK
  <1>b. store[i].snapIdx \in Nat /\ LastIndex(store[i]) \in Nat
    BY <1>a, IndexType
  <1>1. /\ commit[i] \in Nat /\ store[i].snapIdx <= commit[i] /\ store \in [Server -> Store]
        /\ commit \in [Server -> Nat]
        /\ \A j \in Server : commit[j] \in store[j].snapIdx..LastIndex(store[j])
    BY <1>a, <1>b
  <1>2. /\ st.snapIdx \in Nat /\ LastIndex(st) \in Nat /\ FirstIndex(st) = st.snapIdx + 1
        /\ st.snapIdx <= LastIndex(st)
    BY IndexType
  <1>3. PICK a \in {st.snapIdx} \cup
               {k \in FirstIndex(st)..commit[i] : Entries(st, k, k)[1].val # Noop} :
          commit' = [commit EXCEPT ![i] = a]
    BY ZenonT(20) DEF Crash
  <1>4. a \in Nat /\ a \in st.snapIdx..LastIndex(st)
    <2>1. CASE a = st.snapIdx
      BY <1>2, <2>1
    <2>2. CASE a \in FirstIndex(st)..commit[i]
      BY <1>1, <1>2, <2>2
    <2>3. QED
      BY <2>1, <2>2
  <1>5. store' = [store EXCEPT ![i] = st]
    BY DEF Crash
  <1>6. /\ store' \in [Server -> Store] /\ commit' \in [Server -> Nat]
        /\ \A j \in Server : commit'[j] \in store'[j].snapIdx..LastIndex(store'[j])
    <2>1. ASSUME NEW j \in Server
          PROVE  commit'[j] \in store'[j].snapIdx..LastIndex(store'[j])
      <3>1. CASE j = i
        <4>1. store'[j] = st /\ commit'[j] = a
          BY <1>1, <1>3, <1>5, <3>1
        <4>2. QED
          BY <1>4, <4>1
      <3>2. CASE j # i
        <4>1. store'[j] = store[j] /\ commit'[j] = commit[j]
          BY <1>1, <1>3, <1>5, <3>2
        <4>2. QED
          BY <1>1, <4>1
      <3>3. QED
        BY <3>1, <3>2
    <2>2. QED
      BY <1>1, <1>3, <1>4, <1>5, <2>1
  <1>7. /\ restarts' = restarts + 1
        /\ term' = [term EXCEPT ![i] = t]
        /\ vote' = [vote EXCEPT ![i] = v]
        /\ state' = [state EXCEPT ![i] = "follower"]
        /\ lead' = [lead EXCEPT ![i] = None]
        /\ votes' = [votes EXCEPT ![i] = NoVotes]
        /\ peer' = [peer EXCEPT ![i] = NoPeers]
        /\ reads' = [reads EXCEPT ![i] = {}]
        /\ nextReadID' = [nextReadID EXCEPT ![i] = 0]
        /\ snapIn' = [snapIn EXCEPT ![i] = NoTransfer]
        /\ UNCHANGED <<committed, served>>
    BY DEF Crash
  <1>8. /\ term' \in [Server -> Nat] /\ vote' \in [Server -> Server \cup {None}]
        /\ state' \in [Server -> {"follower", "candidate", "leader"}]
        /\ lead' \in [Server -> Server \cup {None}]
        /\ votes' \in [Server -> [Server -> {"none", "granted", "denied"}]]
        /\ nextReadID' \in [Server -> Nat] /\ restarts' \in Nat
    <2>1. term' \in [Server -> Nat] /\ vote' \in [Server -> Server \cup {None}]
      BY <1>7 DEF TypeOK
    <2>2. /\ state' \in [Server -> {"follower", "candidate", "leader"}]
          /\ lead' \in [Server -> Server \cup {None}]
      BY <1>7 DEF TypeOK
    <2>3. votes' \in [Server -> [Server -> {"none", "granted", "denied"}]]
      BY <1>7 DEF TypeOK, NoVotes
    <2>4. nextReadID' \in [Server -> Nat] /\ restarts' \in Nat
      BY <1>7 DEF TypeOK
    <2>5. QED
      BY <2>1, <2>2, <2>3, <2>4
  <1>9. peer' \in [Server -> [Server -> Peer]] /\ reads' \in [Server -> SUBSET Round]
    BY <1>7, NoPeerType, ZenonT(20) DEF TypeOK
  <1>10. snapIn' \in [Server -> Incoming]
    BY <1>7, NoPeerType DEF TypeOK
  <1>11. QED
    BY <1>6, <1>7, <1>8, <1>9, <1>10, ZenonT(20) DEF TypeOK

LEMMA CrashesType ==
    ASSUME TypeOK, NEW i \in Server, Crashes(i)
    PROVE  TypeOK'
  <1>1. /\ term[i] \in Nat /\ vote[i] \in Server \cup {None} /\ store[i] \in Store
        /\ commit[i] \in Nat /\ commit[i] <= LastIndex(store[i])
        /\ commit[i] \in store[i].snapIdx..LastIndex(store[i])
        /\ peer[i] \in [Server -> Peer]
        /\ msgs \subseteq Message /\ dups \in Nat /\ elected \subseteq Nat \X Server
    BY DEF TypeOK
  <1>2. CASE Restart(i)
    <2>1. Crash(i, term[i], vote[i], store[i]) /\ UNCHANGED <<msgs, dups, elected>>
      BY <1>2 DEF Restart
    <2>2. QED
      BY <1>1, <2>1, CrashType
  <1>3. ASSUME NEW m \in msgs, CrashInStep(i, m)
        PROVE  TypeOK'
    <2>1. m.term \in Nat
      BY <1>1, MessageFields
    <2>2. Crash(i, m.term, None, store[i]) /\ Receive(m, {}) /\ UNCHANGED elected
      BY <1>3 DEF CrashInStep
    <2>3. msgs' \subseteq Message /\ dups' \in Nat
      BY <2>2, ReceiveType
    <2>4. QED
      BY <1>1, <2>1, <2>2, <2>3, CrashType
  <1>4. ASSUME NEW m \in msgs, CrashInHandleAppend(i, m)
        PROVE  TypeOK'
    <2>1. m \in Message /\ m.type = "App" /\ AppendMatches(i, m)
      BY <1>1, <1>4 DEF CrashInHandleAppend
    <2>2. m.term \in Nat /\ m.index \in Nat /\ m.entries \in Seq(Entry) /\ Len(m.entries) \in Nat
      BY <2>1, MessageFields
    <2>a. PICK j \in 1..Len(m.entries) : \E k \in j..(Len(m.entries) - 1) :
             /\ FirstNew(store[i], m, j)
             /\ Crash(i, m.term, VoteIn(i, m.term),
                      AppendAt(store[i], m.index + j, SubSeq(m.entries, j, k)))
      BY <1>4 DEF CrashInHandleAppend
    <2>3. PICK k \in j..(Len(m.entries) - 1) :
             /\ FirstNew(store[i], m, j)
             /\ Crash(i, m.term, VoteIn(i, m.term),
                      AppendAt(store[i], m.index + j, SubSeq(m.entries, j, k)))
      BY <2>a
    <2> DEFINE st1 == AppendAt(store[i], m.index + j, SubSeq(m.entries, j, k))
    <2>4. /\ m.index \in store[i].snapIdx..LastIndex(store[i])
          /\ commit[i] <= m.index
      <3>1. store[i].snapIdx \in Nat /\ LastIndex(store[i]) \in Nat
        BY <1>1, IndexType
      <3>2. QED
        BY <1>1, <2>1, <2>2, <3>1 DEF AppendMatches, AppendBelowCommit, AppendBeyondLast
    <2>5. k \in (j - 1)..Len(m.entries) /\ k \in Nat
      BY <2>2
    <2>6. st1 \in Store /\ st1.snapIdx = store[i].snapIdx /\ LastIndex(st1) = m.index + k
      BY <1>1, <2>1, <2>3, <2>4, <2>5, AppendedType, SMTT(30)
    <2>7. Crash(i, m.term, VoteIn(i, m.term), st1)
      BY <2>3
    <2> HIDE DEF st1
    <2>8. commit[i] <= LastIndex(st1)
      BY <1>1, <2>2, <2>4, <2>5, <2>6
    <2>9. Receive(m, {}) /\ UNCHANGED elected
      BY <1>4 DEF CrashInHandleAppend
    <2>10. msgs' \subseteq Message /\ dups' \in Nat
      BY <2>9, ReceiveType
    <2>11. VoteIn(i, m.term) \in Server \cup {None}
      BY VoteInType
    <2>12. QED
      BY <1>1, <2>2, <2>6, <2>7, <2>8, <2>9, <2>10, <2>11, CrashType
  <1>5. ASSUME NEW m \in msgs, CrashInBecomeLeader(i, m)
        PROVE  TypeOK'
    <2> DEFINE early == Elected(i, term[i]).early
    <2>1. /\ Crash(i, term[i], vote[i], store[i]) /\ Receive(m, early)
          /\ elected' = elected \cup {<<term[i], i>>}
      BY <1>5 DEF CrashInBecomeLeader
    <2>2. early \in SUBSET Message
      BY <1>1, ElectedType
    <2> HIDE DEF early
    <2>3. msgs' \subseteq Message /\ dups' \in Nat
      BY <2>1, <2>2, ReceiveType
    <2>4. elected' \subseteq Nat \X Server
      <3>1. <<term[i], i>> \in Nat \X Server
        BY <1>1
      <3>2. QED
        BY <1>1, <2>1, <3>1
    <2>5. QED
      BY <1>1, <2>1, <2>3, <2>4, CrashType
  <1>6. ASSUME NEW vals \in Seq(Value), CrashInPropose(i, vals)
        PROVE  TypeOK'
    <2> DEFINE es == [k \in 1..Len(vals) |-> [term |-> term[i], val |-> vals[k]]]
               early == AppendEntries(i, term[i], store[i], commit[i], peer[i], es).early
               last == LastIndex(store[i])
    <2>1. es \in Seq(Entry) /\ Len(es) = Len(vals) /\ Len(vals) \in Nat
      <3>1. term[i] \in Nat /\ \A k \in 1..Len(vals) : vals[k] \in Value
        BY <1>1
      <3>2. \A k \in 1..Len(vals) : [term |-> term[i], val |-> vals[k]] \in Entry
        BY <3>1 DEF Entry
      <3>3. QED
        BY <3>2
    <2>2. PICK k \in 0..(Len(vals) - 1) :
             Crash(i, term[i], vote[i], AppendAt(store[i], last + 1, SubSeq(es, 1, k)))
      BY <1>6, ZenonT(20) DEF CrashInPropose
    <2>3. Send(early) /\ UNCHANGED elected
      BY <1>6 DEF CrashInPropose
    <2> HIDE DEF es
    <2>4. early \in SUBSET Message
      BY <1>1, <2>1, AppendEntriesType, ZenonT(20)
    <2> HIDE DEF early
    <2>5. msgs' \subseteq Message /\ dups' \in Nat
      BY <2>3, <2>4, SendType
    <2> DEFINE sub == SubSeq(es, 1, k)
               st1 == AppendAt(store[i], last + 1, sub)
    <2>6. sub \in Seq(Entry) /\ Len(sub) \in Nat
      BY <2>1
    <2>7. last \in Nat /\ last + 1 \in FirstIndex(store[i])..(last + 1)
      <3>1. /\ last \in Nat /\ FirstIndex(store[i]) = store[i].snapIdx + 1
            /\ store[i].snapIdx \in Nat /\ store[i].snapIdx <= last
        BY <1>1, IndexType
      <3> HIDE DEF last
      <3>2. QED
        BY <3>1
    <2> HIDE DEF sub
    <2>8. /\ st1 \in Store /\ st1.snapIdx = store[i].snapIdx
          /\ LastIndex(st1) = (last + 1) - 1 + Len(sub)
      BY <1>1, <2>6, <2>7, AppendAtType
    <2>9. Crash(i, term[i], vote[i], st1)
      BY <2>2 DEF sub
    <2> HIDE DEF st1
    <2>10. commit[i] <= LastIndex(st1)
      <3> HIDE DEF last
      <3>1. commit[i] <= last
        BY <1>1 DEF last
      <3>2. QED
        BY <1>1, <2>6, <2>7, <2>8, <3>1
    <2>11. QED
      BY <1>1, <2>3, <2>5, <2>8, <2>9, <2>10, CrashType
  <1>7. \A vals \in Batches : vals \in Seq(Value)
    BY SeqDef DEF Batches
  <1>8. QED
    BY <1>2, <1>3, <1>4, <1>5, <1>6, <1>7 DEF Crashes

LEMMA InitType == Init => TypeOK
  <1>1. EmptyStore \in Store
    BY DEF EmptyStore, Store
  <1>2. EmptyStore.snapIdx = 0 /\ LastIndex(EmptyStore) = 0
    BY DEF EmptyStore, LastIndex
  <1>3. QED
    BY <1>1, <1>2, NoPeerType DEF Init, TypeOK

LEMMA NextType == TypeOK /\ [Next]_vars => TypeOK'
  <1> SUFFICES ASSUME TypeOK, [Next]_vars
               PROVE  TypeOK'
    OBVIOUS
  <1>1. \A vals \in Batches : vals \in Seq(Value)
    BY SeqDef DEF Batches
  <1>2. ASSUME NEW i \in Server, Timeout(i)
        PROVE  TypeOK'
    BY <1>2, TimeoutType
  <1>3. ASSUME NEW i \in Server, Heartbeat(i)
        PROVE  TypeOK'
    BY <1>3, HeartbeatType
  <1>4. ASSUME NEW i \in Server, NEW vals \in Batches, Propose(i, vals)
        PROVE  TypeOK'
    BY <1>1, <1>4, ProposeType
  <1>5. ASSUME NEW i \in Server, ReadIndex(i)
        PROVE  TypeOK'
    BY <1>5, ReadIndexType
  <1>6. ASSUME NEW i \in Server, NEW m \in msgs, HandleStale(i, m) \/ Handle(i, m)
        PROVE  TypeOK'
    BY <1>6, HandleStaleType, HandleNewerRespType, HandleUnexpectedRespType, HandleVoteType,
       HandleVoteRespType, HandleAppendType, HandleAppendRespType, HandleSnapshotType,
       HandleSnapshotRespType DEF Handle
  <1>7. ASSUME NEW i \in Server, Crashes(i)
        PROVE  TypeOK'
    BY <1>7, CrashesType
  <1>8. CASE UNCHANGED vars
    BY <1>8 DEF vars, TypeOK
  <1>9. QED
    BY <1>2, <1>3, <1>4, <1>5, <1>6, <1>7, <1>8 DEF Next, Step

\* In every reachable state every variable has its type, the commit index is
\* inside the log (NewNode, maybeCommit, handleAppend, maybeSnapshot), and every
\* chunk of a snapshot inside its snapshot (sendChunk, handleSnapshot).
THEOREM TypeCorrect == Spec => []TypeOK
  BY InitType, NextType, PTL DEF Spec
=============================================================================
