------------------------- MODULE RaftHandlerProofs --------------------------
(***************************************************************************)
(* The handlers of appends, snapshots and their answers keep TypeOK.       *)
(***************************************************************************)
EXTENDS RaftActionProofs

USE RaftConstants

LEMMA HandleAppendType ==
    ASSUME TypeOK, NEW i \in Server, NEW m \in msgs, HandleAppend(i, m)
    PROVE  TypeOK'
  <1> DEFINE st == store[i]
             c  == commit[i]
             t  == Term(st, m.index)
             lastNew == m.index + Len(m.entries)
             Accept(k) == MsgAppResp(i, m.from, m.term, k, FALSE, 0, 0, m.readID)
             Reject(ct, ci) == MsgAppResp(i, m.from, m.term, 0, TRUE, ct, ci, m.readID)
  <1>1. m \in Message /\ m.type = "App"
    BY DEF TypeOK, HandleAppend
  <1>2. /\ m.from \in Server /\ m.term \in Nat /\ m.index \in Nat /\ m.readID \in Nat
        /\ m.entries \in Seq(Entry) /\ Len(m.entries) \in Nat /\ lastNew \in Nat
    BY <1>1, MessageFields
  <1>3. st \in Store /\ c \in st.snapIdx..LastIndex(st) /\ c \in Nat
    BY DEF TypeOK
  <1>4. /\ st.snapIdx \in Nat /\ LastIndex(st) \in Nat /\ t \in Int
    BY <1>3, IndexType, TermType
  <1>5. /\ BecomeFollower(i, m.term, m.from)
        /\ vote' = [vote EXCEPT ![i] = VoteIn(i, m.term)]
        /\ UNCHANGED <<nextReadID, snapIn, restarts, elected, served>>
    BY DEF HandleAppend
  <1>6. ASSUME NEW k \in Nat
        PROVE  Accept(k) \in Message
    <2>1. Accept(k) \in [type : {"AppResp"}, from : Server, to : Server, term : Nat,
                         index : Nat, reject : BOOLEAN, conflictTerm : Int,
                         conflictIndex : Nat, readID : Nat]
      BY <1>2, <1>6 DEF MsgAppResp
    <2> HIDE DEF Accept
    <2>2. QED
      BY <2>1 DEF Message
  <1>7. ASSUME NEW ct \in Int, NEW ci \in Nat
        PROVE  Reject(ct, ci) \in Message
    BY <1>2 DEF MsgAppResp, Message
  <1>8. SUFFICES /\ msgs' \subseteq Message /\ dups' \in Nat
                 /\ store' \in [Server -> Store]
                 /\ commit' \in [Server -> Nat]
                 /\ \A j \in Server : commit'[j] \in store'[j].snapIdx..LastIndex(store'[j])
                 /\ committed' \in Seq([entry : Entry, by : Nat])
    BY <1>2, <1>5, BecomeFollowerType, VoteInType, ZenonT(20) DEF TypeOK
  <1>9. CASE AppendBelowCommit(i, m)
    <2>1. Receive(m, {Accept(c)}) /\ Advance(i, m.term, store[i], commit[i])
      BY <1>9 DEF HandleAppend, AppendBeyondLast, AppendConflicts, AppendMatches
    <2>2. {Accept(c)} \in SUBSET Message
      BY <1>3, <1>6, ZenonT(20)
    <2> HIDE DEF Accept
    <2>3. QED
      BY <1>2, <2>1, <2>2, ReceiveType, AdvanceSameType, ZenonT(20)
  <1>10. CASE AppendBeyondLast(i, m)
    <2>1. /\ Receive(m, {Reject(0, LastIndex(st) + 1)})
          /\ Advance(i, m.term, store[i], commit[i])
      BY <1>10 DEF HandleAppend, AppendBeyondLast, AppendConflicts, AppendMatches
    <2>2. {Reject(0, LastIndex(st) + 1)} \in SUBSET Message
      <3>1. LastIndex(st) + 1 \in Nat /\ 0 \in Int
        BY <1>4
      <3>2. Reject(0, LastIndex(st) + 1) \in Message
        BY <1>7, <3>1, ZenonT(20)
      <3>3. QED
        BY <3>2, ZenonT(20)
    <2> HIDE DEF Reject
    <2>3. QED
      BY <1>2, <2>1, <2>2, ReceiveType, AdvanceSameType, ZenonT(20)
  <1>11. CASE AppendConflicts(i, m)
    <2>1. /\ Receive(m, {Reject(t, FirstIndexOfTerm(st, m.index, t))})
          /\ Advance(i, m.term, store[i], commit[i])
      BY <1>11 DEF HandleAppend, AppendConflicts
    <2>2. FirstIndexOfTerm(st, m.index, t) \in Nat
      BY <1>2, <1>3, FirstIndexOfTermType
    <2>3. {Reject(t, FirstIndexOfTerm(st, m.index, t))} \in SUBSET Message
      BY <1>4, <1>7, <2>2, ZenonT(20)
    <2> HIDE DEF Reject
    <2>4. QED
      BY <1>2, <2>1, <2>3, ReceiveType, AdvanceSameType, ZenonT(20)
  <1>12. CASE AppendMatches(i, m)
    <2>1. c <= m.index /\ m.index <= LastIndex(st) /\ m.index \in st.snapIdx..LastIndex(st)
      <3>1. ~(m.index < c) /\ ~(m.index > LastIndex(st))
        BY <1>12 DEF AppendMatches, AppendBelowCommit, AppendBeyondLast
      <3> HIDE DEF st, c
      <3>2. QED
        BY <1>2, <1>3, <1>4, <3>1
    <2>2. {Accept(lastNew)} \in SUBSET Message
      BY <1>2, <1>6, ZenonT(20)
    <2>3. Receive(m, {Accept(lastNew)})
      BY <1>12 DEF HandleAppend, AppendMatches, AppendConflicts
    <2> HIDE DEF Accept
    <2>4. msgs' \subseteq Message /\ dups' \in Nat
      BY <2>2, <2>3, ReceiveType
    <2>5. CASE /\ \A j \in 1..Len(m.entries) : ~Lacks(st, m, j)
               /\ Advance(i, m.term, st, NewCommit(c, m))
      <3>1. lastNew <= LastIndex(st)
        <4>1. CASE Len(m.entries) = 0
          BY <1>2, <2>1, <4>1
        <4>2. CASE Len(m.entries) # 0
          <5>1. ~Lacks(st, m, Len(m.entries))
            BY <1>2, <2>5, <4>2
          <5>2. QED
            BY <1>2, <1>4, <5>1 DEF Lacks
        <4>3. QED
          BY <4>1, <4>2
      <3>2. NewCommit(c, m) \in st.snapIdx..LastIndex(st)
        BY <1>1, <1>3, <2>1, <3>1, NewCommitType
      <3> HIDE DEF st, c
      <3>3. QED
        BY <1>2, <1>3, <2>4, <2>5, <3>2, AdvanceType, ZenonT(20)
    <2>6. CASE \E j \in 1..Len(m.entries) :
                  /\ FirstNew(st, m, j)
                  /\ Advance(i, m.term, AppendAt(st, m.index + j,
                                         SubSeq(m.entries, j, Len(m.entries))),
                             NewCommit(c, m))
      <3>1. PICK j \in 1..Len(m.entries) :
                  /\ FirstNew(st, m, j)
                  /\ Advance(i, m.term, AppendAt(st, m.index + j,
                                         SubSeq(m.entries, j, Len(m.entries))),
                             NewCommit(c, m))
        BY <2>6
      <3> DEFINE st1 == AppendAt(st, m.index + j, SubSeq(m.entries, j, Len(m.entries)))
      <3>2. Len(m.entries) \in (j - 1)..Len(m.entries)
        BY <1>2
      <3>3. st1 \in Store /\ st1.snapIdx = st.snapIdx /\ LastIndex(st1) = lastNew
        BY <1>1, <1>3, <2>1, <3>1, <3>2, AppendedType
      <3> HIDE DEF st1
      <3>4. c \in st1.snapIdx..LastIndex(st1)
        BY <1>2, <1>3, <1>4, <2>1, <3>3
      <3>5. NewCommit(c, m) \in st1.snapIdx..LastIndex(st1)
        <4>1. m.index + Len(m.entries) <= LastIndex(st1)
          BY <1>2, <3>3
        <4> HIDE DEF c
        <4>2. QED
          BY <1>1, <2>1, <3>3, <3>4, <4>1, NewCommitType
      <3>6. Advance(i, m.term, st1, NewCommit(c, m))
        BY <3>1 DEF st1
      <3>7. QED
        BY <1>2, <2>4, <3>3, <3>5, <3>6, AdvanceType, ZenonT(20)
    <2>7. QED
      BY <1>12, <2>5, <2>6 DEF HandleAppend, AppendMatches, AppendConflicts
  <1>13. QED
    BY <1>9, <1>10, <1>11, <1>12 DEF AppendConflicts

LEMMA HandleAppendRespType ==
    ASSUME TypeOK, NEW i \in Server, NEW m \in msgs, HandleAppendResp(i, m)
    PROVE  TypeOK'
  <1> DEFINE p    == m.from
             pr   == peer[i][p]
             rounds == Acked(i, p, m.readID)
             done == {r \in rounds : r.acks \in Quorums}
             next == NextAfterReject(store[i], m, pr.match)
             prs  == [peer[i] EXCEPT ![p].next = next]
             back == SendAppends(i, {p}, term[i], store[i], commit[i], prs, 0)
             fwd  == Progress(i, p, m.index, FALSE)
  <1>1. m \in Message /\ m.type = "AppResp"
    BY DEF TypeOK, HandleAppendResp
  <1>2. p \in Server /\ m.index \in Nat
    BY <1>1, MessageFields
  <1>3. /\ term[i] \in Nat /\ store[i] \in Store /\ commit[i] \in Nat
        /\ peer[i] \in [Server -> Peer]
        /\ commit[i] \in store[i].snapIdx..LastIndex(store[i])
    BY DEF TypeOK
  <1>4. rounds \in SUBSET Round
    BY <1>2, AckedType
  <1>5. /\ reads' = [reads EXCEPT ![i] = rounds \ done]
        /\ served' = served \cup {Served(r) : r \in done}
        /\ UNCHANGED <<durable, role, nextReadID, snapIn, restarts, elected>>
    BY DEF HandleAppendResp
  <1>6. served' \subseteq [index : Nat, floor : Nat] /\ reads' \in [Server -> SUBSET Round]
    <2> HIDE DEF rounds
    <2>1. \A r \in done : Served(r) \in [index : Nat, floor : Nat]
      BY <1>4 DEF Served, Round
    <2>2. QED
      BY <1>4, <1>5, <2>1 DEF TypeOK
  <1> HIDE DEF rounds, done
  <1>7. SUFFICES /\ msgs' \subseteq Message /\ dups' \in Nat
                 /\ peer' \in [Server -> [Server -> Peer]]
                 /\ store' \in [Server -> Store]
                 /\ commit' \in [Server -> Nat]
                 /\ \A j \in Server : commit'[j] \in store'[j].snapIdx..LastIndex(store'[j])
                 /\ committed' \in Seq([entry : Entry, by : Nat])
    BY <1>5, <1>6, ZenonT(20) DEF TypeOK, durable, role
  <1>8. CASE InTransfer(pr)
    <2>1. /\ Receive(m, {}) /\ UNCHANGED peer
          /\ Advance(i, term[i], store[i], commit[i])
      BY <1>8 DEF HandleAppendResp
    <2>2. msgs' \subseteq Message /\ dups' \in Nat
      BY <2>1, ReceiveType
    <2>3. peer' \in [Server -> [Server -> Peer]]
      BY <2>1 DEF TypeOK
    <2>4. QED
      BY <1>3, <2>1, <2>2, <2>3, AdvanceSameType, ZenonT(20)
  <1>9. CASE ~InTransfer(pr) /\ m.reject
    <2>1. /\ Receive(m, back.msgs)
          /\ peer' = [peer EXCEPT ![i] = back.peer]
          /\ Advance(i, term[i], store[i], commit[i])
      BY <1>9 DEF HandleAppendResp
    <2>2. next \in Nat \ {0}
      <3>1. pr.match \in Nat
        BY <1>2, <1>3 DEF Peer
      <3>2. QED
        BY <1>1, <1>3, <3>1, NextAfterRejectType
    <2>3. prs \in [Server -> Peer]
      <3> HIDE DEF next
      <3>1. [peer[i][p] EXCEPT !.next = next] \in Peer
        BY <1>2, <1>3, <2>2 DEF Peer
      <3>2. QED
        BY <1>2, <1>3, <3>1
    <2> HIDE DEF prs
    <2>4. back.msgs \in SUBSET Message /\ back.peer \in [Server -> Peer]
      BY <1>2, <1>3, <2>3, SendAppendsType, ZenonT(20)
    <2> HIDE DEF back
    <2>5. msgs' \subseteq Message /\ dups' \in Nat
      BY <2>1, <2>4, ReceiveType
    <2>6. peer' \in [Server -> [Server -> Peer]]
      BY <2>1, <2>4 DEF TypeOK
    <2>7. QED
      BY <1>3, <2>1, <2>5, <2>6, AdvanceSameType, ZenonT(20)
  <1>10. CASE ~InTransfer(pr) /\ ~m.reject
    <2>1. /\ Receive(m, fwd.sent.msgs)
          /\ peer' = [peer EXCEPT ![i] = fwd.sent.peer]
          /\ Advance(i, term[i], store[i], fwd.commit)
      BY <1>10, ZenonT(20) DEF HandleAppendResp
    <2>2. /\ fwd.commit \in store[i].snapIdx..LastIndex(store[i])
          /\ fwd.sent.msgs \in SUBSET Message
          /\ fwd.sent.peer \in [Server -> Peer]
      BY <1>2, ProgressType, ZenonT(20)
    <2> HIDE DEF fwd
    <2>3. msgs' \subseteq Message /\ dups' \in Nat
      BY <2>1, <2>2, ReceiveType
    <2>4. peer' \in [Server -> [Server -> Peer]]
      BY <2>1, <2>2 DEF TypeOK
    <2>5. QED
      BY <1>3, <2>1, <2>2, <2>3, <2>4, AdvanceType, ZenonT(20)
  <1>11. QED
    BY <1>8, <1>9, <1>10

LEMMA HandleSnapshotType ==
    ASSUME TypeOK, NEW i \in Server, NEW m \in msgs, HandleSnapshot(i, m)
    PROVE  TypeOK'
  <1> DEFINE c  == commit[i]
             in == IF m.offset = 0
                   THEN [index |-> m.index, term |-> m.logTerm, data |-> <<>>, offset |-> 0]
                   ELSE snapIn[i]
             known  == in.index = m.index
             expect == IF known THEN Len(in.data) ELSE 0
             all    == in.data \o m.data
             r      == ~known \/ m.offset > expect
             Resp(k, off, reject, done) ==
                 {MsgSnapResp(i, m.from, m.term, k, off, reject, done)}
  <1>1. m \in Message /\ m.type = "Snap"
    BY DEF TypeOK, HandleSnapshot
  <1>2. /\ m.from \in Server /\ m.term \in Nat /\ m.index \in Nat /\ m.logTerm \in Int
        /\ m.data \in Seq(Entry) /\ Len(m.data) \in Nat /\ m.offset \in Nat
        /\ m.offset + Len(m.data) <= m.index
    BY <1>1, MessageFields
  <1>3. /\ store[i] \in Store /\ c \in Nat /\ c \in store[i].snapIdx..LastIndex(store[i])
        /\ snapIn[i] \in Incoming
    BY DEF TypeOK
  <1>4. in \in Incoming
    <2>1. [index |-> m.index, term |-> m.logTerm, data |-> <<>>, offset |-> 0] \in Incoming
      BY <1>2 DEF Incoming, Transfers
    <2>2. QED
      BY <1>3, <2>1
  <1>5. expect \in Nat /\ expect <= m.index /\ r \in BOOLEAN
    <2> HIDE DEF in
    <2>1. QED
      BY <1>2, <1>4 DEF Incoming, Transfers
  <1>6. /\ BecomeFollower(i, m.term, m.from)
        /\ vote' = [vote EXCEPT ![i] = VoteIn(i, m.term)]
        /\ UNCHANGED <<nextReadID, restarts, elected, served>>
    BY DEF HandleSnapshot
  <1>7. \/ /\ Receive(m, Resp(c, 0, FALSE, TRUE))
           /\ Advance(i, m.term, store[i], c)
           /\ UNCHANGED snapIn
        \/ /\ Receive(m, Resp(m.index, expect, r, FALSE))
           /\ Advance(i, m.term, store[i], c)
           /\ UNCHANGED snapIn
        \/ /\ Placed(in, m)
           /\ snapIn' = [snapIn EXCEPT ![i] = [in EXCEPT !.data = all]]
           /\ Receive(m, Resp(m.index, Len(all), FALSE, FALSE))
           /\ Advance(i, m.term, store[i], c)
        \/ /\ m.index > c
           /\ Placed(in, m)
           /\ m.done
           /\ snapIn' = [snapIn EXCEPT ![i] = NoTransfer]
           /\ Receive(m, Resp(m.index, 0, FALSE, TRUE))
           /\ Advance(i, m.term, Compact(store[i], in.index, in.term, all), in.index)
    BY ZenonT(20) DEF HandleSnapshot
  <1>8. SUFFICES /\ msgs' \subseteq Message /\ dups' \in Nat
                 /\ snapIn' \in [Server -> Incoming]
                 /\ store' \in [Server -> Store]
                 /\ commit' \in [Server -> Nat]
                 /\ \A j \in Server : commit'[j] \in store'[j].snapIdx..LastIndex(store'[j])
                 /\ committed' \in Seq([entry : Entry, by : Nat])
    BY <1>2, <1>6, BecomeFollowerType, VoteInType, ZenonT(20) DEF TypeOK
  <1>10. /\ Resp(c, 0, FALSE, TRUE) \in SUBSET Message
         /\ Resp(m.index, 0, FALSE, TRUE) \in SUBSET Message
    <2>1. ASSUME NEW k \in Nat
          PROVE  MsgSnapResp(i, m.from, m.term, k, 0, FALSE, TRUE) \in Message
      <3>1. 0 \in Nat /\ 0 <= k
        BY <2>1
      <3>2. FALSE \in BOOLEAN /\ TRUE \in BOOLEAN
        BY ZenonT(20)
      <3>3. QED
        BY <1>2, <2>1, <3>1, <3>2, MsgSnapRespType, ZenonT(20)
    <2>2. QED
      BY <1>2, <1>3, <2>1, ZenonT(20)
  <1>11. ASSUME Placed(in, m)
         PROVE  /\ in.index = m.index /\ m.offset = Len(in.data)
                /\ in.term \in Int /\ in.index \in Nat
                /\ all \in Seq(Entry) /\ Len(all) = m.offset + Len(m.data)
                /\ Len(all) \in Nat /\ Len(all) <= m.index
    <2> HIDE DEF in
    <2>1. /\ in.index = m.index /\ m.offset = Len(in.data)
          /\ in.data \in Seq(Entry) /\ in.term \in Int /\ in.index \in Nat
      BY <1>4, <1>11 DEF Placed, Incoming, Transfers
    <2>2. all \in Seq(Entry) /\ Len(all) = Len(in.data) + Len(m.data)
      BY <1>2, <2>1
    <2> HIDE DEF all
    <2>3. Len(all) = m.offset + Len(m.data)
      BY <2>1, <2>2
    <2>4. Len(all) \in Nat /\ Len(all) <= m.index
      BY <1>2, <2>3
    <2>5. QED
      BY <2>1, <2>2, <2>3, <2>4, ZenonT(20)
  <1> HIDE DEF in, expect, all, r
  <1>12. CASE /\ Receive(m, Resp(c, 0, FALSE, TRUE))
              /\ Advance(i, m.term, store[i], c)
              /\ UNCHANGED snapIn
    <2> HIDE DEF Resp
    <2>1. msgs' \subseteq Message /\ dups' \in Nat
      BY <1>10, <1>12, ReceiveType, ZenonT(20)
    <2>2. QED
      BY <1>2, <1>12, <2>1, AdvanceSameType, ZenonT(20) DEF TypeOK
  <1>13. CASE /\ Receive(m, Resp(m.index, expect, r, FALSE))
              /\ Advance(i, m.term, store[i], c)
              /\ UNCHANGED snapIn
    <2>1. Resp(m.index, expect, r, FALSE) \in SUBSET Message
      BY <1>2, <1>5 DEF MsgSnapResp, Message
    <2> HIDE DEF Resp
    <2>2. msgs' \subseteq Message /\ dups' \in Nat
      BY <1>13, <2>1, ReceiveType, ZenonT(20)
    <2>3. QED
      BY <1>2, <1>13, <2>2, AdvanceSameType, ZenonT(20) DEF TypeOK
  <1>14. CASE /\ Placed(in, m)
              /\ snapIn' = [snapIn EXCEPT ![i] = [in EXCEPT !.data = all]]
              /\ Receive(m, Resp(m.index, Len(all), FALSE, FALSE))
              /\ Advance(i, m.term, store[i], c)
    <2>1. [in EXCEPT !.data = all] \in Incoming
      BY <1>4, <1>11, <1>14 DEF Incoming, Transfers
    <2>2. Resp(m.index, Len(all), FALSE, FALSE) \in SUBSET Message
      BY <1>2, <1>11, <1>14 DEF MsgSnapResp, Message
    <2> HIDE DEF Resp
    <2>3. msgs' \subseteq Message /\ dups' \in Nat
      BY <1>14, <2>2, ReceiveType, ZenonT(20)
    <2>4. QED
      BY <1>2, <1>14, <2>1, <2>3, AdvanceSameType, ZenonT(20) DEF TypeOK
  <1>15. CASE /\ m.index > c
              /\ Placed(in, m)
              /\ m.done
              /\ snapIn' = [snapIn EXCEPT ![i] = NoTransfer]
              /\ Receive(m, Resp(m.index, 0, FALSE, TRUE))
              /\ Advance(i, m.term, Compact(store[i], in.index, in.term, all), in.index)
    <2> DEFINE st1 == Compact(store[i], in.index, in.term, all)
    <2>1. /\ Len(all) = in.index /\ all \in Seq(Entry)
          /\ in.index = m.index /\ in.index \in Nat /\ in.term \in Int
      <3>1. m.offset + Len(m.data) = m.index
        BY <1>1, <1>15, MessageFields
      <3>2. QED
        BY <1>11, <1>15, <3>1
    <2>2. /\ st1 \in Store
          /\ st1.snapIdx = IF in.index <= store[i].snapIdx THEN store[i].snapIdx ELSE in.index
          /\ in.index <= LastIndex(st1)
      BY <1>3, <2>1, CompactType
    <2> HIDE DEF st1
    <2>3. in.index \in st1.snapIdx..LastIndex(st1)
      <3>1. store[i].snapIdx \in Nat /\ LastIndex(st1) \in Nat /\ store[i].snapIdx <= c
        BY <1>3, <2>2, IndexType
      <3>2. m.index > c
        BY <1>15
      <3>3. QED
        BY <1>3, <2>1, <2>2, <3>1, <3>2
    <2> HIDE DEF Resp
    <2>4. msgs' \subseteq Message /\ dups' \in Nat
      BY <1>10, <1>15, ReceiveType, ZenonT(20)
    <2>5. Advance(i, m.term, st1, in.index) /\ snapIn' = [snapIn EXCEPT ![i] = NoTransfer]
      BY <1>15 DEF st1
    <2>6. QED
      BY <1>2, <2>2, <2>3, <2>4, <2>5, NoPeerType, AdvanceType, ZenonT(20) DEF TypeOK
  <1>16. QED
    BY <1>7, <1>12, <1>13, <1>14, <1>15

LEMMA HandleSnapshotRespType ==
    ASSUME TypeOK, NEW i \in Server, NEW m \in msgs, HandleSnapshotResp(i, m)
    PROVE  TypeOK'
  <1> DEFINE p   == m.from
             x   == peer[i][p].snapOut
             off == IF m.reject THEN 0 ELSE Max2(x.offset, m.offset)
             y   == [x EXCEPT !.offset = off]
             fwd == Progress(i, p, m.index, TRUE)
  <1>1. m \in Message /\ m.type = "SnapResp"
    BY DEF TypeOK, HandleSnapshotResp
  <1>2. p \in Server /\ m.index \in Nat /\ m.offset \in Nat /\ m.offset <= m.index
    BY <1>1, MessageFields
  <1>3. /\ term[i] \in Nat /\ store[i] \in Store /\ peer[i] \in [Server -> Peer]
        /\ commit[i] \in store[i].snapIdx..LastIndex(store[i])
    BY DEF TypeOK
  <1>4. UNCHANGED <<durable, role, reads, nextReadID, snapIn, restarts, elected, served>>
    BY DEF HandleSnapshotResp
  <1>5. SUFFICES /\ msgs' \subseteq Message /\ dups' \in Nat
                 /\ peer' \in [Server -> [Server -> Peer]]
                 /\ store' \in [Server -> Store]
                 /\ commit' \in [Server -> Nat]
                 /\ \A j \in Server : commit'[j] \in store'[j].snapIdx..LastIndex(store'[j])
                 /\ committed' \in Seq([entry : Entry, by : Nat])
    BY <1>4, ZenonT(20) DEF TypeOK, durable, role
  <1>6. CASE m.done
    <2>1. /\ Receive(m, fwd.sent.msgs)
          /\ peer' = [peer EXCEPT ![i] = fwd.sent.peer]
          /\ Advance(i, term[i], store[i], fwd.commit)
      BY <1>6, ZenonT(20) DEF HandleSnapshotResp
    <2>2. /\ fwd.commit \in store[i].snapIdx..LastIndex(store[i])
          /\ fwd.sent.msgs \in SUBSET Message
          /\ fwd.sent.peer \in [Server -> Peer]
      BY <1>2, ProgressType, ZenonT(20)
    <2> HIDE DEF fwd
    <2>3. msgs' \subseteq Message /\ dups' \in Nat
      BY <2>1, <2>2, ReceiveType
    <2>4. peer' \in [Server -> [Server -> Peer]]
      BY <2>1, <2>2 DEF TypeOK
    <2>5. QED
      BY <1>3, <2>1, <2>2, <2>3, <2>4, AdvanceType, ZenonT(20)
  <1>7. CASE ~m.done /\ (x = NoTransfer \/ x.index # m.index)
    <2>1. /\ Receive(m, {}) /\ UNCHANGED peer
          /\ Advance(i, term[i], store[i], commit[i])
      BY <1>7, ZenonT(20) DEF HandleSnapshotResp
    <2>2. msgs' \subseteq Message /\ dups' \in Nat
      BY <2>1, ReceiveType
    <2>3. peer' \in [Server -> [Server -> Peer]]
      BY <2>1 DEF TypeOK
    <2>4. QED
      BY <1>3, <2>1, <2>2, <2>3, AdvanceSameType, ZenonT(20)
  <1>8. CASE ~m.done /\ x # NoTransfer /\ x.index = m.index
    <2>1. /\ Receive(m, {MsgSnap(i, p, term[i], y)})
          /\ peer' = [peer EXCEPT ![i][p].snapOut = y]
          /\ Advance(i, term[i], store[i], commit[i])
      BY <1>8, ZenonT(20) DEF HandleSnapshotResp
    <2>2. x \in Outgoing
      BY <1>2, <1>3 DEF Peer
    <2> HIDE DEF x
    <2>3. off \in Nat /\ off <= x.index
      BY <1>2, <1>8, <2>2 DEF Max2, Outgoing, Transfers
    <2> HIDE DEF off
    <2>4. y \in Outgoing
      BY <2>2, <2>3 DEF Outgoing, Transfers
    <2> HIDE DEF y
    <2>5. {MsgSnap(i, p, term[i], y)} \in SUBSET Message
      BY <1>2, <1>3, <2>4, MsgSnapType
    <2>6. msgs' \subseteq Message /\ dups' \in Nat
      BY <2>1, <2>5, ReceiveType
    <2>7. peer' \in [Server -> [Server -> Peer]]
      <3>1. [peer[i][p] EXCEPT !.snapOut = y] \in Peer
        BY <1>2, <1>3, <2>4 DEF Peer
      <3>2. QED
        BY <1>2, <2>1, <3>1 DEF TypeOK
    <2>8. QED
      BY <1>3, <2>1, <2>6, <2>7, AdvanceSameType, ZenonT(20)
  <1>9. QED
    BY <1>6, <1>7, <1>8, ZenonT(20)
=============================================================================
