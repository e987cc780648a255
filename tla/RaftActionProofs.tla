-------------------------- MODULE RaftActionProofs --------------------------
(***************************************************************************)
(* The actions of Raft up to the votes keep TypeOK, and what handleAppend  *)
(* appends is a log.                                                       *)
(***************************************************************************)
EXTENDS RaftOperatorProofs

USE RaftConstants

\* One lemma per action.

LEMMA BecomeFollowerType ==
    ASSUME TypeOK, NEW i \in Server, NEW t \in Nat, NEW l \in Server \cup {None},
           BecomeFollower(i, t, l)
    PROVE  /\ term' \in [Server -> Nat]
           /\ state' \in [Server -> {"follower", "candidate", "leader"}]
           /\ lead' \in [Server -> Server \cup {None}]
           /\ votes' \in [Server -> [Server -> {"none", "granted", "denied"}]]
           /\ peer' \in [Server -> [Server -> Peer]]
           /\ reads' \in [Server -> SUBSET Round]
  BY NoPeerType, ZenonT(20) DEF BecomeFollower, TypeOK

LEMMA BecomeLeaderType ==
    ASSUME TypeOK, NEW i \in Server, NEW t \in Nat, BecomeLeader(i, t)
    PROVE  /\ state' \in [Server -> {"follower", "candidate", "leader"}]
           /\ lead' \in [Server -> Server \cup {None}]
           /\ peer' \in [Server -> [Server -> Peer]]
           /\ reads' \in [Server -> SUBSET Round]
           /\ elected' \subseteq Nat \X Server
           /\ store' \in [Server -> Store]
           /\ commit' \in [Server -> Nat]
           /\ \A j \in Server : commit'[j] \in store'[j].snapIdx..LastIndex(store'[j])
           /\ committed' \in Seq([entry : Entry, by : Nat])
  <1> DEFINE a == Elected(i, t)
  <1>1. /\ a.store \in Store /\ a.peer \in [Server -> Peer]
        /\ a.commit \in a.store.snapIdx..LastIndex(a.store)
    BY ElectedType
  <1>2. /\ state' = [state EXCEPT ![i] = "leader"]
        /\ lead' = [lead EXCEPT ![i] = i]
        /\ peer' = [peer EXCEPT ![i] = a.peer]
        /\ reads' = [reads EXCEPT ![i] = {}]
        /\ elected' = elected \cup {<<t, i>>}
        /\ Advance(i, t, a.store, a.commit)
    BY DEF BecomeLeader
  <1> HIDE DEF a
  <1>3. /\ store' \in [Server -> Store]
        /\ commit' \in [Server -> Nat]
        /\ \A j \in Server : commit'[j] \in store'[j].snapIdx..LastIndex(store'[j])
        /\ committed' \in Seq([entry : Entry, by : Nat])
    BY <1>1, <1>2, AdvanceType, ZenonT(20)
  <1>4. elected' \subseteq Nat \X Server
    BY <1>2 DEF TypeOK
  <1>5. QED
    BY <1>1, <1>2, <1>3, <1>4, ZenonT(20) DEF TypeOK

LEMMA TimeoutType ==
    ASSUME TypeOK, NEW i \in Server, Timeout(i)
    PROVE  TypeOK'
  <1> DEFINE t == term[i] + 1
             v == [NoVotes EXCEPT ![i] = "granted"]
  <1>1. t \in Nat /\ v \in [Server -> {"none", "granted", "denied"}]
    BY NoPeerType DEF TypeOK
  <1>2. /\ term' = [term EXCEPT ![i] = t]
        /\ vote' = [vote EXCEPT ![i] = i]
        /\ votes' = [votes EXCEPT ![i] = v]
        /\ UNCHANGED <<nextReadID, snapIn, dups, restarts, served>>
    BY DEF Timeout
  <1>3. CASE quorum = 1
    <2>1. BecomeLeader(i, t) /\ UNCHANGED msgs
      BY <1>3 DEF Timeout
    <2> HIDE DEF t, v
    <2>2. QED
      BY <1>1, <1>2, <2>1, BecomeLeaderType, ZenonT(20) DEF TypeOK
  <1>4. CASE quorum # 1
    <2> DEFINE out == {MsgVote(i, p, t, store[i]) : p \in Server \ {i}}
    <2>1. /\ state' = [state EXCEPT ![i] = "candidate"]
          /\ lead' = [lead EXCEPT ![i] = None]
          /\ Post(msgs, out)
          /\ Advance(i, t, store[i], commit[i])
          /\ UNCHANGED <<peer, reads, elected>>
      BY <1>4 DEF Timeout
    <2>2. out \in SUBSET Message
      <3>1. \A p \in Server : MsgVote(i, p, t, store[i]) \in Message
        BY <1>1, MsgVoteType DEF TypeOK
      <3>2. QED
        BY <3>1
    <2> HIDE DEF t, v, out
    <2>3. msgs' \subseteq Message
      BY <2>1, <2>2, PostType, ZenonT(20) DEF TypeOK
    <2>4. QED
      BY <1>1, <1>2, <2>1, <2>3, AdvanceSameType, ZenonT(20) DEF TypeOK
  <1>5. QED
    BY <1>3, <1>4

LEMMA HeartbeatType ==
    ASSUME TypeOK, NEW i \in Server, Heartbeat(i)
    PROVE  TypeOK'
  <1> DEFINE sent == SendAppends(i, Server \ {i}, term[i], store[i], commit[i], peer[i], 0)
  <1>1. sent.msgs \in SUBSET Message /\ sent.peer \in [Server -> Peer]
    <2>1. /\ term[i] \in Nat /\ store[i] \in Store /\ commit[i] \in Nat
          /\ peer[i] \in [Server -> Peer]
      BY DEF TypeOK
    <2>2. QED
      BY <2>1, SendAppendsType, ZenonT(20)
  <1>2. /\ Send(sent.msgs)
        /\ peer' = [peer EXCEPT ![i] = sent.peer]
        /\ Advance(i, term[i], store[i], commit[i])
        /\ UNCHANGED <<durable, role, reads, nextReadID, snapIn, restarts, elected, served>>
    BY DEF Heartbeat
  <1> HIDE DEF sent
  <1>3. msgs' \subseteq Message /\ dups' \in Nat
    BY <1>1, <1>2, SendType
  <1>4. QED
    BY <1>1, <1>2, <1>3, AdvanceSameType, ZenonT(20) DEF TypeOK, durable, role

LEMMA ProposeType ==
    ASSUME TypeOK, NEW i \in Server, NEW vals \in Seq(Value), Propose(i, vals)
    PROVE  TypeOK'
  <1> DEFINE es == [k \in 1..Len(vals) |-> [term |-> term[i], val |-> vals[k]]]
             a  == AppendEntries(i, term[i], store[i], commit[i], peer[i], es)
  <1>1. /\ term[i] \in Nat /\ store[i] \in Store
        /\ commit[i] \in store[i].snapIdx..LastIndex(store[i])
        /\ peer[i] \in [Server -> Peer]
    BY DEF TypeOK
  <1>2. es \in Seq(Entry)
    <2>1. \A k \in 1..Len(vals) : [term |-> term[i], val |-> vals[k]] \in Entry
      BY <1>1 DEF Entry
    <2>2. QED
      BY <2>1
  <1>3. /\ Send(a.early \cup a.later)
        /\ peer' = [peer EXCEPT ![i] = a.peer]
        /\ Advance(i, term[i], a.store, a.commit)
        /\ UNCHANGED <<durable, role, reads, nextReadID, snapIn, restarts, elected, served>>
    BY DEF Propose
  <1> HIDE DEF es
  <1>4. /\ a.early \cup a.later \in SUBSET Message
        /\ a.store \in Store /\ a.peer \in [Server -> Peer]
        /\ a.commit \in a.store.snapIdx..LastIndex(a.store)
    BY <1>1, <1>2, AppendEntriesType
  <1> HIDE DEF a
  <1>5. msgs' \subseteq Message /\ dups' \in Nat
    BY <1>3, <1>4, SendType
  <1>6. QED
    BY <1>3, <1>4, <1>5, AdvanceType, ZenonT(20) DEF TypeOK, durable, role

LEMMA ReadIndexType ==
    ASSUME TypeOK, NEW i \in Server, ReadIndex(i)
    PROVE  TypeOK'
  <1> DEFINE id    == nextReadID[i] + 1
             round == [id |-> id, index |-> commit[i], floor |-> Len(committed), acks |-> {i}]
             sent  == SendAppends(i, Server \ {i}, term[i], store[i], commit[i], peer[i], id)
  <1>1. /\ term[i] \in Nat /\ store[i] \in Store /\ commit[i] \in Nat
        /\ peer[i] \in [Server -> Peer] /\ id \in Nat \ {0}
    BY DEF TypeOK
  <1>2. round \in Round /\ Served(round) \in [index : Nat, floor : Nat]
    <2>1. Len(committed) \in Nat
      BY DEF TypeOK
    <2>2. QED
      BY <1>1, <2>1 DEF Round, Served
  <1>3. sent.msgs \in SUBSET Message /\ sent.peer \in [Server -> Peer]
    BY <1>1, SendAppendsType, ZenonT(20)
  <1>4. /\ nextReadID' = [nextReadID EXCEPT ![i] = id]
        /\ Advance(i, term[i], store[i], commit[i])
        /\ UNCHANGED <<durable, role, snapIn, dups, restarts, elected>>
    BY DEF ReadIndex
  <1>5. CASE quorum = 1
    <2>1. served' = served \cup {Served(round)} /\ UNCHANGED <<reads, msgs, peer>>
      BY <1>5, ZenonT(20) DEF ReadIndex
    <2> HIDE DEF id, round, sent
    <2>2. QED
      BY <1>1, <1>2, <1>4, <2>1, AdvanceSameType, ZenonT(20) DEF TypeOK, durable, role
  <1>6. CASE quorum # 1
    <2>1. /\ reads' = [reads EXCEPT ![i] = @ \cup {round}]
          /\ Post(msgs, sent.msgs)
          /\ peer' = [peer EXCEPT ![i] = sent.peer]
          /\ UNCHANGED served
      BY <1>6, ZenonT(20) DEF ReadIndex
    <2> HIDE DEF id, round, sent
    <2>2. msgs' \subseteq Message
      BY <1>3, <2>1, PostType, ZenonT(20) DEF TypeOK
    <2>3. QED
      BY <1>1, <1>2, <1>3, <1>4, <2>1, <2>2, AdvanceSameType, ZenonT(20) DEF TypeOK, durable, role
  <1>7. QED
    BY <1>5, <1>6

LEMMA HandleStaleType ==
    ASSUME TypeOK, NEW i \in Server, NEW m \in msgs, HandleStale(i, m)
    PROVE  TypeOK'
  <1> DEFINE out == CASE m.type = "Vote" -> {MsgVoteResp(i, m.from, term[i], TRUE)}
                      [] m.type = "App"  ->
                            {MsgAppResp(i, m.from, term[i], 0, TRUE, 0, 0, m.readID)}
                      [] m.type = "Snap" ->
                            {MsgSnapResp(i, m.from, term[i], 0, 0, TRUE, FALSE)}
                      [] OTHER -> {}
  <1>1. m \in Message /\ term[i] \in Nat
    BY DEF TypeOK
  <1>2. out \in SUBSET Message
    <2>1. m.from \in Server /\ (m.type = "App" => m.readID \in Nat)
      BY <1>1, MessageFields
    <2>2. CASE m.type = "Vote"
      <3>1. MsgVoteResp(i, m.from, term[i], TRUE) \in Message
        BY <1>1, <2>1, MsgVoteRespType, ZenonT(20)
      <3>2. QED
        BY <2>2, <3>1, ZenonT(20)
    <2>3. CASE m.type = "App"
      <3>1. MsgAppResp(i, m.from, term[i], 0, TRUE, 0, 0, m.readID) \in Message
        BY <1>1, <2>1, <2>3 DEF MsgAppResp, Message
      <3>2. QED
        BY <2>3, <3>1, ZenonT(20)
    <2>4. CASE m.type = "Snap"
      <3>1. MsgSnapResp(i, m.from, term[i], 0, 0, TRUE, FALSE) \in Message
        BY <1>1, <2>1 DEF MsgSnapResp, Message
      <3>2. QED
        BY <2>4, <3>1, ZenonT(20)
    <2>5. QED
      BY <2>2, <2>3, <2>4, ZenonT(20)
  <1>3. /\ Receive(m, out)
        /\ Advance(i, term[i], store[i], commit[i])
        /\ UNCHANGED <<durable, role, leading, nextReadID, snapIn, restarts, elected, served>>
    BY DEF HandleStale
  <1> HIDE DEF out
  <1>4. msgs' \subseteq Message /\ dups' \in Nat
    BY <1>2, <1>3, ReceiveType
  <1>5. QED
    BY <1>3, <1>4, AdvanceSameType, ZenonT(20) DEF TypeOK, durable, role, leading

LEMMA HandleNewerRespType ==
    ASSUME TypeOK, NEW i \in Server, NEW m \in msgs, HandleNewerResp(i, m)
    PROVE  TypeOK'
  <1>1. m.term \in Nat
    BY MessageFields DEF TypeOK
  <1>2. /\ BecomeFollower(i, m.term, None)
        /\ vote' = [vote EXCEPT ![i] = None]
        /\ Receive(m, {})
        /\ Advance(i, m.term, store[i], commit[i])
        /\ UNCHANGED <<nextReadID, snapIn, restarts, elected, served>>
    BY DEF HandleNewerResp
  <1>3. msgs' \subseteq Message /\ dups' \in Nat
    BY <1>2, ReceiveType
  <1>4. QED
    BY <1>1, <1>2, <1>3, BecomeFollowerType, AdvanceSameType, ZenonT(20) DEF TypeOK

LEMMA HandleUnexpectedRespType ==
    ASSUME TypeOK, NEW i \in Server, NEW m \in msgs, HandleUnexpectedResp(i, m)
    PROVE  TypeOK'
  <1>1. /\ Receive(m, {})
        /\ Advance(i, term[i], store[i], commit[i])
        /\ UNCHANGED <<durable, role, leading, nextReadID, snapIn, restarts, elected, served>>
    BY ZenonT(20) DEF HandleUnexpectedResp
  <1>2. msgs' \subseteq Message /\ dups' \in Nat
    BY <1>1, ReceiveType, ZenonT(20)
  <1>3. QED
    BY <1>1, <1>2, AdvanceSameType, ZenonT(20) DEF TypeOK, durable, role, leading

LEMMA VoteInType ==
    ASSUME TypeOK, NEW i \in Server, NEW t
    PROVE  VoteIn(i, t) \in Server \cup {None}
  BY DEF TypeOK, VoteIn

LEMMA HandleVoteType ==
    ASSUME TypeOK, NEW i \in Server, NEW m \in msgs, HandleVote(i, m)
    PROVE  TypeOK'
  <1> DEFINE grant == CanVote(i, m) /\ UpToDate(m, store[i])
             v     == IF grant THEN m.from ELSE VoteIn(i, m.term)
  <1>1. m.term \in Nat /\ m.from \in Server /\ (~grant) \in BOOLEAN
    BY MessageFields, ZenonT(20) DEF TypeOK
  <1>2. MsgVoteResp(i, m.from, m.term, ~grant) \in Message
    BY <1>1, MsgVoteRespType, ZenonT(20)
  <1>3. v \in Server \cup {None}
    BY <1>1, VoteInType
  <1>4. /\ IF m.term > term[i] THEN BecomeFollower(i, m.term, None)
           ELSE UNCHANGED <<term, role, leading>>
        /\ vote' = [vote EXCEPT ![i] = v]
        /\ Receive(m, {MsgVoteResp(i, m.from, m.term, ~grant)})
        /\ Advance(i, m.term, store[i], commit[i])
        /\ UNCHANGED <<nextReadID, snapIn, restarts, elected, served>>
    BY DEF HandleVote
  <1> HIDE DEF grant, v
  <1>5. msgs' \subseteq Message /\ dups' \in Nat
    BY <1>2, <1>4, ReceiveType
  <1>6. CASE m.term > term[i]
    BY <1>1, <1>3, <1>4, <1>5, <1>6, BecomeFollowerType, AdvanceSameType, ZenonT(20) DEF TypeOK
  <1>7. CASE ~(m.term > term[i])
    BY <1>1, <1>3, <1>4, <1>5, <1>7, AdvanceSameType, ZenonT(20) DEF TypeOK, role, leading
  <1>8. QED
    BY <1>6, <1>7

LEMMA HandleVoteRespType ==
    ASSUME TypeOK, NEW i \in Server, NEW m \in msgs, HandleVoteResp(i, m)
    PROVE  TypeOK'
  <1> DEFINE v == [votes[i] EXCEPT ![m.from] = IF m.reject THEN "denied" ELSE "granted"]
             With(answer) == {p \in Server : v[p] = answer}
             a == Elected(i, term[i])
  <1>1. m.from \in Server /\ term[i] \in Nat
    BY MessageFields DEF TypeOK
  <1>2. v \in [Server -> {"none", "granted", "denied"}]
    BY ZenonT(20) DEF TypeOK
  <1>3. UNCHANGED <<nextReadID, snapIn, restarts, served>>
    BY DEF HandleVoteResp
  <1>4. CASE With("granted") \in Quorums
    <2>1. /\ votes' = [votes EXCEPT ![i] = v]
          /\ BecomeLeader(i, term[i])
          /\ Receive(m, a.early \cup a.later)
          /\ UNCHANGED durable
      BY <1>4 DEF HandleVoteResp
    <2>2. a.early \cup a.later \in SUBSET Message
      BY <1>1, ElectedType
    <2> HIDE DEF v, a
    <2>3. msgs' \subseteq Message /\ dups' \in Nat
      BY <2>1, <2>2, ReceiveType
    <2>4. QED
      BY <1>1, <1>2, <1>3, <2>1, <2>3, BecomeLeaderType, ZenonT(20) DEF TypeOK, durable
  <1>5. CASE With("granted") \notin Quorums /\ With("denied") \in Quorums
    <2>1. /\ BecomeFollower(i, term[i], None)
          /\ Receive(m, {})
          /\ Advance(i, term[i], store[i], commit[i])
          /\ UNCHANGED <<vote, elected>>
      BY <1>5 DEF HandleVoteResp
    <2>2. msgs' \subseteq Message /\ dups' \in Nat
      BY <2>1, ReceiveType
    <2>3. QED
      BY <1>1, <1>3, <2>1, <2>2, BecomeFollowerType, AdvanceSameType, ZenonT(20) DEF TypeOK
  <1>6. CASE With("granted") \notin Quorums /\ With("denied") \notin Quorums
    <2>1. /\ votes' = [votes EXCEPT ![i] = v]
          /\ Receive(m, {})
          /\ Advance(i, term[i], store[i], commit[i])
          /\ UNCHANGED <<durable, state, lead, leading, elected>>
      BY <1>6 DEF HandleVoteResp
    <2> HIDE DEF v
    <2>2. msgs' \subseteq Message /\ dups' \in Nat
      BY <2>1, ReceiveType
    <2>3. QED
      BY <1>2, <1>3, <2>1, <2>2, AdvanceSameType, ZenonT(20) DEF TypeOK, durable, leading
  <1>7. QED
    BY <1>4, <1>5, <1>6

\* What handleAppend commits is in the log it leaves behind.
LEMMA NewCommitType ==
    ASSUME NEW st \in Store, NEW c \in st.snapIdx..LastIndex(st), NEW m \in Message,
           m.type = "App", c <= m.index, m.index + Len(m.entries) <= LastIndex(st)
    PROVE  NewCommit(c, m) \in st.snapIdx..LastIndex(st)
  <1>1. /\ m.index \in Nat /\ m.commit \in Nat /\ m.entries \in Seq(Entry)
        /\ Len(m.entries) \in Nat
    BY MessageFields
  <1>2. st.snapIdx \in Nat /\ LastIndex(st) \in Nat
    BY IndexType
  <1>3. QED
    BY <1>1, <1>2 DEF NewCommit, Min2

\* The log after the entries of m from the j-th to the k-th are appended.
LEMMA AppendedType ==
    ASSUME NEW st \in Store, NEW m \in Message, m.type = "App",
           m.index \in st.snapIdx..LastIndex(st),
           NEW j \in 1..Len(m.entries), NEW k \in (j - 1)..Len(m.entries),
           FirstNew(st, m, j)
    PROVE  LET st1 == AppendAt(st, m.index + j, SubSeq(m.entries, j, k))
           IN  /\ st1 \in Store
               /\ st1.snapIdx = st.snapIdx
               /\ LastIndex(st1) = m.index + k
  <1> DEFINE es == SubSeq(m.entries, j, k)
  <1>1. m.index \in Nat /\ m.entries \in Seq(Entry) /\ Len(m.entries) \in Nat
    BY MessageFields
  <1>2. st.snapIdx \in Nat /\ LastIndex(st) \in Nat /\ FirstIndex(st) = st.snapIdx + 1
    BY IndexType
  <1>3. es \in Seq(Entry) /\ Len(es) = k - j + 1
    BY <1>1
  <1>4. m.index + j <= LastIndex(st) + 1
    <2>1. CASE j = 1
      BY <1>1, <1>2, <2>1
    <2>2. CASE j # 1
      <3>1. j - 1 \in 1..(j - 1)
        BY <1>1, <2>2
      <3>2. ~Lacks(st, m, j - 1)
        BY <3>1 DEF FirstNew
      <3>3. ~(m.index + (j - 1) > LastIndex(st))
        BY <3>2 DEF Lacks
      <3>4. QED
        BY <1>1, <1>2, <3>3
    <2>3. QED
      BY <2>1, <2>2
  <1>5. m.index + j \in FirstIndex(st)..(LastIndex(st) + 1)
    BY <1>1, <1>2, <1>4
  <1> HIDE DEF es
  <1>6. /\ AppendAt(st, m.index + j, es) \in Store
        /\ AppendAt(st, m.index + j, es).snapIdx = st.snapIdx
        /\ LastIndex(AppendAt(st, m.index + j, es)) = (m.index + j) - 1 + Len(es)
    BY <1>3, <1>5, AppendAtType, ZenonT(20)
  <1>7. (m.index + j) - 1 + Len(es) = m.index + k
    <2>1. ASSUME NEW a \in Int, NEW b \in Int, NEW d \in Int, NEW n \in Int, n = d - b + 1
          PROVE  (a + b) - 1 + n = a + d
      BY <2>1
    <2>2. j \in Int /\ k \in Int /\ m.index \in Int /\ Len(es) \in Int
      BY <1>1, <1>3
    <2>3. QED
      BY <1>3, <2>1, <2>2
  <1>8. QED
    BY <1>6, <1>7 DEF es
=============================================================================
