------------------------- MODULE RaftOperatorProofs -------------------------
(***************************************************************************)
(* Types of the operators Raft is built from: the log store, the messages, *)
(* what a leader sends, and what it keeps of its peers.                    *)
(***************************************************************************)
EXTENDS Raft, SequenceTheorems, TLAPS

USE RaftConstants

LEMMA IndexType ==
    ASSUME NEW st \in Store
    PROVE  /\ LastIndex(st) \in Nat
           /\ FirstIndex(st) \in Nat \ {0}
           /\ FirstIndex(st) = st.snapIdx + 1
           /\ st.snapIdx \in Nat
           /\ st.snapIdx <= LastIndex(st)
  BY DEF Store, LastIndex, FirstIndex

\* Term answers an integer whatever it is asked, a natural number inside the log.
LEMMA TermType ==
    ASSUME NEW st \in Store, NEW k
    PROVE  /\ Term(st, k) \in Int
           /\ LastIndex(st) \in Nat
           /\ FirstIndex(st) \in Nat \ {0}
           /\ st.snapIdx <= LastIndex(st)
           /\ Len(st.entries) \in Nat
           /\ st.snapIdx \in Nat
  <1>1. /\ st.snapIdx \in Nat /\ st.snapTerm \in Int /\ st.entries \in Seq(Entry)
    BY DEF Store
  <1>2. Len(st.entries) \in Nat
    BY <1>1
  <1>3. ASSUME k \in FirstIndex(st)..LastIndex(st)
        PROVE  st.entries[k - st.snapIdx].term \in Int
    <2>1. k - st.snapIdx \in 1..Len(st.entries)
      BY <1>1, <1>2, <1>3 DEF FirstIndex, LastIndex
    <2>2. st.entries[k - st.snapIdx] \in Entry
      BY <1>1, <2>1
    <2>3. QED
      BY <2>2 DEF Entry
  <1>4. QED
    BY <1>1, <1>2, <1>3 DEF Term, LastIndex, FirstIndex, ErrTerm

LEMMA FunctionIsSeq ==
    ASSUME NEW R, NEW n \in Int, NEW f \in [1..n -> R]
    PROVE  f \in Seq(R)
  <1>1. CASE n \in Nat
    BY <1>1, SeqDef
  <1>2. CASE n \notin Nat
    <2>1. 1..n = 1..0
      BY <1>2
    <2>2. f \in [1..0 -> R]
      BY <2>1
    <2>3. QED
      BY <2>2, SeqDef
  <1>3. QED
    BY <1>1, <1>2

LEMMA SubSeqType ==
    ASSUME NEW s \in Seq(Entry), NEW lo \in Nat \ {0}, NEW hi \in Int, hi <= Len(s)
    PROVE  SubSeq(s, lo, hi) \in Seq(Entry)
  OBVIOUS

\* Append keeps the snapshot, and ends the log with the new entries.
LEMMA AppendAtType ==
    ASSUME NEW st \in Store, NEW es \in Seq(Entry),
           NEW k \in FirstIndex(st)..(LastIndex(st) + 1)
    PROVE  /\ AppendAt(st, k, es) \in Store
           /\ AppendAt(st, k, es).snapIdx = st.snapIdx
           /\ LastIndex(AppendAt(st, k, es)) = k - 1 + Len(es)
  <1>1. /\ st.snapIdx \in Nat /\ st.entries \in Seq(Entry) /\ Len(st.entries) \in Nat
    BY DEF Store
  <1>2. k - FirstIndex(st) \in 0..Len(st.entries)
    BY <1>1 DEF FirstIndex, LastIndex
  <1>3. /\ SubSeq(st.entries, 1, k - FirstIndex(st)) \in Seq(Entry)
        /\ Len(SubSeq(st.entries, 1, k - FirstIndex(st))) = k - FirstIndex(st)
    BY <1>1, <1>2
  <1>4. /\ SubSeq(st.entries, 1, k - FirstIndex(st)) \o es \in Seq(Entry)
        /\ Len(SubSeq(st.entries, 1, k - FirstIndex(st)) \o es) = k - FirstIndex(st) + Len(es)
    BY <1>3
  <1> DEFINE x == SubSeq(st.entries, 1, k - FirstIndex(st)) \o es
  <1>5. AppendAt(st, k, es) = [st EXCEPT !.entries = x]
    BY DEF AppendAt
  <1>6. x \in Seq(Entry) /\ Len(x) = k - FirstIndex(st) + Len(es) /\ Len(es) \in Nat
    BY <1>4
  <1> HIDE DEF x
  <1>7. /\ [st EXCEPT !.entries = x] \in Store
        /\ [st EXCEPT !.entries = x].snapIdx = st.snapIdx
        /\ [st EXCEPT !.entries = x].entries = x
    BY <1>6, ZenonT(20) DEF Store
  <1>8. LastIndex([st EXCEPT !.entries = x]) = st.snapIdx + Len(x)
    BY <1>7 DEF LastIndex
  <1>9. st.snapIdx + Len(x) = k - 1 + Len(es)
    <2>1. FirstIndex(st) = st.snapIdx + 1 /\ k \in Int
      BY <1>1, <1>2 DEF FirstIndex, LastIndex
    <2>2. QED
      BY <1>1, <1>6, <2>1
  <1>10. QED
    BY <1>5, <1>7, <1>8, <1>9

\* Compact moves the snapshot up, never down, and loses no index.
LEMMA CompactType ==
    ASSUME NEW st \in Store, NEW k \in Nat, NEW t \in Int, NEW d \in Seq(Entry),
           Len(d) = k
    PROVE  /\ Compact(st, k, t, d) \in Store
           /\ Compact(st, k, t, d).snapIdx = IF k <= st.snapIdx THEN st.snapIdx ELSE k
           /\ LastIndex(st) <= LastIndex(Compact(st, k, t, d))
           /\ k <= LastIndex(Compact(st, k, t, d))
  <1>1. /\ st.snapIdx \in Nat /\ st.entries \in Seq(Entry) /\ Len(st.entries) \in Nat
    BY DEF Store
  <1>2. CASE k <= st.snapIdx
    BY <1>1, <1>2 DEF Compact, LastIndex
  <1>3. CASE k > st.snapIdx /\ k <= LastIndex(st)
    <2> DEFINE x == SubSeq(st.entries, k - st.snapIdx + 1, Len(st.entries))
    <2>1. x \in Seq(Entry) /\ Len(x) = Len(st.entries) - (k - st.snapIdx)
      BY <1>1, <1>3 DEF LastIndex
    <2>2. Compact(st, k, t, d) = [snapIdx |-> k, snapTerm |-> t, snap |-> d, entries |-> x]
      BY <1>1, <1>3 DEF Compact
    <2> HIDE DEF x
    <2>3. QED
      BY <1>1, <1>3, <2>1, <2>2 DEF Store, LastIndex
  <1>4. CASE k > LastIndex(st)
    <2>1. Compact(st, k, t, d) = [snapIdx |-> k, snapTerm |-> t, snap |-> d, entries |-> <<>>]
      BY <1>1, <1>4 DEF Compact, LastIndex
    <2>2. QED
      BY <1>1, <1>4, <2>1 DEF Store, LastIndex
  <1>5. QED
    BY <1>1, <1>2, <1>3, <1>4 DEF LastIndex

LEMMA PrefixOfType ==
    ASSUME NEW st \in Store, NEW k \in st.snapIdx..LastIndex(st)
    PROVE  PrefixOf(st, k) \in Seq(Entry) /\ Len(PrefixOf(st, k)) = k
  <1>1. /\ st.snapIdx \in Nat /\ st.snap \in Seq(Entry) /\ Len(st.snap) = st.snapIdx
        /\ st.entries \in Seq(Entry) /\ Len(st.entries) \in Nat
    BY DEF Store
  <1>2. /\ SubSeq(st.entries, 1, k - st.snapIdx) \in Seq(Entry)
        /\ Len(SubSeq(st.entries, 1, k - st.snapIdx)) = k - st.snapIdx
    BY <1>1 DEF LastIndex
  <1>3. QED
    BY <1>1, <1>2 DEF PrefixOf

\* maybeSnapshot does not compact past the commit index.
LEMMA MaybeSnapshotType ==
    ASSUME NEW st \in Store, NEW c \in st.snapIdx..LastIndex(st)
    PROVE  /\ MaybeSnapshot(st, c) \in Store
           /\ c \in MaybeSnapshot(st, c).snapIdx..LastIndex(MaybeSnapshot(st, c))
  <1>1. st.snapIdx \in Nat /\ LastIndex(st) \in Nat /\ c \in Nat /\ Term(st, c) \in Int
    BY TermType
  <1>2. PrefixOf(st, c) \in Seq(Entry) /\ Len(PrefixOf(st, c)) = c
    BY PrefixOfType
  <1> DEFINE x == Compact(st, c, Term(st, c), PrefixOf(st, c))
  <1>3. /\ x \in Store
        /\ x.snapIdx = IF c <= st.snapIdx THEN st.snapIdx ELSE c
        /\ LastIndex(x) \in Nat
        /\ c <= LastIndex(x)
    BY <1>1, <1>2, CompactType, TermType
  <1>4. MaybeSnapshot(st, c) \in {st, x}
    BY DEF MaybeSnapshot
  <1> HIDE DEF x
  <1>5. QED
    BY <1>1, <1>3, <1>4

\* What Advance leaves a node with.
LEMMA AdvanceType ==
    ASSUME TypeOK, NEW i \in Server, NEW t \in Nat, NEW st \in Store,
           NEW c \in st.snapIdx..LastIndex(st), Advance(i, t, st, c)
    PROVE  /\ store' \in [Server -> Store]
           /\ commit' \in [Server -> Nat]
           /\ \A j \in Server : commit'[j] \in store'[j].snapIdx..LastIndex(store'[j])
           /\ committed' \in Seq([entry : Entry, by : Nat])
  <1> DEFINE x == MaybeSnapshot(st, c)
  <1>1. x \in Store /\ c \in x.snapIdx..LastIndex(x) /\ c \in Nat
    <2>1. c \in Nat
      BY IndexType
    <2>2. QED
      BY <2>1, MaybeSnapshotType
  <1>2. store' = [store EXCEPT ![i] = x] /\ commit' = [commit EXCEPT ![i] = c]
    BY DEF Advance
  <1> HIDE DEF x
  <1>3. /\ store \in [Server -> Store] /\ commit \in [Server -> Nat]
        /\ \A j \in Server : commit[j] \in store[j].snapIdx..LastIndex(store[j])
    BY DEF TypeOK
  <1>4. ASSUME NEW j \in Server
        PROVE  commit'[j] \in store'[j].snapIdx..LastIndex(store'[j])
    <2>1. CASE j = i
      <3>1. store'[j] = x /\ commit'[j] = c
        BY <1>2, <1>3, <2>1
      <3>2. QED
        BY <3>1, <1>1
    <2>2. CASE j # i
      <3>1. store'[j] = store[j] /\ commit'[j] = commit[j]
        BY <1>2, <1>3, <2>2
      <3>2. QED
        BY <3>1, <1>3
    <2>3. QED
      BY <2>1, <2>2
  <1>5. committed' \in Seq([entry : Entry, by : Nat])
    <2> DEFINE n == c - Len(committed)
               P == PrefixOf(st, c)
               new == [k \in 1..n |-> [entry |-> P[Len(committed) + k], by |-> t]]
    <2>1. committed \in Seq([entry : Entry, by : Nat]) /\ Len(committed) \in Nat /\ n \in Int
      BY <1>1 DEF TypeOK
    <2>2. P \in Seq(Entry) /\ Len(P) = c
      BY PrefixOfType
    <2>3. committed' = committed \o new
      BY DEF Advance
    <2> HIDE DEF P
    <2>4. ASSUME NEW k \in 1..n
          PROVE  [entry |-> P[Len(committed) + k], by |-> t] \in [entry : Entry, by : Nat]
      <3>1. Len(committed) + k \in 1..Len(P)
        BY <1>1, <2>1, <2>2
      <3>2. QED
        BY <2>2, <3>1
    <2> HIDE DEF n
    <2>5. new \in [1..n -> [entry : Entry, by : Nat]]
      BY <2>4
    <2>6. new \in Seq([entry : Entry, by : Nat])
      BY <2>1, <2>5, FunctionIsSeq, ZenonT(20)
    <2> HIDE DEF new
    <2>7. QED
      BY <2>1, <2>3, <2>6
  <1>6. QED
    BY <1>1, <1>2, <1>3, <1>4, <1>5

\* A step that leaves the log and the commit index of i as they are.
LEMMA AdvanceSameType ==
    ASSUME TypeOK, NEW i \in Server, NEW t \in Nat,
           Advance(i, t, store[i], commit[i])
    PROVE  /\ store' \in [Server -> Store]
           /\ commit' \in [Server -> Nat]
           /\ \A j \in Server : commit'[j] \in store'[j].snapIdx..LastIndex(store'[j])
           /\ committed' \in Seq([entry : Entry, by : Nat])
  <1>1. store[i] \in Store /\ commit[i] \in store[i].snapIdx..LastIndex(store[i])
    BY DEF TypeOK
  <1>2. QED
    BY <1>1, AdvanceType, ZenonT(20)
-----------------------------------------------------------------------------
\* Messages.

LEMMA MsgVoteType ==
    ASSUME NEW i \in Server, NEW p \in Server, NEW t \in Nat, NEW st \in Store
    PROVE  MsgVote(i, p, t, st) \in Message
  <1>1. LastIndex(st) \in Nat /\ LastTerm(st) \in Int
    BY TermType DEF LastTerm
  <1>2. QED
    BY <1>1 DEF MsgVote, Message

LEMMA MsgVoteRespType ==
    ASSUME NEW i \in Server, NEW p \in Server, NEW t \in Nat, NEW r \in BOOLEAN
    PROVE  MsgVoteResp(i, p, t, r) \in Message
  BY DEF MsgVoteResp, Message

LEMMA MsgAppType ==
    ASSUME NEW i \in Server, NEW p \in Server, NEW t \in Nat, NEW k \in Nat,
           NEW kt \in Int, NEW es \in Seq(Entry), NEW c \in Nat, NEW id \in Nat
    PROVE  MsgApp(i, p, t, k, kt, es, c, id) \in Message
  BY DEF MsgApp, Message

LEMMA MsgAppRespType ==
    ASSUME NEW i \in Server, NEW p \in Server, NEW t \in Nat, NEW k \in Nat,
           NEW r \in BOOLEAN, NEW ct \in Int, NEW ci \in Nat, NEW id \in Nat
    PROVE  MsgAppResp(i, p, t, k, r, ct, ci, id) \in Message
  BY DEF MsgAppResp, Message

LEMMA MsgSnapType ==
    ASSUME NEW i \in Server, NEW p \in Server, NEW t \in Nat, NEW x \in Outgoing
    PROVE  MsgSnap(i, p, t, x) \in Message
  <1> DEFINE end  == Min2(x.offset + SnapChunk, Len(x.data))
             data == SubSeq(x.data, x.offset + 1, end)
  <1>1. /\ x.index \in Nat /\ x.term \in Int /\ x.data \in Seq(Entry) /\ x.offset \in Nat
        /\ Len(x.data) = x.index /\ x.offset <= x.index
    BY DEF Outgoing, Transfers
  <1>2. end \in Nat /\ end <= Len(x.data)
    BY <1>1 DEF Min2
  <1>3. data \in Seq(Entry) /\ Len(data) = end - x.offset
    <2>1. x.offset <= end
      BY <1>1 DEF Min2
    <2> HIDE DEF end
    <2>2. QED
      BY <1>1, <1>2, <2>1
  <1>4. ASSUME NEW fin \in BOOLEAN, fin <=> end = Len(x.data)
        PROVE  [type |-> "Snap", from |-> i, to |-> p, term |-> t, index |-> x.index,
                logTerm |-> x.term, data |-> data, offset |-> x.offset, done |-> fin]
                  \in Message
    <2> HIDE DEF end, data
    <2>1. x.offset + Len(data) <= x.index /\ (fin => x.offset + Len(data) = x.index)
      BY <1>1, <1>2, <1>3, <1>4
    <2>2. QED
      BY <1>1, <1>3, <2>1 DEF Message
  <1>5. MsgSnap(i, p, t, x) =
           [type |-> "Snap", from |-> i, to |-> p, term |-> t, index |-> x.index,
            logTerm |-> x.term, data |-> data, offset |-> x.offset,
            done |-> end = Len(x.data)]
    BY DEF MsgSnap
  <1>6. (end = Len(x.data)) \in BOOLEAN
    OBVIOUS
  <1> HIDE DEF end, data
  <1>7. QED
    BY <1>4, <1>5, <1>6, Zenon

LEMMA MsgSnapRespType ==
    ASSUME NEW i \in Server, NEW p \in Server, NEW t \in Nat, NEW k \in Nat,
           NEW off \in Nat, off <= k, NEW r \in BOOLEAN, NEW d \in BOOLEAN
    PROVE  MsgSnapResp(i, p, t, k, off, r, d) \in Message
  BY DEF MsgSnapResp, Message

\* The fields of a message, by its type.
LEMMA MessageFields ==
    ASSUME NEW m \in Message
    PROVE  /\ m.from \in Server /\ m.to \in Server /\ m.term \in Nat
           /\ m.type \in {"Vote", "VoteResp", "App", "AppResp", "Snap", "SnapResp"}
           /\ m.type = "Vote" => m.index \in Nat /\ m.logTerm \in Int
           /\ m.type = "VoteResp" => m.reject \in BOOLEAN
           /\ m.type = "App" =>
                 /\ m.index \in Nat /\ m.logTerm \in Int /\ m.entries \in Seq(Entry)
                 /\ m.commit \in Nat /\ m.readID \in Nat
           /\ m.type = "AppResp" =>
                 /\ m.index \in Nat /\ m.reject \in BOOLEAN /\ m.conflictTerm \in Int
                 /\ m.conflictIndex \in Nat /\ m.readID \in Nat
           /\ m.type = "Snap" =>
                 /\ m.index \in Nat /\ m.logTerm \in Int /\ m.data \in Seq(Entry)
                 /\ m.offset \in Nat /\ m.done \in BOOLEAN
                 /\ m.offset + Len(m.data) <= m.index
                 /\ m.done => m.offset + Len(m.data) = m.index
           /\ m.type = "SnapResp" =>
                 /\ m.index \in Nat /\ m.offset \in Nat /\ m.offset <= m.index
                 /\ m.reject \in BOOLEAN /\ m.done \in BOOLEAN
  BY DEF Message

LEMMA PostType ==
    ASSUME NEW rest \in SUBSET Message, NEW out \in SUBSET Message, Post(rest, out)
    PROVE  msgs' \subseteq Message
  BY DEF Post

LEMMA ReceiveType ==
    ASSUME TypeOK, NEW m, NEW out \in SUBSET Message, Receive(m, out)
    PROVE  msgs' \subseteq Message /\ dups' \in Nat
  <1>1. msgs \subseteq Message /\ msgs \ {m} \subseteq Message /\ dups \in Nat
    BY DEF TypeOK
  <1>2. QED
    BY <1>1, PostType DEF Receive

LEMMA SendType ==
    ASSUME TypeOK, NEW out \in SUBSET Message, Send(out)
    PROVE  msgs' \subseteq Message /\ dups' \in Nat
  <1>1. msgs \subseteq Message /\ dups \in Nat
    BY DEF TypeOK
  <1>2. QED
    BY <1>1, PostType DEF Send
-----------------------------------------------------------------------------
\* Replication.

LEMMA NoPeerType ==
    /\ NoTransfer \in Outgoing /\ NoTransfer \in Incoming
    /\ NoPeer \in Peer
    /\ NoPeers \in [Server -> Peer]
    /\ NoVotes \in [Server -> {"none", "granted", "denied"}]
  <1>1. NoTransfer \in Outgoing /\ NoTransfer \in Incoming
    BY DEF NoTransfer, Transfers, Outgoing, Incoming
  <1>2. NoPeer \in Peer
    BY <1>1 DEF NoPeer, Peer
  <1>3. QED
    BY <1>1, <1>2 DEF NoPeers, NoVotes

LEMMA SendAppendType ==
    ASSUME NEW i \in Server, NEW p \in Server, NEW t \in Nat, NEW st \in Store,
           NEW c \in Nat, NEW pr \in Peer, NEW id \in Nat
    PROVE  /\ SendAppend(i, p, t, st, c, pr, id).msg \in Message
           /\ SendAppend(i, p, t, st, c, pr, id).peer \in Peer
  <1> DEFINE first == FirstIndex(st)
             last  == Min2(pr.next + MaxBatch - 1, LastIndex(st))
             x     == Transfer(st, pr.snapOut)
             app   == MsgApp(i, p, t, pr.next - 1, Term(st, pr.next - 1),
                             Entries(st, pr.next, last), c, id)
             probe == MsgApp(i, p, t, first - 1, Term(st, first - 1), <<>>, c, id)
  <1>1. /\ pr.next \in Nat \ {0} /\ pr.match \in Nat /\ pr.snapOut \in Outgoing
    BY DEF Peer
  <1>2. /\ st.snapIdx \in Nat /\ LastIndex(st) \in Nat /\ first \in Nat \ {0}
        /\ st.entries \in Seq(Entry) /\ Len(st.entries) \in Nat
        /\ Term(st, pr.next - 1) \in Int /\ Term(st, first - 1) \in Int
    BY TermType, ZenonT(20) DEF Store
  <1>3. last \in Int /\ last <= LastIndex(st)
    BY <1>1, <1>2 DEF Min2
  <1>4. x \in Outgoing
    BY <1>1 DEF Transfer, Outgoing, Transfers, Store
  <1>5. CASE pr.next >= first
    <2>1. Entries(st, pr.next, last) \in Seq(Entry)
      <3> HIDE DEF last
      <3>1. pr.next - st.snapIdx \in Nat \ {0}
        BY <1>1, <1>2, <1>5 DEF FirstIndex
      <3>2. last - st.snapIdx \in Int /\ last - st.snapIdx <= Len(st.entries)
        BY <1>2, <1>3 DEF LastIndex
      <3>3. QED
        BY <1>2, <3>1, <3>2, SubSeqType DEF Entries
    <2>2. app \in Message
      <3>1. pr.next - 1 \in Nat
        BY <1>1
      <3>2. QED
        BY <1>2, <2>1, <3>1, MsgAppType, ZenonT(20)
    <2>3. Max2(pr.next, last + 1) \in Nat \ {0}
      BY <1>1, <1>3 DEF Max2
    <2>4. SendAppend(i, p, t, st, c, pr, id) =
             [msg |-> app, peer |-> [pr EXCEPT !.next = Max2(pr.next, last + 1)]]
      BY <1>5 DEF SendAppend
    <2> HIDE DEF app
    <2>5. [pr EXCEPT !.next = Max2(pr.next, last + 1)] \in Peer
      BY <2>3 DEF Peer
    <2>6. QED
      BY <2>2, <2>4, <2>5
  <1>6. CASE ~(pr.next >= first) /\ id = 0
    <2>1. SendAppend(i, p, t, st, c, pr, id) =
             [msg |-> MsgSnap(i, p, t, x), peer |-> [pr EXCEPT !.snapOut = x]]
      BY <1>6 DEF SendAppend
    <2>2. MsgSnap(i, p, t, x) \in Message
      BY <1>4, MsgSnapType
    <2> HIDE DEF x
    <2>3. [pr EXCEPT !.snapOut = x] \in Peer
      BY <1>4 DEF Peer
    <2>4. QED
      BY <2>1, <2>2, <2>3
  <1>7. CASE ~(pr.next >= first) /\ id # 0
    <2>1. SendAppend(i, p, t, st, c, pr, id) = [msg |-> probe, peer |-> pr]
      BY <1>7 DEF SendAppend
    <2>2. first - 1 \in Nat /\ <<>> \in Seq(Entry)
      BY <1>2
    <2>3. probe \in Message
      BY <1>2, <2>2, MsgAppType, ZenonT(20)
    <2> HIDE DEF probe
    <2>4. QED
      BY <2>1, <2>3
  <1>8. QED
    BY <1>5, <1>6, <1>7

LEMMA SendAppendsType ==
    ASSUME NEW i \in Server, NEW ps \in SUBSET Server, NEW t \in Nat, NEW st \in Store,
           NEW c \in Nat, NEW prs \in [Server -> Peer], NEW id \in Nat
    PROVE  /\ SendAppends(i, ps, t, st, c, prs, id).msgs \in SUBSET Message
           /\ SendAppends(i, ps, t, st, c, prs, id).peer \in [Server -> Peer]
  <1> DEFINE Sent(p) == SendAppend(i, p, t, st, c, prs[p], id)
             ms == {Sent(p).msg : p \in ps}
             pe == [p \in Server |-> IF p \in ps THEN Sent(p).peer ELSE prs[p]]
  <1>1. \A p \in Server : Sent(p).msg \in Message /\ Sent(p).peer \in Peer
    BY SendAppendType
  <1>2. SendAppends(i, ps, t, st, c, prs, id) = [msgs |-> ms, peer |-> pe]
    BY DEF SendAppends
  <1> HIDE DEF Sent
  <1>3. ms \in SUBSET Message /\ pe \in [Server -> Peer]
    BY <1>1
  <1> HIDE DEF ms, pe
  <1>4. QED
    BY <1>2, <1>3

\* maybeCommit stays inside the log: it commits an index only after asking for
\* its term.
LEMMA MaybeCommitType ==
    ASSUME NEW st \in Store, NEW t \in Nat, NEW prs,
           NEW c \in st.snapIdx..LastIndex(st)
    PROVE  MaybeCommit(t, st, prs, c) \in st.snapIdx..LastIndex(st)
  <1> DEFINE n == QuorumMatch(prs)
  <1>1. ASSUME Term(st, n) = t
        PROVE  n \in st.snapIdx..LastIndex(st)
    BY <1>1, TermType DEF Term, ErrTerm, FirstIndex
  <1>2. MaybeCommit(t, st, prs, c) = IF n > c /\ Term(st, n) = t THEN n ELSE c
    BY DEF MaybeCommit
  <1> HIDE DEF n
  <1>3. QED
    BY <1>1, <1>2

LEMMA AppendEntriesType ==
    ASSUME NEW i \in Server, NEW t \in Nat, NEW st \in Store,
           NEW c \in st.snapIdx..LastIndex(st), NEW prs \in [Server -> Peer],
           NEW es \in Seq(Entry)
    PROVE  LET a == AppendEntries(i, t, st, c, prs, es)
           IN  /\ a.early \in SUBSET Message
               /\ a.later \in SUBSET Message
               /\ a.store \in Store
               /\ a.peer \in [Server -> Peer]
               /\ a.commit \in a.store.snapIdx..LastIndex(a.store)
  <1> DEFINE last  == LastIndex(st)
             early == {p \in Server \ {i} : prs[p].next = last + 1 /\ Len(es) <= MaxBatch}
             st1   == AppendAt(st, last + 1, es)
             prs1  == [p \in Server |->
                         IF p = i THEN [prs[p] EXCEPT !.match = last + Len(es)]
                         ELSE IF p \in early THEN [prs[p] EXCEPT !.next = last + 1 + Len(es)]
                         ELSE prs[p]]
             sent  == SendAppends(i, Server \ (early \cup {i}), t, st1, c, prs1, 0)
             out   == {MsgApp(i, p, t, last, Term(st, last), es, c, 0) : p \in early}
  <1>1. /\ last \in Nat /\ Len(es) \in Nat /\ c \in Nat /\ Term(st, last) \in Int
        /\ st.snapIdx \in Nat /\ st.snapIdx <= last /\ FirstIndex(st) = st.snapIdx + 1
    <2>1. /\ last \in Nat /\ st.snapIdx \in Nat /\ st.snapIdx <= last
          /\ FirstIndex(st) = st.snapIdx + 1
      BY IndexType
    <2>2. Term(st, last) \in Int
      BY TermType
    <2>3. Len(es) \in Nat
      OBVIOUS
    <2> HIDE DEF last
    <2>4. c \in Nat
      <3>1. c \in st.snapIdx..last
        BY DEF last
      <3>2. QED
        BY <2>1, <3>1
    <2>5. QED
      BY <2>1, <2>2, <2>3, <2>4
  <1>2. st1 \in Store /\ st1.snapIdx = st.snapIdx /\ LastIndex(st1) = last + Len(es)
    <2>1. last + 1 \in FirstIndex(st)..(last + 1)
      BY <1>1
    <2>2. /\ st1 \in Store /\ st1.snapIdx = st.snapIdx
          /\ LastIndex(st1) = (last + 1) - 1 + Len(es)
      BY <2>1, AppendAtType
    <2> HIDE DEF st1
    <2>3. QED
      BY <1>1, <2>2
  <1>3. prs1 \in [Server -> Peer]
    <2>1. ASSUME NEW p \in Server
          PROVE  /\ [prs[p] EXCEPT !.match = last + Len(es)] \in Peer
                 /\ [prs[p] EXCEPT !.next = last + 1 + Len(es)] \in Peer
                 /\ prs[p] \in Peer
      <3> HIDE DEF last
      <3>1. last + Len(es) \in Nat /\ last + 1 + Len(es) \in Nat \ {0} /\ prs[p] \in Peer
        BY <1>1
      <3>2. QED
        BY <3>1 DEF Peer
    <2> HIDE DEF last, early
    <2>2. QED
      BY <2>1
  <1>4. sent.msgs \in SUBSET Message /\ sent.peer \in [Server -> Peer]
    <2> HIDE DEF st1, prs1, early
    <2>1. QED
      BY <1>1, <1>2, <1>3, SendAppendsType, ZenonT(20)
  <1>5. out \in SUBSET Message
    <2> HIDE DEF last
    <2>1. \A p \in Server : MsgApp(i, p, t, last, Term(st, last), es, c, 0) \in Message
      BY <1>1, MsgAppType
    <2>2. QED
      BY <2>1
  <1>6. MaybeCommit(t, st1, sent.peer, c) \in st1.snapIdx..LastIndex(st1)
    <2> HIDE DEF st1, sent, last
    <2>1. c \in st1.snapIdx..LastIndex(st1)
      BY <1>1, <1>2 DEF last
    <2>2. QED
      BY <1>2, <2>1, MaybeCommitType
  <1>7. AppendEntries(i, t, st, c, prs, es) =
           [early |-> out, later |-> sent.msgs, store |-> st1, peer |-> sent.peer,
            commit |-> MaybeCommit(t, st1, sent.peer, c)]
    BY DEF AppendEntries
  <1> HIDE DEF out, sent, st1
  <1>8. QED
    BY <1>2, <1>4, <1>5, <1>6, <1>7

LEMMA ElectedType ==
    ASSUME TypeOK, NEW i \in Server, NEW t \in Nat
    PROVE  LET a == Elected(i, t)
           IN  /\ a.early \in SUBSET Message
               /\ a.later \in SUBSET Message
               /\ a.store \in Store
               /\ a.peer \in [Server -> Peer]
               /\ a.commit \in a.store.snapIdx..LastIndex(a.store)
  <1> DEFINE prs == [p \in Server |-> [NoPeer EXCEPT !.next = LastIndex(store[i]) + 1]]
             es  == <<[term |-> t, val |-> Noop]>>
  <1>1. store[i] \in Store /\ commit[i] \in store[i].snapIdx..LastIndex(store[i])
    BY DEF TypeOK
  <1>2. LastIndex(store[i]) + 1 \in Nat \ {0}
    BY <1>1, IndexType
  <1>3. [NoPeer EXCEPT !.next = LastIndex(store[i]) + 1] \in Peer
    BY <1>2, NoPeerType DEF Peer
  <1>4. prs \in [Server -> Peer]
    BY <1>3
  <1>5. es \in Seq(Entry)
    BY DEF Entry
  <1>6. Elected(i, t) = AppendEntries(i, t, store[i], commit[i], prs, es)
    BY DEF Elected
  <1> HIDE DEF prs, es
  <1>7. QED
    BY <1>1, <1>4, <1>5, <1>6, AppendEntriesType, ZenonT(20)

LEMMA ProgressType ==
    ASSUME TypeOK, NEW i \in Server, NEW p \in Server, NEW k \in Nat, NEW always
    PROVE  LET f == Progress(i, p, k, always)
           IN  /\ f.commit \in store[i].snapIdx..LastIndex(store[i])
               /\ f.sent.msgs \in SUBSET Message
               /\ f.sent.peer \in [Server -> Peer]
  <1> DEFINE pr  == peer[i][p]
             prs == [peer[i] EXCEPT ![p] = [next    |-> Max2(pr.next, k + 1),
                                            match   |-> Max2(pr.match, k),
                                            snapOut |-> NoTransfer]]
             c   == MaybeCommit(term[i], store[i], prs, commit[i])
             to  == IF c > commit[i] THEN Server \ {i}
                    ELSE IF always \/ prs[p].next <= LastIndex(store[i]) THEN {p}
                    ELSE {}
  <1>1. /\ term[i] \in Nat /\ store[i] \in Store /\ peer[i] \in [Server -> Peer]
        /\ commit[i] \in store[i].snapIdx..LastIndex(store[i])
    BY DEF TypeOK
  <1>2. prs \in [Server -> Peer]
    <2>1. pr.next \in Nat \ {0} /\ pr.match \in Nat
      BY <1>1 DEF Peer
    <2>2. Max2(pr.next, k + 1) \in Nat \ {0} /\ Max2(pr.match, k) \in Nat
      BY <2>1 DEF Max2
    <2>3. [next |-> Max2(pr.next, k + 1), match |-> Max2(pr.match, k),
           snapOut |-> NoTransfer] \in Peer
      BY <2>2, NoPeerType DEF Peer
    <2> HIDE DEF pr
    <2>4. QED
      BY <1>1, <2>3
  <1> HIDE DEF prs
  <1>3. c \in store[i].snapIdx..LastIndex(store[i]) /\ c \in Nat
    BY <1>1, MaybeCommitType, IndexType
  <1>4. to \in SUBSET Server
    OBVIOUS
  <1>5. Progress(i, p, k, always) =
           [commit |-> c, sent |-> SendAppends(i, to, term[i], store[i], c, prs, 0)]
    BY ZenonT(20) DEF Progress, prs
  <1> DEFINE sent == SendAppends(i, to, term[i], store[i], c, prs, 0)
  <1> HIDE DEF c, to
  <1>6. sent.msgs \in SUBSET Message /\ sent.peer \in [Server -> Peer]
    BY <1>1, <1>2, <1>3, <1>4, SendAppendsType, ZenonT(20)
  <1>7. Progress(i, p, k, always) = [commit |-> c, sent |-> sent]
    BY <1>5
  <1> HIDE DEF sent
  <1>8. QED
    BY <1>3, <1>6, <1>7

LEMMA NextAfterRejectType ==
    ASSUME NEW st \in Store, NEW m \in Message, m.type = "AppResp", NEW k \in Nat
    PROVE  NextAfterReject(st, m, k) \in Nat \ {0}
  <1>1. LastIndexOfTerm(st, m.conflictTerm) \in Nat
    BY IndexType DEF LastIndexOfTerm
  <1>2. m.conflictIndex \in Nat
    BY MessageFields
  <1>3. QED
    BY <1>1, <1>2 DEF NextAfterReject, Max2

LEMMA FirstIndexOfTermType ==
    ASSUME NEW st \in Store, NEW k \in Nat, NEW t
    PROVE  FirstIndexOfTerm(st, k, t) \in Nat
  BY IndexType DEF FirstIndexOfTerm

LEMMA AckedType ==
    ASSUME TypeOK, NEW i \in Server, NEW p \in Server, NEW id
    PROVE  Acked(i, p, id) \in SUBSET Round
  <1>1. reads[i] \in SUBSET Round
    BY DEF TypeOK
  <1>2. \A r \in Round : [r EXCEPT !.acks = @ \cup {p}] \in Round
    BY DEF Round
  <1>3. QED
    BY <1>1, <1>2 DEF Acked
=============================================================================
