------------------------- MODULE RaftElectionProofs -------------------------
(***************************************************************************)
(* A node votes once a term, and a term has at most one leader, for every  *)
(* group and every bound: over lost, repeated and reordered messages, and  *)
(* over crashes between and inside the steps of a node.                    *)
(*                                                                         *)
(* ElectionSafety is not inductive: it says nothing of the votes on their  *)
(* way.  ElectionInv follows a vote from the disk of the voter through the *)
(* network to the count of the candidate.                                  *)
(***************************************************************************)
EXTENDS RaftProofs, FiniteSetTheorems

USE RaftConstants

\* A vote of s for c in term t, on its way to c, counted by c, or on the disk
\* of s.
Ballot(s, t, c) ==
    \/ \E m \in msgs : /\ m.type = "VoteResp"
                       /\ ~m.reject
                       /\ m.from = s
                       /\ m.to = c
                       /\ m.term = t
    \/ votes[c][s] = "granted" /\ term[c] = t
    \/ term[s] = t /\ vote[s] = c

\* In term t s has no vote left, nor will have, for anyone but c.
Settled(s, t, c) ==
    /\ term[s] > t \/ (term[s] = t /\ vote[s] = c)
    /\ \A d \in Server : Ballot(s, t, d) => d = c

BallotsSettled ==
    \A s, c \in Server, t \in Nat : Ballot(s, t, c) => Settled(s, t, c)

ElectedByQuorum ==
    \A e \in elected : \E Q \in Quorums : \A s \in Q : Settled(s, e[1], e[2])

ElectionInv == TypeOK /\ BallotsSettled /\ ElectedByQuorum /\ ElectionSafety

\* What a step does to terms and votes.
VoteStep ==
    \A i \in Server :
        /\ term'[i] >= term[i]
        /\ term'[i] = term[i] /\ vote[i] # None => vote'[i] = vote[i]

\* What a step does to ballots: a new one is the vote its voter now has on disk.
BallotStep ==
    \A s, c \in Server, t \in Nat :
        Ballot(s, t, c)' => Ballot(s, t, c) \/ (term'[s] = t /\ vote'[s] = c)

\* What a step does to the elected: a new one has the ballots of a quorum, in
\* the state before the step or in the one after it.
ElectStep ==
    \A e \in elected' :
        \/ e \in elected
        \/ /\ e[1] \in Nat /\ e[2] \in Server
           /\ \E Q \in Quorums : \A s \in Q : Ballot(s, e[1], e[2])
        \/ /\ e[1] \in Nat /\ e[2] \in Server
           /\ \E Q \in Quorums : \A s \in Q : Ballot(s, e[1], e[2])'

\* No granted vote is among the messages out.
NoGrant(out) == \A m \in out : m.type = "VoteResp" => m.reject
-----------------------------------------------------------------------------
LEMMA QuorumsMeet ==
    ASSUME NEW Q \in Quorums, NEW R \in Quorums
    PROVE  \E s \in Server : s \in Q /\ s \in R
  <1>1. Q \subseteq Server /\ R \subseteq Server
    BY DEF Quorums
  <1>2. IsFiniteSet(Q) /\ IsFiniteSet(R)
    BY <1>1, FS_Subset
  <1>3. Cardinality(Q) \in Nat /\ Cardinality(R) \in Nat /\ Cardinality(Server) \in Nat
    BY <1>2, FS_CardinalityType
  <1>4. Cardinality(Q) >= quorum /\ Cardinality(R) >= quorum
    BY DEF Quorums
  <1>5. Cardinality(Q) + Cardinality(R) > Cardinality(Server)
    BY <1>3, <1>4 DEF quorum
  <1>6. Q \cap R # {}
    BY <1>1, <1>5, FS_MajoritiesIntersect
  <1>7. QED
    BY <1>1, <1>6

\* What is settled stays settled.
LEMMA SettledStays ==
    ASSUME TypeOK, TypeOK', VoteStep, BallotStep,
           NEW s \in Server, NEW c \in Server, NEW t \in Nat, Settled(s, t, c)
    PROVE  Settled(s, t, c)'
  <1>1. term[s] \in Nat /\ term'[s] \in Nat /\ c # None
    BY DEF TypeOK
  <1>2. /\ term'[s] >= term[s]
        /\ term'[s] = term[s] /\ vote[s] # None => vote'[s] = vote[s]
    BY DEF VoteStep
  <1>3. term[s] > t \/ (term[s] = t /\ vote[s] = c)
    BY DEF Settled
  <1>4. term'[s] > t \/ (term'[s] = t /\ vote'[s] = c)
    BY <1>1, <1>2, <1>3
  <1>5. ASSUME NEW d \in Server, Ballot(s, t, d)'
        PROVE  d = c
    <2>1. CASE Ballot(s, t, d)
      BY <2>1 DEF Settled
    <2>2. CASE term'[s] = t /\ vote'[s] = d
      BY <1>1, <1>4, <2>2
    <2>3. QED
      BY <1>5, <2>1, <2>2 DEF BallotStep
  <1>6. QED
    BY <1>4, <1>5 DEF Settled

LEMMA BallotsStaySettled ==
    ASSUME TypeOK, TypeOK', VoteStep, BallotStep, BallotsSettled
    PROVE  BallotsSettled'
  <1> SUFFICES ASSUME NEW s \in Server, NEW c \in Server, NEW t \in Nat, Ballot(s, t, c)'
               PROVE  Settled(s, t, c)'
    BY DEF BallotsSettled
  <1>1. CASE Ballot(s, t, c)
    <2>1. Settled(s, t, c)
      BY <1>1 DEF BallotsSettled
    <2>2. QED
      BY <2>1, SettledStays
  <1>2. CASE term'[s] = t /\ vote'[s] = c
    <2>1. ASSUME NEW d \in Server, Ballot(s, t, d)'
          PROVE  d = c
      <3>1. CASE Ballot(s, t, d)
        <4>1. Settled(s, t, d)
          BY <3>1 DEF BallotsSettled
        <4>2. Settled(s, t, d)'
          BY <4>1, SettledStays
        <4>3. QED
          BY <4>2 DEF Settled
      <3>2. CASE term'[s] = t /\ vote'[s] = d
        BY <1>2, <3>2
      <3>3. QED
        BY <2>1, <3>1, <3>2 DEF BallotStep
    <2>2. QED
      BY <1>2, <2>1 DEF Settled
  <1>3. QED
    BY <1>1, <1>2 DEF BallotStep

\* Steps that do these three things keep the invariant.
LEMMA ElectionInvStep ==
    ASSUME ElectionInv, TypeOK', VoteStep, BallotStep, ElectStep
    PROVE  ElectionInv'
  <1>1. TypeOK /\ BallotsSettled /\ ElectedByQuorum /\ ElectionSafety
    BY DEF ElectionInv
  <1>2. BallotsSettled'
    BY <1>1, BallotsStaySettled
  <1>3. \A e \in elected' : e[1] \in Nat /\ e[2] \in Server
    BY DEF TypeOK
  <1>4. \A e \in elected : e[1] \in Nat /\ e[2] \in Server
    BY <1>1 DEF TypeOK
  <1>5. \A Q \in Quorums : Q \subseteq Server
    BY DEF Quorums
  <1>6. ASSUME NEW e \in elected, NEW Q \in Quorums, \A s \in Q : Settled(s, e[1], e[2])
        PROVE  \A s \in Q : Settled(s, e[1], e[2])'
    BY <1>1, <1>4, <1>5, <1>6, SettledStays
  <1>7. ASSUME NEW e \in elected', e \notin elected
        PROVE  \E Q \in Quorums : \A s \in Q : Settled(s, e[1], e[2])' /\
                   (Ballot(s, e[1], e[2]) \/ Ballot(s, e[1], e[2])')
    <2>1. ASSUME NEW Q \in Quorums, NEW s \in Q, Ballot(s, e[1], e[2])
          PROVE  Settled(s, e[1], e[2])'
      <3>1. Settled(s, e[1], e[2])
        BY <1>1, <1>3, <1>5, <2>1 DEF BallotsSettled
      <3>2. QED
        BY <1>1, <1>3, <1>5, <3>1, SettledStays
    <2>2. ASSUME NEW Q \in Quorums, NEW s \in Q, Ballot(s, e[1], e[2])'
          PROVE  Settled(s, e[1], e[2])'
      BY <1>2, <1>3, <1>5, <2>2 DEF BallotsSettled
    <2>3. CASE \E Q \in Quorums : \A s \in Q : Ballot(s, e[1], e[2])
      BY <2>1, <2>3
    <2>4. CASE \E Q \in Quorums : \A s \in Q : Ballot(s, e[1], e[2])'
      BY <2>2, <2>4
    <2>5. QED
      BY <1>7, <2>3, <2>4 DEF ElectStep
  <1>8. ElectedByQuorum'
    <2>1. Quorums' = Quorums
      BY DEF Quorums, quorum
    <2>2. ASSUME NEW e \in elected'
          PROVE  \E Q \in Quorums : \A s \in Q : Settled(s, e[1], e[2])'
      <3>1. CASE e \in elected
        BY <1>1, <1>6, <3>1 DEF ElectedByQuorum
      <3>2. CASE e \notin elected
        BY <1>7, <3>2
      <3>3. QED
        BY <3>1, <3>2
    <2>3. QED
      BY <2>1, <2>2 DEF ElectedByQuorum
  <1>9. ASSUME NEW e \in elected', NEW f \in elected', e \notin elected, e[1] = f[1]
        PROVE  e[2] = f[2]
    <2>1. PICK Q \in Quorums : \A s \in Q : Ballot(s, e[1], e[2]) \/ Ballot(s, e[1], e[2])'
      BY <1>7, <1>9
    <2>2. CASE f \in elected
      <3>1. PICK R \in Quorums : \A s \in R : Settled(s, f[1], f[2])
        BY <1>1, <2>2 DEF ElectedByQuorum
      <3>2. PICK s \in Server : s \in Q /\ s \in R
        BY QuorumsMeet
      <3>3. Settled(s, e[1], f[2]) /\ Settled(s, e[1], f[2])'
        BY <1>6, <1>9, <2>2, <3>1, <3>2
      <3>4. CASE Ballot(s, e[1], e[2])
        BY <1>3, <3>3, <3>4 DEF Settled
      <3>5. CASE Ballot(s, e[1], e[2])'
        BY <1>3, <3>3, <3>5 DEF Settled
      <3>6. QED
        BY <2>1, <3>2, <3>4, <3>5
    <2>3. CASE f \notin elected
      <3>1. PICK R \in Quorums : \A s \in R :
               /\ Settled(s, f[1], f[2])'
               /\ Ballot(s, f[1], f[2]) \/ Ballot(s, f[1], f[2])'
        BY <1>7, <2>3
      <3>2. PICK s \in Server : s \in Q /\ s \in R
        BY QuorumsMeet
      <3>3. CASE Ballot(s, e[1], e[2])'
        BY <1>3, <1>9, <3>1, <3>2, <3>3 DEF Settled
      <3>4. CASE Ballot(s, e[1], e[2])
        <4>1. Settled(s, e[1], e[2])
          BY <1>1, <1>3, <3>4 DEF BallotsSettled
        <4>2. Settled(s, e[1], e[2])'
          BY <1>1, <1>3, <4>1, SettledStays
        <4>3. CASE Ballot(s, f[1], f[2])
          BY <1>3, <1>9, <4>1, <4>3 DEF Settled
        <4>4. CASE Ballot(s, f[1], f[2])'
          BY <1>3, <1>9, <4>2, <4>4 DEF Settled
        <4>5. QED
          BY <3>1, <3>2, <4>3, <4>4
      <3>5. QED
        BY <2>1, <3>2, <3>3, <3>4
    <2>4. QED
      BY <2>2, <2>3
  <1>10. ElectionSafety'
    <2>1. ASSUME NEW e \in elected', NEW f \in elected', e[1] = f[1]
          PROVE  e[2] = f[2]
      <3>1. CASE e \notin elected
        BY <1>9, <2>1, <3>1
      <3>2. CASE f \notin elected
        BY <1>9, <2>1, <3>2
      <3>3. CASE e \in elected /\ f \in elected
        BY <1>1, <2>1, <3>3 DEF ElectionSafety
      <3>4. QED
        BY <3>1, <3>2, <3>3
    <2>2. QED
      BY <2>1 DEF ElectionSafety
  <1>11. QED
    BY <1>2, <1>8, <1>10 DEF ElectionInv-----------------------------------------------------------------------------
\* Messages that hold no granted vote.
LEMMA PostNoGrant ==
    ASSUME NEW rest \in SUBSET msgs, NEW out, Post(rest, out)
    PROVE  msgs' \subseteq msgs \cup out
  BY DEF Post

LEMMA ReceiveNoGrant ==
    ASSUME NEW m, NEW out, Receive(m, out)
    PROVE  msgs' \subseteq msgs \cup out
  <1>1. msgs \ {m} \in SUBSET msgs /\ msgs \in SUBSET msgs
    OBVIOUS
  <1>2. QED
    BY <1>1, PostNoGrant DEF Receive

LEMMA SendNoGrant ==
    ASSUME NEW out, Send(out)
    PROVE  msgs' \subseteq msgs \cup out
  <1>1. msgs \in SUBSET msgs
    OBVIOUS
  <1>2. QED
    BY <1>1, PostNoGrant DEF Send

LEMMA SendAppendsNoGrant ==
    ASSUME NEW i, NEW ps, NEW t, NEW st, NEW c, NEW prs, NEW id
    PROVE  NoGrant(SendAppends(i, ps, t, st, c, prs, id).msgs)
  <1>1. ASSUME NEW p
        PROVE  SendAppend(i, p, t, st, c, prs[p], id).msg.type \in {"App", "Snap"}
    BY DEF SendAppend, MsgApp, MsgSnap
  <1>2. QED
    BY <1>1 DEF SendAppends, NoGrant

LEMMA AppendEntriesNoGrant ==
    ASSUME NEW i, NEW t, NEW st, NEW c, NEW prs, NEW es
    PROVE  LET a == AppendEntries(i, t, st, c, prs, es)
           IN  NoGrant(a.early) /\ NoGrant(a.later)
  <1> DEFINE a == AppendEntries(i, t, st, c, prs, es)
  <1>1. NoGrant(a.early)
    BY DEF AppendEntries, NoGrant, MsgApp
  <1>2. NoGrant(a.later)
    BY SendAppendsNoGrant DEF AppendEntries
  <1>3. QED
    BY <1>1, <1>2

LEMMA ElectedNoGrant ==
    ASSUME NEW i, NEW t
    PROVE  NoGrant(Elected(i, t).early) /\ NoGrant(Elected(i, t).later)
  BY AppendEntriesNoGrant DEF Elected
-----------------------------------------------------------------------------
\* A step that changes no term and no vote, and sends none.
LEMMA QuietStep ==
    ASSUME TypeOK, UNCHANGED <<term, vote, votes, elected>>,
           NEW out, NoGrant(out), msgs' \subseteq msgs \cup out
    PROVE  VoteStep /\ BallotStep /\ ElectStep
  <1>1. VoteStep
    BY DEF VoteStep, TypeOK
  <1>2. BallotStep
    BY DEF BallotStep, Ballot, NoGrant
  <1>3. ElectStep
    BY DEF ElectStep
  <1>4. QED
    BY <1>1, <1>2, <1>3

\* A step in which i becomes, or stays, a follower, in its term or a later one.
LEMMA FollowStep ==
    ASSUME TypeOK, NEW i \in Server, NEW t \in Nat, t >= term[i],
           term' = [term EXCEPT ![i] = t],
           vote' = [vote EXCEPT ![i] = VoteIn(i, t)],
           votes' = [votes EXCEPT ![i] = NoVotes],
           NEW out, NoGrant(out), msgs' \subseteq msgs \cup out
    PROVE  VoteStep /\ BallotStep
  <1>1. /\ term \in [Server -> Nat] /\ vote \in [Server -> Server \cup {None}]
        /\ votes \in [Server -> [Server -> {"none", "granted", "denied"}]]
    BY DEF TypeOK
  <1>2. ASSUME NEW s \in Server
        PROVE  /\ term'[s] >= term[s]
               /\ term'[s] = term[s] /\ vote[s] # None => vote'[s] = vote[s]
    <2>1. CASE s = i
      BY <1>1, <2>1 DEF VoteIn
    <2>2. CASE s # i
      BY <1>1, <2>2
    <2>3. QED
      BY <2>1, <2>2
  <1>3. ASSUME NEW s \in Server, NEW c \in Server, NEW u \in Nat, Ballot(s, u, c)'
        PROVE  Ballot(s, u, c) \/ (term'[s] = u /\ vote'[s] = c)
    <2>1. CASE \E m \in msgs' : /\ m.type = "VoteResp" /\ ~m.reject
                                /\ m.from = s /\ m.to = c /\ m.term = u
      BY <2>1 DEF Ballot, NoGrant
    <2>2. CASE votes'[c][s] = "granted" /\ term'[c] = u
      <3>1. c # i
        BY <1>1, <2>2 DEF NoVotes
      <3>2. votes'[c] = votes[c] /\ term'[c] = term[c]
        BY <1>1, <3>1
      <3>3. QED
        BY <2>2, <3>2 DEF Ballot
    <2>3. CASE term'[s] = u /\ vote'[s] = c
      BY <2>3
    <2>4. QED
      BY <1>3, <2>1, <2>2, <2>3 DEF Ballot
  <1>4. QED
    BY <1>2, <1>3 DEF VoteStep, BallotStep

LEMMA SameElected ==
    ASSUME UNCHANGED elected
    PROVE  ElectStep
  BY DEF ElectStep
-----------------------------------------------------------------------------
LEMMA QuietActions ==
    ASSUME TypeOK, NEW i \in Server,
           \/ Heartbeat(i)
           \/ \E vals \in Batches : Propose(i, vals)
           \/ ReadIndex(i)
           \/ \E m \in msgs : \/ HandleStale(i, m)
                              \/ HandleUnexpectedResp(i, m)
                              \/ HandleAppendResp(i, m)
                              \/ HandleSnapshotResp(i, m)
    PROVE  VoteStep /\ BallotStep /\ ElectStep
  <1>0. NoGrant({})
    BY DEF NoGrant
  <1>1. CASE Heartbeat(i)
    <2> DEFINE out == SendAppends(i, Server \ {i}, term[i], store[i], commit[i], peer[i], 0).msgs
    <2>1. Send(out) /\ UNCHANGED <<term, vote, votes, elected>>
      BY <1>1, ZenonT(20) DEF Heartbeat, durable, role
    <2>2. NoGrant(out)
      BY SendAppendsNoGrant
    <2> HIDE DEF out
    <2>3. QED
      BY <2>1, <2>2, SendNoGrant, QuietStep
  <1>2. ASSUME NEW vals \in Batches, Propose(i, vals)
        PROVE  VoteStep /\ BallotStep /\ ElectStep
    <2> DEFINE es == [k \in 1..Len(vals) |-> [term |-> term[i], val |-> vals[k]]]
               a == AppendEntries(i, term[i], store[i], commit[i], peer[i], es)
    <2>1. Send(a.early \cup a.later) /\ UNCHANGED <<term, vote, votes, elected>>
      BY <1>2, ZenonT(20) DEF Propose, durable, role
    <2> HIDE DEF es
    <2>2. NoGrant(a.early) /\ NoGrant(a.later)
      BY AppendEntriesNoGrant, ZenonT(20)
    <2> HIDE DEF a
    <2>3. NoGrant(a.early \cup a.later)
      BY <2>2 DEF NoGrant
    <2>4. QED
      BY <2>1, <2>3, SendNoGrant, QuietStep, ZenonT(20)
  <1>3. CASE ReadIndex(i)
    <2> DEFINE out == SendAppends(i, Server \ {i}, term[i], store[i], commit[i], peer[i],
                                  nextReadID[i] + 1).msgs
    <2>1. /\ UNCHANGED <<term, vote, votes, elected>>
          /\ msgs' = msgs \/ Post(msgs, out)
      BY <1>3, ZenonT(20) DEF ReadIndex, durable, role
    <2>2. NoGrant(out)
      BY SendAppendsNoGrant, ZenonT(20)
    <2> HIDE DEF out
    <2>3. msgs' \subseteq msgs \cup out
      <3>1. msgs \in SUBSET msgs
        OBVIOUS
      <3>2. QED
        BY <2>1, <3>1, PostNoGrant
    <2>4. QED
      BY <2>1, <2>2, <2>3, QuietStep
  <1>4. ASSUME NEW m \in msgs, HandleStale(i, m)
        PROVE  VoteStep /\ BallotStep /\ ElectStep
    <2> DEFINE t == term[i]
               out == CASE m.type = "Vote" -> {MsgVoteResp(i, m.from, t, TRUE)}
                        [] m.type = "App"  -> {MsgAppResp(i, m.from, t, 0, TRUE, 0, 0, m.readID)}
                        [] m.type = "Snap" -> {MsgSnapResp(i, m.from, t, 0, 0, TRUE, FALSE)}
                        [] OTHER -> {}
    <2>1. Receive(m, out) /\ UNCHANGED <<term, vote, votes, elected>>
      BY <1>4 DEF HandleStale, durable, role
    <2>2. NoGrant(out)
      BY DEF NoGrant, MsgVoteResp, MsgAppResp, MsgSnapResp
    <2> HIDE DEF out
    <2>3. QED
      BY <2>1, <2>2, ReceiveNoGrant, QuietStep
  <1>5. ASSUME NEW m \in msgs, HandleUnexpectedResp(i, m)
        PROVE  VoteStep /\ BallotStep /\ ElectStep
    <2>1. Receive(m, {}) /\ UNCHANGED <<term, vote, votes, elected>>
      BY <1>5 DEF HandleUnexpectedResp, durable, role
    <2>2. QED
      BY <1>0, <2>1, ReceiveNoGrant, QuietStep
  <1>6. ASSUME NEW m \in msgs, NEW k, NEW always
        PROVE  NoGrant(Progress(i, m.from, k, always).sent.msgs)
    BY SendAppendsNoGrant, ZenonT(20) DEF Progress
  <1>7. ASSUME NEW m \in msgs, HandleAppendResp(i, m)
        PROVE  VoteStep /\ BallotStep /\ ElectStep
    <2> DEFINE p == m.from
               back == SendAppends(i, {p}, term[i], store[i], commit[i],
                          [peer[i] EXCEPT ![p].next =
                              NextAfterReject(store[i], m, peer[i][p].match)], 0).msgs
               fwd == Progress(i, p, m.index, FALSE).sent.msgs
    <2>1. /\ UNCHANGED <<term, vote, votes, elected>>
          /\ Receive(m, {}) \/ Receive(m, back) \/ Receive(m, fwd)
      BY <1>7, ZenonT(20) DEF HandleAppendResp, durable, role
    <2>2. NoGrant(back) /\ NoGrant(fwd)
      BY <1>6, SendAppendsNoGrant, ZenonT(20)
    <2> HIDE DEF back, fwd
    <2>3. CASE Receive(m, {})
      BY <1>0, <2>1, <2>3, ReceiveNoGrant, QuietStep
    <2>4. CASE Receive(m, back)
      BY <2>1, <2>2, <2>4, ReceiveNoGrant, QuietStep
    <2>5. CASE Receive(m, fwd)
      BY <2>1, <2>2, <2>5, ReceiveNoGrant, QuietStep
    <2>6. QED
      BY <2>1, <2>3, <2>4, <2>5
  <1>8. ASSUME NEW m \in msgs, HandleSnapshotResp(i, m)
        PROVE  VoteStep /\ BallotStep /\ ElectStep
    <2> DEFINE x == peer[i][m.from].snapOut
               y == [x EXCEPT !.offset = IF m.reject THEN 0 ELSE Max2(@, m.offset)]
               chunk == {MsgSnap(i, m.from, term[i], y)}
               fwd == Progress(i, m.from, m.index, TRUE).sent.msgs
    <2>1. /\ UNCHANGED <<term, vote, votes, elected>>
          /\ Receive(m, {}) \/ Receive(m, chunk) \/ Receive(m, fwd)
      BY <1>8, ZenonT(20) DEF HandleSnapshotResp, durable, role
    <2>2. NoGrant(chunk) /\ NoGrant(fwd)
      <3>1. NoGrant(chunk)
        <4> HIDE DEF y
        <4>1. MsgSnap(i, m.from, term[i], y).type = "Snap"
          BY DEF MsgSnap
        <4>2. QED
          BY <4>1 DEF NoGrant
      <3>2. QED
        BY <1>6, <3>1, ZenonT(20)
    <2> HIDE DEF chunk, fwd
    <2>3. CASE Receive(m, {})
      BY <1>0, <2>1, <2>3, ReceiveNoGrant, QuietStep
    <2>4. CASE Receive(m, chunk)
      BY <2>1, <2>2, <2>4, ReceiveNoGrant, QuietStep
    <2>5. CASE Receive(m, fwd)
      BY <2>1, <2>2, <2>5, ReceiveNoGrant, QuietStep
    <2>6. QED
      BY <2>1, <2>3, <2>4, <2>5
  <1>9. QED
    BY <1>1, <1>2, <1>3, <1>4, <1>5, <1>7, <1>8

LEMMA FollowActions ==
    ASSUME TypeOK, NEW i \in Server, NEW m \in msgs,
           HandleNewerResp(i, m) \/ HandleAppend(i, m) \/ HandleSnapshot(i, m)
    PROVE  VoteStep /\ BallotStep /\ ElectStep
  <1>1. m.term \in Nat /\ term[i] \in Nat
    BY MessageFields DEF TypeOK
  <1>2. NoGrant({})
    BY DEF NoGrant
  <1>3. CASE HandleNewerResp(i, m)
    <2>1. /\ term' = [term EXCEPT ![i] = m.term] /\ m.term > term[i]
          /\ vote' = [vote EXCEPT ![i] = None]
          /\ votes' = [votes EXCEPT ![i] = NoVotes]
          /\ Receive(m, {}) /\ UNCHANGED elected
      BY <1>3 DEF HandleNewerResp, BecomeFollower
    <2>2. vote' = [vote EXCEPT ![i] = VoteIn(i, m.term)] /\ m.term >= term[i]
      BY <1>1, <2>1 DEF VoteIn
    <2>3. QED
      BY <1>1, <1>2, <2>1, <2>2, ReceiveNoGrant, FollowStep, SameElected, ZenonT(20)
  <1>4. CASE HandleAppend(i, m)
    <2>1. /\ term' = [term EXCEPT ![i] = m.term] /\ m.term >= term[i]
          /\ vote' = [vote EXCEPT ![i] = VoteIn(i, m.term)]
          /\ votes' = [votes EXCEPT ![i] = NoVotes]
          /\ UNCHANGED elected
      BY <1>4, ZenonT(20) DEF HandleAppend, BecomeFollower
    <2>2. PICK k, reject, ct, ci :
             Receive(m, {MsgAppResp(i, m.from, m.term, k, reject, ct, ci, m.readID)})
      BY <1>4, ZenonT(20) DEF HandleAppend
    <2>3. NoGrant({MsgAppResp(i, m.from, m.term, k, reject, ct, ci, m.readID)})
      BY DEF NoGrant, MsgAppResp
    <2>4. QED
      BY <1>1, <2>1, <2>2, <2>3, ReceiveNoGrant, FollowStep, SameElected, ZenonT(20)
  <1>5. CASE HandleSnapshot(i, m)
    <2>1. /\ term' = [term EXCEPT ![i] = m.term] /\ m.term >= term[i]
          /\ vote' = [vote EXCEPT ![i] = VoteIn(i, m.term)]
          /\ votes' = [votes EXCEPT ![i] = NoVotes]
          /\ UNCHANGED elected
      BY <1>5, ZenonT(20) DEF HandleSnapshot, BecomeFollower
    <2>2. PICK k, off, reject, done :
             Receive(m, {MsgSnapResp(i, m.from, m.term, k, off, reject, done)})
      BY <1>5, ZenonT(20) DEF HandleSnapshot
    <2>3. NoGrant({MsgSnapResp(i, m.from, m.term, k, off, reject, done)})
      BY DEF NoGrant, MsgSnapResp
    <2>4. QED
      BY <1>1, <2>1, <2>2, <2>3, ReceiveNoGrant, FollowStep, SameElected, ZenonT(20)
  <1>6. QED
    BY <1>3, <1>4, <1>5

\* A crash, with no granted vote among the messages it lets out.
LEMMA CrashStep ==
    ASSUME TypeOK, NEW i \in Server, NEW t \in Nat, t >= term[i], NEW st,
           Crash(i, t, VoteIn(i, t), st),
           NEW out, NoGrant(out), msgs' \subseteq msgs \cup out
    PROVE  VoteStep /\ BallotStep
  <1>1. /\ term' = [term EXCEPT ![i] = t]
        /\ vote' = [vote EXCEPT ![i] = VoteIn(i, t)]
        /\ votes' = [votes EXCEPT ![i] = NoVotes]
    BY DEF Crash
  <1>2. QED
    BY <1>1, FollowStep, ZenonT(20)

LEMMA CrashActions ==
    ASSUME TypeOK, NEW i \in Server, Crashes(i)
    PROVE  VoteStep /\ BallotStep /\ ElectStep
  <1>1. term[i] \in Nat /\ vote[i] = VoteIn(i, term[i]) /\ \A m \in msgs : m.term \in Nat
    <2>1. term[i] \in Nat /\ msgs \subseteq Message
      BY DEF TypeOK
    <2>2. ~(term[i] > term[i])
      BY <2>1
    <2>3. vote[i] = VoteIn(i, term[i])
      BY <2>2, ZenonT(20) DEF VoteIn
    <2>4. ASSUME NEW m \in msgs
          PROVE  m.term \in Nat
      <3>1. m \in Message
        BY <2>1
      <3>2. QED
        BY <3>1, MessageFields
    <2>5. QED
      BY <2>1, <2>3, <2>4, ZenonT(20)
  <1>2. NoGrant({})
    BY DEF NoGrant
  <1>3. CASE Restart(i)
    <2>1. Crash(i, term[i], VoteIn(i, term[i]), store[i]) /\ UNCHANGED <<msgs, elected>>
      BY <1>1, <1>3 DEF Restart
    <2>2. QED
      BY <1>1, <1>2, <2>1, CrashStep, SameElected
  <1>4. ASSUME NEW m \in msgs, CrashInStep(i, m)
        PROVE  VoteStep /\ BallotStep /\ ElectStep
    <2>1. /\ m.term > term[i] /\ Crash(i, m.term, None, store[i]) /\ Receive(m, {})
          /\ UNCHANGED elected
      BY <1>4 DEF CrashInStep
    <2>2. VoteIn(i, m.term) = None
      BY <2>1 DEF VoteIn
    <2>3. msgs' \subseteq msgs \cup {}
      BY <2>1, ReceiveNoGrant
    <2>4. m.term \in Nat /\ m.term >= term[i] /\ Crash(i, m.term, VoteIn(i, m.term), store[i])
      BY <1>1, <2>1, <2>2
    <2>5. VoteStep /\ BallotStep
      BY <1>2, <2>3, <2>4, CrashStep
    <2>6. QED
      BY <2>1, <2>5, SameElected
  <1>5. ASSUME NEW m \in msgs, CrashInHandleAppend(i, m)
        PROVE  VoteStep /\ BallotStep /\ ElectStep
    <2>1. m.term >= term[i] /\ Receive(m, {}) /\ UNCHANGED elected
      BY <1>5 DEF CrashInHandleAppend
    <2>2. \E st : Crash(i, m.term, VoteIn(i, m.term), st)
      BY <1>5 DEF CrashInHandleAppend
    <2>3. msgs' \subseteq msgs \cup {}
      BY <2>1, ReceiveNoGrant
    <2>4. m.term \in Nat
      BY <1>1
    <2>5. VoteStep /\ BallotStep
      BY <1>2, <2>1, <2>2, <2>3, <2>4, CrashStep
    <2>6. QED
      BY <2>1, <2>5, SameElected
  <1>6. ASSUME NEW vals \in Batches, CrashInPropose(i, vals)
        PROVE  VoteStep /\ BallotStep /\ ElectStep
    <2>1. PICK es :
            Send(AppendEntries(i, term[i], store[i], commit[i], peer[i], es).early)
      BY <1>6, ZenonT(20) DEF CrashInPropose
    <2> DEFINE out == AppendEntries(i, term[i], store[i], commit[i], peer[i], es).early
    <2>2. Send(out) /\ NoGrant(out)
      BY <2>1, AppendEntriesNoGrant, ZenonT(20)
    <2> HIDE DEF out
    <2>3. UNCHANGED elected
      BY <1>6, ZenonT(20) DEF CrashInPropose
    <2>4. \E st : Crash(i, term[i], VoteIn(i, term[i]), st)
      BY <1>1, <1>6 DEF CrashInPropose
    <2>5. QED
      BY <1>1, <2>2, <2>3, <2>4, SendNoGrant, CrashStep, SameElected
  <1>7. ASSUME NEW m \in msgs, m.to = i, CrashInBecomeLeader(i, m)
        PROVE  VoteStep /\ BallotStep /\ ElectStep
    <2> DEFINE Q == {p \in Server : votes[i][p] = "granted"} \cup {m.from}
               out == Elected(i, term[i]).early
    <2>1. /\ m.type = "VoteResp" /\ m.term = term[i] /\ ~m.reject /\ Q \in Quorums
          /\ Crash(i, term[i], vote[i], store[i]) /\ Receive(m, out)
          /\ elected' = elected \cup {<<term[i], i>>}
      BY <1>7, ZenonT(20) DEF CrashInBecomeLeader
    <2>2. NoGrant(out)
      BY ElectedNoGrant
    <2> HIDE DEF out
    <2>3. \A s \in Q : Ballot(s, term[i], i)
      BY <1>7, <2>1, ZenonT(20) DEF Ballot
    <2> HIDE DEF Q
    <2>4. ElectStep
      BY <1>1, <2>1, <2>3 DEF ElectStep
    <2>5. VoteStep /\ BallotStep
      BY <1>1, <2>1, <2>2, ReceiveNoGrant, CrashStep
    <2>6. QED
      BY <2>4, <2>5
  <1>8. QED
    BY <1>3, <1>4, <1>5, <1>6, <1>7 DEF Crashes
-----------------------------------------------------------------------------
LEMMA TimeoutStep ==
    ASSUME TypeOK, NEW i \in Server, Timeout(i)
    PROVE  VoteStep /\ BallotStep /\ ElectStep
  <1>1. /\ term \in [Server -> Nat] /\ vote \in [Server -> Server \cup {None}]
        /\ votes \in [Server -> [Server -> {"none", "granted", "denied"}]]
    BY DEF TypeOK
  <1>0. PICK t \in Nat : t = term[i] + 1
    BY <1>1
  <1> DEFINE out == {MsgVote(i, p, t, store[i]) : p \in Server \ {i}}
  <1>2. /\ term' = [term EXCEPT ![i] = t]
        /\ vote' = [vote EXCEPT ![i] = i]
        /\ votes' = [votes EXCEPT ![i] = [NoVotes EXCEPT ![i] = "granted"]]
    BY <1>0, ZenonT(20) DEF Timeout
  <1>3. \/ quorum = 1 /\ msgs' = msgs /\ elected' = elected \cup {<<t, i>>}
        \/ Post(msgs, out) /\ UNCHANGED elected
    BY <1>0 DEF Timeout, BecomeLeader
  <1>4. msgs' \subseteq msgs \cup out
    <2>1. msgs \in SUBSET msgs
      OBVIOUS
    <2>2. QED
      BY <1>3, <2>1, PostNoGrant
  <1>5. NoGrant(out)
    BY DEF NoGrant, MsgVote
  <1> HIDE DEF out
  <1>6. t \in Nat /\ t > term[i]
    BY <1>0, <1>1
  <1>7. term'[i] = t /\ vote'[i] = i
    BY <1>1, <1>2
  <1>8. VoteStep
    <2>1. ASSUME NEW s \in Server
          PROVE  /\ term'[s] >= term[s]
                 /\ term'[s] = term[s] /\ vote[s] # None => vote'[s] = vote[s]
      <3>1. CASE s = i
        BY <1>1, <1>6, <1>7, <3>1
      <3>2. CASE s # i
        BY <1>1, <1>2, <3>2
      <3>3. QED
        BY <3>1, <3>2
    <2>2. QED
      BY <2>1 DEF VoteStep
  <1>9. BallotStep
    <2>1. ASSUME NEW s \in Server, NEW c \in Server, NEW u \in Nat, Ballot(s, u, c)'
          PROVE  Ballot(s, u, c) \/ (term'[s] = u /\ vote'[s] = c)
      <3>1. CASE \E m \in msgs' : /\ m.type = "VoteResp" /\ ~m.reject
                                  /\ m.from = s /\ m.to = c /\ m.term = u
        BY <1>4, <1>5, <3>1 DEF Ballot, NoGrant
      <3>2. CASE votes'[c][s] = "granted" /\ term'[c] = u /\ c = i
        <4>1. s = i
          BY <1>1, <1>2, <3>2 DEF NoVotes
        <4>2. QED
          BY <1>7, <3>2, <4>1
      <3>3. CASE votes'[c][s] = "granted" /\ term'[c] = u /\ c # i
        <4>1. votes'[c] = votes[c] /\ term'[c] = term[c]
          BY <1>1, <1>2, <3>3
        <4>2. QED
          BY <3>3, <4>1 DEF Ballot
      <3>4. QED
        BY <2>1, <3>1, <3>2, <3>3 DEF Ballot
    <2>2. QED
      BY <2>1 DEF BallotStep
  <1>10. ElectStep
    <2>1. CASE quorum = 1 /\ elected' = elected \cup {<<t, i>>}
      <3>1. {i} \in Quorums
        <4>1. Cardinality({i}) = 1
          BY FS_Singleton, ZenonT(20)
        <4>2. QED
          BY <2>1, <4>1 DEF Quorums
      <3>2. Ballot(i, t, i)'
        BY <1>7 DEF Ballot
      <3>3. QED
        BY <1>6, <2>1, <3>1, <3>2 DEF ElectStep
    <2>2. CASE UNCHANGED elected
      BY <2>2, SameElected
    <2>3. QED
      BY <1>3, <2>1, <2>2
  <1>11. QED
    BY <1>8, <1>9, <1>10

LEMMA HandleVoteStep ==
    ASSUME TypeOK, NEW i \in Server, NEW m \in msgs, m.to = i, HandleVote(i, m)
    PROVE  VoteStep /\ BallotStep /\ ElectStep
  <1> DEFINE grant == CanVote(i, m) /\ UpToDate(m, store[i])
             resp == MsgVoteResp(i, m.from, m.term, ~grant)
  <1>1. /\ term \in [Server -> Nat] /\ vote \in [Server -> Server \cup {None}]
        /\ votes \in [Server -> [Server -> {"none", "granted", "denied"}]]
    BY DEF TypeOK
  <1>2. m.term \in Nat /\ m.from \in Server
    BY MessageFields, ZenonT(20) DEF TypeOK
  <1>3. /\ m.term >= term[i]
        /\ vote' = [vote EXCEPT ![i] = IF grant THEN m.from ELSE VoteIn(i, m.term)]
        /\ Receive(m, {resp}) /\ UNCHANGED elected
    BY ZenonT(20) DEF HandleVote
  <1>0. m.term > term[i] \/ m.term = term[i]
    <2>1. m.term >= term[i]
      BY ZenonT(20) DEF HandleVote
    <2>2. term[i] \in Nat
      BY <1>1
    <2>3. QED
      BY <1>2, <2>1, <2>2
  <1>4. /\ term' = [term EXCEPT ![i] = m.term]
        /\ m.term = term[i] => votes' = votes
    <2>1. CASE m.term > term[i]
      <3>1. term' = [term EXCEPT ![i] = m.term]
        BY <2>1, ZenonT(20) DEF HandleVote, BecomeFollower
      <3>2. term[i] \in Nat
        BY <1>1
      <3>3. m.term # term[i]
        BY <1>2, <2>1, <3>2
      <3>4. QED
        BY <3>1, <3>3
    <2>2. CASE m.term = term[i]
      <3>1. ~(m.term > term[i])
        BY <1>1, <2>2
      <3>2. term' = term /\ votes' = votes
        BY <3>1 DEF HandleVote, role
      <3>3. QED
        BY <1>1, <2>2, <3>2
    <2>3. QED
      BY <1>0, <2>1, <2>2
  <1>5. m.term > term[i] => votes' = [votes EXCEPT ![i] = NoVotes]
    BY ZenonT(20) DEF HandleVote, BecomeFollower
  <1>6. grant /\ m.term = term[i] => vote[i] = m.from \/ vote[i] = None
    BY <1>1, <1>2 DEF CanVote
  <1>7. msgs' \subseteq msgs \cup {resp}
    BY <1>3, ReceiveNoGrant, ZenonT(20)
  <1>8. /\ resp.from = i /\ resp.to = m.from /\ resp.term = m.term
        /\ ~resp.reject => grant
    BY ZenonT(20) DEF MsgVoteResp
  <1> HIDE DEF grant, resp
  <1>9. VoteStep
    <2>1. ASSUME NEW s \in Server
          PROVE  /\ term'[s] >= term[s]
                 /\ term'[s] = term[s] /\ vote[s] # None => vote'[s] = vote[s]
      <3>1. CASE s = i
        BY <1>1, <1>2, <1>3, <1>4, <1>6, <3>1 DEF VoteIn
      <3>2. CASE s # i
        BY <1>1, <1>3, <1>4, <3>2
      <3>3. QED
        BY <3>1, <3>2
    <2>2. QED
      BY <2>1, ZenonT(20) DEF VoteStep
  <1>10. BallotStep
    <2>1. ASSUME NEW s \in Server, NEW c \in Server, NEW u \in Nat, Ballot(s, u, c)'
          PROVE  Ballot(s, u, c) \/ (term'[s] = u /\ vote'[s] = c)
      <3>1. ASSUME NEW n \in msgs', n.type = "VoteResp", ~n.reject, n.from = s, n.to = c,
                   n.term = u
            PROVE  Ballot(s, u, c) \/ (term'[s] = u /\ vote'[s] = c)
        <4>1. CASE n \in msgs
          BY <3>1, <4>1 DEF Ballot
        <4>2. CASE n = resp
          <5>1. grant /\ s = i /\ c = m.from /\ u = m.term
            BY <1>8, <3>1, <4>2
          <5>2. QED
            BY <1>1, <1>3, <1>4, <5>1
        <4>3. QED
          BY <1>7, <4>1, <4>2
      <3>2. CASE votes'[c][s] = "granted" /\ term'[c] = u
        <4>1. CASE c = i /\ m.term > term[i]
          <5>1. votes'[c] = NoVotes
            BY <1>1, <1>5, <4>1
          <5>2. QED
            BY <3>2, <5>1 DEF NoVotes
        <4>2. CASE c # i \/ m.term = term[i]
          <5>1. CASE c # i
            <6>1. votes'[c] = votes[c] /\ term'[c] = term[c]
              BY <1>0, <1>1, <1>4, <1>5, <5>1
            <6>2. QED
              BY <3>2, <6>1 DEF Ballot
          <5>2. CASE m.term = term[i]
            <6>1. votes' = votes /\ term' = term
              BY <1>1, <1>4, <5>2
            <6>2. QED
              BY <3>2, <6>1 DEF Ballot
          <5>3. QED
            BY <4>2, <5>1, <5>2
        <4>3. QED
          BY <1>0, <4>1, <4>2
      <3>3. QED
        BY <2>1, <3>1, <3>2, ZenonT(20) DEF Ballot
    <2>2. QED
      BY <2>1 DEF BallotStep
  <1>11. QED
    BY <1>3, <1>9, <1>10, SameElected

LEMMA HandleVoteRespStep ==
    ASSUME TypeOK, NEW i \in Server, NEW m \in msgs, m.to = i, HandleVoteResp(i, m)
    PROVE  VoteStep /\ BallotStep /\ ElectStep
  <1> DEFINE v == [votes[i] EXCEPT ![m.from] = IF m.reject THEN "denied" ELSE "granted"]
             Q == {p \in Server : v[p] = "granted"}
             out == Elected(i, term[i]).early \cup Elected(i, term[i]).later
  <1>1. /\ term \in [Server -> Nat] /\ vote \in [Server -> Server \cup {None}]
        /\ votes \in [Server -> [Server -> {"none", "granted", "denied"}]]
    BY DEF TypeOK
  <1>2. m.term \in Nat /\ m.from \in Server
    BY MessageFields, ZenonT(20) DEF TypeOK
  <1>3. m.type = "VoteResp" /\ m.term = term[i]
    BY DEF HandleVoteResp
  <1>4. \/ /\ votes' = [votes EXCEPT ![i] = v] /\ UNCHANGED <<term, vote>>
           /\ Receive(m, out) \/ Receive(m, {})
           /\ \/ elected' = elected \cup {<<term[i], i>>} /\ Q \in Quorums
              \/ UNCHANGED elected
        \/ /\ votes' = [votes EXCEPT ![i] = NoVotes]
           /\ term' = [term EXCEPT ![i] = term[i]] /\ UNCHANGED <<vote, elected>>
           /\ Receive(m, {})
    BY DEF HandleVoteResp, BecomeLeader, BecomeFollower, durable
  <1>5. NoGrant(out) /\ NoGrant({})
    BY ElectedNoGrant DEF NoGrant
  <1> HIDE DEF out
  <1>6. CASE /\ votes' = [votes EXCEPT ![i] = v] /\ UNCHANGED <<term, vote>>
             /\ Receive(m, out) \/ Receive(m, {})
             /\ \/ elected' = elected \cup {<<term[i], i>>} /\ Q \in Quorums
                \/ UNCHANGED elected
    <2>1. VoteStep
      BY <1>1, <1>6 DEF VoteStep
    <2>2. msgs' \subseteq msgs \cup out
      BY <1>6, ReceiveNoGrant
    <2>3. BallotStep
      <3>1. ASSUME NEW s \in Server, NEW c \in Server, NEW u \in Nat, Ballot(s, u, c)'
            PROVE  Ballot(s, u, c)
        <4>1. CASE \E n \in msgs' : /\ n.type = "VoteResp" /\ ~n.reject
                                    /\ n.from = s /\ n.to = c /\ n.term = u
          BY <1>5, <2>2, <4>1 DEF Ballot, NoGrant
        <4>2. CASE votes'[c][s] = "granted" /\ term'[c] = u
          <5>1. CASE c = i /\ s = m.from
            <6>1. ~m.reject
              BY <1>1, <1>2, <1>6, <4>2, <5>1
            <6>2. QED
              BY <1>3, <1>6, <4>2, <5>1, <6>1 DEF Ballot
          <5>2. CASE c # i \/ s # m.from
            <6>1. votes'[c][s] = votes[c][s]
              BY <1>1, <1>2, <1>6, <5>2
            <6>2. QED
              BY <1>6, <4>2, <6>1 DEF Ballot
          <5>3. QED
            BY <5>1, <5>2
        <4>3. QED
          BY <1>6, <3>1, <4>1, <4>2 DEF Ballot
      <3>2. QED
        BY <3>1 DEF BallotStep
    <2>4. ElectStep
      <3>1. CASE elected' = elected \cup {<<term[i], i>>} /\ Q \in Quorums
        <4>1. PICK t \in Nat, G \in Quorums : t = term[i] /\ G = Q
          BY <1>1, <3>1
        <4>2. votes'[i] = v /\ term'[i] = t
          BY <1>1, <1>6, <4>1
        <4>3. \A s \in G : Ballot(s, t, i)'
          BY <4>1, <4>2 DEF Ballot
        <4>4. elected' = elected \cup {<<t, i>>}
          BY <3>1, <4>1
        <4>5. QED
          BY <4>3, <4>4 DEF ElectStep
      <3>2. CASE UNCHANGED elected
        BY <3>2, SameElected
      <3>3. QED
        BY <1>6, <3>1, <3>2
    <2>5. QED
      BY <2>1, <2>3, <2>4
  <1>7. CASE /\ votes' = [votes EXCEPT ![i] = NoVotes]
             /\ term' = [term EXCEPT ![i] = term[i]] /\ UNCHANGED <<vote, elected>>
             /\ Receive(m, {})
    <2>1. vote' = [vote EXCEPT ![i] = VoteIn(i, term[i])] /\ term[i] \in Nat
      BY <1>1, <1>7 DEF VoteIn
    <2>2. msgs' \subseteq msgs \cup {} /\ term[i] >= term[i]
      BY <1>1, <1>7, ReceiveNoGrant
    <2>3. VoteStep /\ BallotStep
      BY <1>5, <1>7, <2>1, <2>2, FollowStep, ZenonT(20)
    <2>4. QED
      BY <1>7, <2>3, SameElected
  <1>8. QED
    BY <1>4, <1>6, <1>7
-----------------------------------------------------------------------------
LEMMA NextElectionStep ==
    ASSUME TypeOK, [Next]_vars
    PROVE  VoteStep /\ BallotStep /\ ElectStep
  <1>1. ASSUME NEW i \in Server, Timeout(i)
        PROVE  VoteStep /\ BallotStep /\ ElectStep
    BY <1>1, TimeoutStep
  <1>2. ASSUME NEW i \in Server,
               Heartbeat(i) \/ (\E vals \in Batches : Propose(i, vals)) \/ ReadIndex(i)
        PROVE  VoteStep /\ BallotStep /\ ElectStep
    BY <1>2, QuietActions
  <1>3. ASSUME NEW i \in Server, Step(i)
        PROVE  VoteStep /\ BallotStep /\ ElectStep
    <2>1. PICK m \in msgs : m.to = i /\ (HandleStale(i, m) \/ Handle(i, m))
      BY <1>3 DEF Step
    <2>2. CASE \/ HandleStale(i, m) \/ HandleUnexpectedResp(i, m)
               \/ HandleAppendResp(i, m) \/ HandleSnapshotResp(i, m)
      BY <2>2, QuietActions
    <2>3. CASE HandleNewerResp(i, m) \/ HandleAppend(i, m) \/ HandleSnapshot(i, m)
      BY <2>3, FollowActions
    <2>4. CASE HandleVote(i, m)
      BY <2>1, <2>4, HandleVoteStep
    <2>5. CASE HandleVoteResp(i, m)
      BY <2>1, <2>5, HandleVoteRespStep
    <2>6. QED
      BY <2>1, <2>2, <2>3, <2>4, <2>5 DEF Handle
  <1>4. ASSUME NEW i \in Server, Crashes(i)
        PROVE  VoteStep /\ BallotStep /\ ElectStep
    BY <1>4, CrashActions
  <1>5. CASE UNCHANGED vars
    <2>1. UNCHANGED <<term, vote, votes, elected, msgs>>
      BY <1>5 DEF vars
    <2>2. NoGrant({})
      BY DEF NoGrant
    <2>3. QED
      BY <2>1, <2>2, QuietStep
  <1>6. QED
    BY <1>1, <1>2, <1>3, <1>4, <1>5 DEF Next

\* A node's term never decreases and it votes at most once in a term: Timeout,
\* handleVote and becomeFollower write both to disk before anything is sent, and
\* a restart reads them back.
THEOREM VoteOnceCorrect == Spec => VoteOnce
  <1>1. TypeOK /\ [Next]_vars =>
            [\A i \in Server :
                /\ term'[i] >= term[i]
                /\ term'[i] = term[i] /\ vote[i] # None => vote'[i] = vote[i]]_vars
    BY NextElectionStep DEF VoteStep
  <1>2. QED
    BY <1>1, TypeCorrect, PTL DEF Spec, VoteOnce

LEMMA InitElection == Init => ElectionInv
  <1> SUFFICES ASSUME Init
               PROVE  ElectionInv
    OBVIOUS
  <1>1. \A s, c \in Server, t \in Nat : ~Ballot(s, t, c)
    BY DEF Init, Ballot, NoVotes
  <1>2. BallotsSettled
    BY <1>1 DEF BallotsSettled
  <1>3. ElectedByQuorum /\ ElectionSafety
    BY DEF Init, ElectedByQuorum, ElectionSafety
  <1>4. QED
    BY <1>2, <1>3, InitType DEF ElectionInv

\* At most one node is elected in a term (handleVote, countVotes, becomeLeader).
THEOREM ElectionSafe == Spec => []ElectionSafety
  <1>1. ElectionInv /\ [Next]_vars => ElectionInv'
    <2> SUFFICES ASSUME ElectionInv, [Next]_vars
                 PROVE  ElectionInv'
      OBVIOUS
    <2>1. TypeOK
      BY DEF ElectionInv
    <2>2. TypeOK' /\ VoteStep /\ BallotStep /\ ElectStep
      BY <2>1, NextType, NextElectionStep
    <2>3. QED
      BY <2>2, ElectionInvStep
  <1>2. ElectionInv => ElectionSafety
    BY DEF ElectionInv
  <1>3. QED
    BY <1>1, <1>2, InitElection, PTL DEF Spec

=============================================================================
