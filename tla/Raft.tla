-------------------------------- MODULE Raft --------------------------------
(***************************************************************************)
(* The consensus core of Keystone: raft.Raft (raft/raft.go and             *)
(* raft/snapshot.go) on every member of one Raft group, over the LogStore, *)
(* driven the way raft.Node drives it (raft/node.go), and the network      *)
(* between them.                                                           *)
(*                                                                         *)
(* A node handles one message, tick, proposal or read at a time under      *)
(* Node.mu, so each is one action; a crash inside one of them is modelled  *)
(* where it leaves something on disk or on the wire that no crash between  *)
(* two actions leaves.  Timers are left out: an election timeout and a     *)
(* heartbeat may happen at any time.                                       *)
(***************************************************************************)
EXTENDS LogStore, FiniteSets

CONSTANTS
    Server,         \* the members of the group
    Value,          \* payloads of proposals
    None,           \* no node
    Noop,           \* the payload of the entry a new leader appends
    MaxBatch,       \* Config.MaxBatch, entries in one MsgApp
    SnapChunk,      \* Config.SnapshotChunk, elements of data in one MsgSnap
    SnapGap,        \* NodeConfig.SnapshotThreshold; 0 disables snapshots
    MaxTerm,        \* bound: no election starts above this term
    MaxLog,         \* bound: no proposal makes a log longer than this
    MaxPropose,     \* bound: proposals appended in one batch
    MaxReads,       \* bound: ReadIndex rounds started by one process
    MaxRestarts,    \* bound: crashes, over all nodes
    Lossy,          \* whether the network may lose messages
    MaxInFlight,    \* bound: messages in flight at once
    BeatWindow,     \* bound: no heartbeat goes out with this many in flight
    MaxDups         \* bound: deliveries after which the message stays

ASSUME RaftConstants ==
    /\ IsFiniteSet(Server)
    /\ None \notin Server
    /\ Noop \notin Value
    /\ MaxBatch \in Nat \ {0}
    /\ SnapChunk \in Nat \ {0}
    /\ SnapGap \in Nat
    /\ Lossy \in BOOLEAN

VARIABLES
    term,       \* term[i], vote[i]: currentTerm and votedFor, durable
    vote,
    store,      \* store[i]: the durable log and snapshot
    state,      \* state[i]: Follower, Candidate or Leader
    lead,       \* lead[i]: the leader i knows of in its term
    commit,     \* commit[i]: what i knows committed, and has applied
    votes,      \* votes[i][p]: the answer of p to the candidate i
    peer,       \* peer[i][p]: next, match and snapOut of the leader i for p
    reads,      \* reads[i]: the ReadIndex rounds that await a majority
    nextReadID,
    snapIn,     \* snapIn[i]: the snapshot i is receiving
    msgs,       \* messages sent and not yet gone
    dups,
    restarts,
    committed,  \* history: every entry ever committed, and in which term
    elected,    \* history: <<t, i>> for every election i won in term t
    served      \* history: the rounds that reached a majority

durable == <<term, vote>>
role    == <<state, lead, votes>>
leading == <<peer, reads>>
vars == <<term, vote, store, state, lead, commit, votes, peer, reads,
          nextReadID, snapIn, msgs, dups, restarts, committed, elected, served>>
-----------------------------------------------------------------------------
Entry == [term : Nat, val : Value \cup {Noop}]

quorum == Cardinality(Server) \div 2 + 1
Quorums == {Q \in SUBSET Server : Cardinality(Q) >= quorum}

\* A snapshot in transit, sent (snapOut) or received (snapIn).  A snapshot has
\* an index above 0, so index 0 is the nil pointer.
NoTransfer == [index |-> 0, term |-> 0, data |-> <<>>, offset |-> 0]

\* What is left of the leader's maps on a node that is not leader.
NoPeer  == [next |-> 1, match |-> 0, snapOut |-> NoTransfer]
NoPeers == [p \in Server |-> NoPeer]
NoVotes == [p \in Server |-> "none"]

Min2(a, b) == IF a < b THEN a ELSE b
Max2(a, b) == IF a > b THEN a ELSE b

\* send: every message is stamped with its sender and the sender's term.
MsgVote(i, p, t, st) ==
    [type |-> "Vote", from |-> i, to |-> p, term |-> t,
     index |-> LastIndex(st), logTerm |-> LastTerm(st)]
MsgVoteResp(i, p, t, reject) ==
    [type |-> "VoteResp", from |-> i, to |-> p, term |-> t, reject |-> reject]
MsgApp(i, p, t, prev, prevTerm, es, c, id) ==
    [type |-> "App", from |-> i, to |-> p, term |-> t, index |-> prev,
     logTerm |-> prevTerm, entries |-> es, commit |-> c, readID |-> id]
MsgAppResp(i, p, t, k, reject, ct, ci, id) ==
    [type |-> "AppResp", from |-> i, to |-> p, term |-> t, index |-> k,
     reject |-> reject, conflictTerm |-> ct, conflictIndex |-> ci, readID |-> id]
MsgSnap(i, p, t, x) ==
    LET end == Min2(x.offset + SnapChunk, Len(x.data))
    IN  [type |-> "Snap", from |-> i, to |-> p, term |-> t, index |-> x.index,
         logTerm |-> x.term, data |-> SubSeq(x.data, x.offset + 1, end),
         offset |-> x.offset, done |-> end = Len(x.data)]
MsgSnapResp(i, p, t, k, off, reject, done) ==
    [type |-> "SnapResp", from |-> i, to |-> p, term |-> t, index |-> k,
     offset |-> off, reject |-> reject, done |-> done]

Message ==
         [type : {"Vote"}, from : Server, to : Server, term : Nat,
          index : Nat, logTerm : Int]
    \cup [type : {"VoteResp"}, from : Server, to : Server, term : Nat,
          reject : BOOLEAN]
    \cup [type : {"App"}, from : Server, to : Server, term : Nat, index : Nat,
          logTerm : Int, entries : Seq(Entry), commit : Nat, readID : Nat]
    \cup [type : {"AppResp"}, from : Server, to : Server, term : Nat,
          index : Nat, reject : BOOLEAN, conflictTerm : Int,
          conflictIndex : Nat, readID : Nat]
    \cup {m \in [type : {"Snap"}, from : Server, to : Server, term : Nat, index : Nat,
                 logTerm : Int, data : Seq(Entry), offset : Nat, done : BOOLEAN] :
             /\ m.offset + Len(m.data) <= m.index
             /\ m.done => m.offset + Len(m.data) = m.index}
    \cup {m \in [type : {"SnapResp"}, from : Server, to : Server, term : Nat, index : Nat,
                 offset : Nat, reject : BOOLEAN, done : BOOLEAN] : m.offset <= m.index}
-----------------------------------------------------------------------------
\* sendSnapshot and sendChunk: a transfer of a snapshot that has been replaced
\* starts over with the new one.
Transfer(st, x) ==
    IF x.index = st.snapIdx THEN x
    ELSE [index |-> st.snapIdx, term |-> st.snapTerm, data |-> st.snap, offset |-> 0]

\* Bug: a follower whose entries are gone is probed and never sent a snapshot.
SendAppend_NoSnapshot(i, p, t, st, c, pr, id) ==
    LET prev == Max2(pr.next - 1, st.snapIdx)
        last == Min2(pr.next + MaxBatch - 1, LastIndex(st))
    IN  [msg  |-> MsgApp(i, p, t, prev, Term(st, prev),
                         IF pr.next = prev + 1 THEN Entries(st, pr.next, last) ELSE <<>>,
                         c, id),
         peer |-> IF pr.next = prev + 1 THEN [pr EXCEPT !.next = Max2(@, last + 1)] ELSE pr]

\* sendAppend, for the leader i of term t with log st and commit index c, to a
\* follower p with progress pr: the message, and the progress after it.
SendAppend(i, p, t, st, c, pr, id) ==
    LET first == FirstIndex(st)
        last  == Min2(pr.next + MaxBatch - 1, LastIndex(st))
        x     == Transfer(st, pr.snapOut)
    IN  IF pr.next >= first
        THEN [msg  |-> MsgApp(i, p, t, pr.next - 1, Term(st, pr.next - 1),
                              Entries(st, pr.next, last), c, id),
              peer |-> [pr EXCEPT !.next = Max2(pr.next, last + 1)]]
        ELSE IF id = 0
        THEN [msg  |-> MsgSnap(i, p, t, x), peer |-> [pr EXCEPT !.snapOut = x]]
        ELSE [msg  |-> MsgApp(i, p, t, first - 1, Term(st, first - 1), <<>>, c, id),
              peer |-> pr]

\* sendAppend to every p in ps: the messages, and the progress of all.
SendAppends(i, ps, t, st, c, prs, id) ==
    LET Sent(p) == SendAppend(i, p, t, st, c, prs[p], id)
    IN  [msgs |-> {Sent(p).msg : p \in ps},
         peer |-> [p \in Server |-> IF p \in ps THEN Sent(p).peer ELSE prs[p]]]

\* Bug: one follower too few is asked for.
QuorumMatch_OffByOne(prs) ==
    LET Holding(n) == Cardinality({p \in Server : prs[p].match >= n})
    IN  CHOOSE n \in {prs[p].match : p \in Server} :
            Holding(n) >= quorum - 1 /\ Holding(n + 1) < quorum - 1

\* maybeCommit: the highest index a majority holds, if it is of the term t.
QuorumMatch(prs) ==
    CHOOSE n \in {prs[p].match : p \in Server} :
        /\ {p \in Server : prs[p].match >= n} \in Quorums
        /\ {p \in Server : prs[p].match > n} \notin Quorums

\* Bug: entries of earlier terms are committed by counting replicas.
MaybeCommit_AnyTerm(t, st, prs, c) == Max2(c, QuorumMatch(prs))

MaybeCommit(t, st, prs, c) ==
    LET n == QuorumMatch(prs)
    IN  IF n > c /\ Term(st, n) = t THEN n ELSE c

\* appendEntries: the followers that are caught up are sent the batch before
\* it is written to the local store.
AppendEntries(i, t, st, c, prs, es) ==
    LET last  == LastIndex(st)
        early == {p \in Server \ {i} : prs[p].next = last + 1 /\ Len(es) <= MaxBatch}
        st1   == AppendAt(st, last + 1, es)
        prs1  == [p \in Server |->
                    IF p = i THEN [prs[p] EXCEPT !.match = last + Len(es)]
                    ELSE IF p \in early THEN [prs[p] EXCEPT !.next = last + 1 + Len(es)]
                    ELSE prs[p]]
        sent  == SendAppends(i, Server \ (early \cup {i}), t, st1, c, prs1, 0)
    IN  [early  |-> {MsgApp(i, p, t, last, Term(st, last), es, c, 0) : p \in early},
         later  |-> sent.msgs,
         store  |-> st1,
         peer   |-> sent.peer,
         commit |-> MaybeCommit(t, st1, sent.peer, c)]
-----------------------------------------------------------------------------
\* Bug: the snapshot is taken before the last committed entry is applied.
MaybeSnapshot_BeforeApply(st, c) ==
    IF SnapGap = 0 \/ c - st.snapIdx < SnapGap THEN st
    ELSE Compact(st, c, Term(st, c), PrefixOf(st, c - 1))

\* Node.advance, which ends every step of a node: what is committed is applied,
\* and the log is compacted once SnapGap applied entries are in it.
MaybeSnapshot(st, c) ==
    IF SnapGap = 0 \/ c - st.snapIdx < SnapGap THEN st
    ELSE Compact(st, c, Term(st, c), PrefixOf(st, c))

Advance(i, t, st, c) ==
    /\ store' = [store EXCEPT ![i] = MaybeSnapshot(st, c)]
    /\ commit' = [commit EXCEPT ![i] = c]
    /\ committed' = committed \o
          [k \in 1..(c - Len(committed)) |->
              [entry |-> PrefixOf(st, c)[Len(committed) + k], by |-> t]]

\* becomeFollower, but for votedFor.
BecomeFollower(i, t, l) ==
    /\ term' = [term EXCEPT ![i] = t]
    /\ state' = [state EXCEPT ![i] = "follower"]
    /\ lead' = [lead EXCEPT ![i] = l]
    /\ votes' = [votes EXCEPT ![i] = NoVotes]
    /\ peer' = [peer EXCEPT ![i] = NoPeers]
    /\ reads' = [reads EXCEPT ![i] = {}]

\* Bug: becomeFollower forgets the vote in the same term too.
VoteIn_Forget(i, t) == None

VoteIn(i, t) == IF t > term[i] THEN None ELSE vote[i]

\* The messages out leave their sender, and the network loses some of them: the
\* transport drops what a full queue or a broken stream cannot take.
Post(rest, out) ==
    \E kept \in IF Lossy THEN SUBSET out ELSE {out} :
        /\ Cardinality(rest \cup kept) <= MaxInFlight
        /\ msgs' = rest \cup kept

Send(out) == Post(msgs, out) /\ UNCHANGED dups

\* The network hands m over; it may hand it over again.
Receive(m, out) ==
    \/ Post(msgs \ {m}, out) /\ UNCHANGED dups
    \/ dups < MaxDups /\ Post(msgs, out) /\ dups' = dups + 1

\* becomeLeader, of a candidate i in term t: the no-op is appended first thing.
Elected(i, t) ==
    AppendEntries(i, t, store[i], commit[i],
                  [p \in Server |-> [NoPeer EXCEPT !.next = LastIndex(store[i]) + 1]],
                  <<[term |-> t, val |-> Noop]>>)

BecomeLeader(i, t) ==
    LET a == Elected(i, t)
    IN  /\ state' = [state EXCEPT ![i] = "leader"]
        /\ lead' = [lead EXCEPT ![i] = i]
        /\ peer' = [peer EXCEPT ![i] = a.peer]
        /\ reads' = [reads EXCEPT ![i] = {}]
        /\ elected' = elected \cup {<<t, i>>}
        /\ Advance(i, t, a.store, a.commit)
-----------------------------------------------------------------------------
Init ==
    /\ term = [i \in Server |-> 0]
    /\ vote = [i \in Server |-> None]
    /\ store = [i \in Server |-> EmptyStore]
    /\ state = [i \in Server |-> "follower"]
    /\ lead = [i \in Server |-> None]
    /\ commit = [i \in Server |-> 0]
    /\ votes = [i \in Server |-> NoVotes]
    /\ peer = [i \in Server |-> NoPeers]
    /\ reads = [i \in Server |-> {}]
    /\ nextReadID = [i \in Server |-> 0]
    /\ snapIn = [i \in Server |-> NoTransfer]
    /\ msgs = {}
    /\ dups = 0
    /\ restarts = 0
    /\ committed = <<>>
    /\ elected = {}
    /\ served = {}

\* Tick of a node that is not leader, when its election timeout has passed:
\* becomeCandidate.
Timeout(i) ==
    LET t == term[i] + 1
        v == [NoVotes EXCEPT ![i] = "granted"]
    IN  /\ state[i] # "leader"
        /\ term[i] < MaxTerm
        /\ term' = [term EXCEPT ![i] = t]
        /\ vote' = [vote EXCEPT ![i] = i]
        /\ votes' = [votes EXCEPT ![i] = v]
        /\ IF quorum = 1
           THEN /\ BecomeLeader(i, t)
                /\ UNCHANGED msgs
           ELSE /\ state' = [state EXCEPT ![i] = "candidate"]
                /\ lead' = [lead EXCEPT ![i] = None]
                /\ Post(msgs, {MsgVote(i, p, t, store[i]) : p \in Server \ {i}})
                /\ Advance(i, t, store[i], commit[i])
                /\ UNCHANGED <<peer, reads, elected>>
        /\ UNCHANGED <<nextReadID, snapIn, dups, restarts, served>>

\* Tick of a leader whose heartbeat is due: broadcastAppend.
Heartbeat(i) ==
    LET sent == SendAppends(i, Server \ {i}, term[i], store[i], commit[i], peer[i], 0)
    IN  /\ state[i] = "leader"
        /\ Cardinality(msgs) < BeatWindow
        /\ Send(sent.msgs)
        /\ peer' = [peer EXCEPT ![i] = sent.peer]
        /\ Advance(i, term[i], store[i], commit[i])
        /\ UNCHANGED <<durable, role, reads, nextReadID, snapIn, restarts, elected, served>>

\* Propose, with the payloads one Flush found queued.
Propose(i, vals) ==
    LET es == [k \in 1..Len(vals) |-> [term |-> term[i], val |-> vals[k]]]
        a  == AppendEntries(i, term[i], store[i], commit[i], peer[i], es)
    IN  /\ state[i] = "leader"
        /\ LastIndex(store[i]) + Len(vals) <= MaxLog
        /\ Send(a.early \cup a.later)
        /\ peer' = [peer EXCEPT ![i] = a.peer]
        /\ Advance(i, term[i], a.store, a.commit)
        /\ UNCHANGED <<durable, role, reads, nextReadID, snapIn, restarts, elected, served>>

\* completeRead, as the history keeps it.
Served(round) == [index |-> round.index, floor |-> round.floor]

\* Bug: a leader serves reads before it commits in its term.
CanRead_Always(i) == TRUE

\* The leader i has committed an entry of its own term.
CanRead(i) == Term(store[i], commit[i]) = term[i]

\* ReadIndex, which startReads calls for the reads waiting in Node.readQueue;
\* one that finds the leader not ready stays queued.  The floor of a round is
\* history: everything committed when the read began.
ReadIndex(i) ==
    LET id    == nextReadID[i] + 1
        round == [id |-> id, index |-> commit[i], floor |-> Len(committed), acks |-> {i}]
        sent  == SendAppends(i, Server \ {i}, term[i], store[i], commit[i], peer[i], id)
    IN  /\ state[i] = "leader"
        /\ CanRead(i)
        /\ nextReadID[i] < MaxReads
        /\ nextReadID' = [nextReadID EXCEPT ![i] = id]
        /\ IF quorum = 1
           THEN /\ served' = served \cup {Served(round)}
                /\ UNCHANGED <<reads, msgs, peer>>
           ELSE /\ reads' = [reads EXCEPT ![i] = @ \cup {round}]
                /\ Post(msgs, sent.msgs)
                /\ peer' = [peer EXCEPT ![i] = sent.peer]
                /\ UNCHANGED served
        /\ Advance(i, term[i], store[i], commit[i])
        /\ UNCHANGED <<durable, role, snapIn, dups, restarts, elected>>
-----------------------------------------------------------------------------
\* Step, on a message of an earlier term: rejectStale.
HandleStale(i, m) ==
    LET t == term[i]
    IN  /\ m.term < t
        /\ Receive(m, CASE m.type = "Vote" -> {MsgVoteResp(i, m.from, t, TRUE)}
                        [] m.type = "App"  -> {MsgAppResp(i, m.from, t, 0, TRUE, 0, 0, m.readID)}
                        [] m.type = "Snap" -> {MsgSnapResp(i, m.from, t, 0, 0, TRUE, FALSE)}
                        [] OTHER -> {})
        /\ Advance(i, term[i], store[i], commit[i])
        /\ UNCHANGED <<durable, role, leading, nextReadID, snapIn, restarts, elected, served>>

\* Step, on a response of a later term: becomeFollower, and no handler acts on
\* it.
HandleNewerResp(i, m) ==
    /\ m.type \in {"VoteResp", "AppResp", "SnapResp"}
    /\ m.term > term[i]
    /\ BecomeFollower(i, m.term, None)
    /\ vote' = [vote EXCEPT ![i] = None]
    /\ Receive(m, {})
    /\ Advance(i, m.term, store[i], commit[i])
    /\ UNCHANGED <<nextReadID, snapIn, restarts, elected, served>>

\* Step, on a response that finds the node in another role: dropped.
HandleUnexpectedResp(i, m) ==
    /\ m.term = term[i]
    /\ \/ m.type = "VoteResp" /\ state[i] # "candidate"
       \/ m.type \in {"AppResp", "SnapResp"} /\ state[i] # "leader"
    /\ Receive(m, {})
    /\ Advance(i, term[i], store[i], commit[i])
    /\ UNCHANGED <<durable, role, leading, nextReadID, snapIn, restarts, elected, served>>

UpToDate(m, st) ==
    \/ m.logTerm > LastTerm(st)
    \/ m.logTerm = LastTerm(st) /\ m.index >= LastIndex(st)

\* Bug: a node that knows no leader votes again.
CanVote_Twice(i, m) ==
    IF m.term > term[i] THEN TRUE ELSE vote[i] = m.from \/ lead[i] = None

CanVote(i, m) ==
    IF m.term > term[i] THEN TRUE
    ELSE vote[i] = m.from \/ (vote[i] = None /\ lead[i] = None)

HandleVote(i, m) ==
    LET grant == CanVote(i, m) /\ UpToDate(m, store[i])
    IN  /\ m.type = "Vote"
        /\ m.term >= term[i]
        /\ IF m.term > term[i] THEN BecomeFollower(i, m.term, None)
           ELSE UNCHANGED <<term, role, leading>>
        /\ vote' = [vote EXCEPT ![i] = IF grant THEN m.from ELSE VoteIn(i, m.term)]
        /\ Receive(m, {MsgVoteResp(i, m.from, m.term, ~grant)})
        /\ Advance(i, m.term, store[i], commit[i])
        /\ UNCHANGED <<nextReadID, snapIn, restarts, elected, served>>

HandleVoteResp(i, m) ==
    LET v == [votes[i] EXCEPT ![m.from] = IF m.reject THEN "denied" ELSE "granted"]
        With(answer) == {p \in Server : v[p] = answer}
    IN  /\ m.type = "VoteResp"
        /\ m.term = term[i]
        /\ state[i] = "candidate"
        /\ \/ /\ With("granted") \in Quorums
              /\ votes' = [votes EXCEPT ![i] = v]
              /\ BecomeLeader(i, term[i])
              /\ Receive(m, Elected(i, term[i]).early \cup Elected(i, term[i]).later)
              /\ UNCHANGED durable
           \/ /\ With("granted") \notin Quorums
              /\ With("denied") \in Quorums
              /\ BecomeFollower(i, term[i], None)
              /\ Receive(m, {})
              /\ Advance(i, term[i], store[i], commit[i])
              /\ UNCHANGED <<vote, elected>>
           \/ /\ With("granted") \notin Quorums
              /\ With("denied") \notin Quorums
              /\ votes' = [votes EXCEPT ![i] = v]
              /\ Receive(m, {})
              /\ Advance(i, term[i], store[i], commit[i])
              /\ UNCHANGED <<durable, state, lead, leading, elected>>
        /\ UNCHANGED <<nextReadID, snapIn, restarts, served>>
-----------------------------------------------------------------------------
\* firstIndexOfTerm: where the run of entries of term t that ends at k starts.
FirstIndexOfTerm(st, k, t) ==
    LET Starts(j) == /\ \A l \in j..(k - 1) : Term(st, l) = t
                     /\ j = FirstIndex(st) \/ Term(st, j - 1) # t
    IN  IF \E j \in FirstIndex(st)..k : Starts(j)
        THEN CHOOSE j \in FirstIndex(st)..k : Starts(j)
        ELSE k

\* The log st lacks the l-th entry of m.
Lacks(st, m, l) ==
    m.index + l > LastIndex(st) \/ Term(st, m.index + l) # m.entries[l].term

\* Bug: an append always cuts the log at its first entry.
FirstNew_Overwrite(st, m, j) == j = 1

\* The first of the entries of m that the log st lacks is the j-th.
FirstNew(st, m, j) == Lacks(st, m, j) /\ \A l \in 1..(j - 1) : ~Lacks(st, m, l)

\* The commit index after m, of a node with commit index c that holds what m
\* holds.
NewCommit(c, m) ==
    IF m.commit > c THEN Min2(m.commit, m.index + Len(m.entries)) ELSE c

\* The cases of handleAppend.
AppendBelowCommit(i, m) == m.index < commit[i]
AppendBeyondLast(i, m) == ~AppendBelowCommit(i, m) /\ m.index > LastIndex(store[i])

\* Bug: the term before the entries is not compared.
AppendMatches_AnyTerm(i, m) == ~AppendBelowCommit(i, m) /\ ~AppendBeyondLast(i, m)

AppendMatches(i, m) ==
    /\ ~AppendBelowCommit(i, m)
    /\ ~AppendBeyondLast(i, m)
    /\ Term(store[i], m.index) = m.logTerm

AppendConflicts(i, m) ==
    ~AppendBelowCommit(i, m) /\ ~AppendBeyondLast(i, m) /\ ~AppendMatches(i, m)

HandleAppend(i, m) ==
    LET st == store[i]
        c  == commit[i]
        t  == Term(st, m.index)
        lastNew == m.index + Len(m.entries)
        Accept(k) == MsgAppResp(i, m.from, m.term, k, FALSE, 0, 0, m.readID)
        Reject(ct, ci) == MsgAppResp(i, m.from, m.term, 0, TRUE, ct, ci, m.readID)
    IN  /\ m.type = "App"
        /\ m.term >= term[i]
        /\ BecomeFollower(i, m.term, m.from)
        /\ vote' = [vote EXCEPT ![i] = VoteIn(i, m.term)]
        /\ \/ /\ AppendBelowCommit(i, m)
              /\ Receive(m, {Accept(c)})
              /\ Advance(i, m.term, st, c)
           \/ /\ AppendBeyondLast(i, m)
              /\ Receive(m, {Reject(0, LastIndex(st) + 1)})
              /\ Advance(i, m.term, st, c)
           \/ /\ AppendConflicts(i, m)
              /\ Receive(m, {Reject(t, FirstIndexOfTerm(st, m.index, t))})
              /\ Advance(i, m.term, st, c)
           \/ /\ AppendMatches(i, m)
              /\ \A j \in 1..Len(m.entries) : ~Lacks(st, m, j)
              /\ Receive(m, {Accept(lastNew)})
              /\ Advance(i, m.term, st, NewCommit(c, m))
           \/ /\ AppendMatches(i, m)
              /\ \E j \in 1..Len(m.entries) :
                    /\ FirstNew(st, m, j)
                    /\ Advance(i, m.term, AppendAt(st, m.index + j,
                                           SubSeq(m.entries, j, Len(m.entries))),
                               NewCommit(c, m))
              /\ Receive(m, {Accept(lastNew)})
        /\ UNCHANGED <<nextReadID, snapIn, restarts, elected, served>>

\* lastIndexOfTerm: the last index of term t in a log, 0 if it is not found
\* above the entries of earlier terms.
LastIndexOfTerm(st, t) ==
    LET Ends(j) == Term(st, j) = t /\ \A l \in (j + 1)..LastIndex(st) : Term(st, l) > t
    IN  IF \E j \in FirstIndex(st)..LastIndex(st) : Ends(j)
        THEN CHOOSE j \in FirstIndex(st)..LastIndex(st) : Ends(j)
        ELSE 0

\* Bug: a rejection moves next below what was acknowledged.
NextAfterReject_Unclamped(st, m, match) == Max2(m.conflictIndex, 1)

\* The index from which a leader with log st resends after the rejection m.
NextAfterReject(st, m, match) ==
    LET last == LastIndexOfTerm(st, m.conflictTerm)
        next == IF m.conflictTerm > 0 /\ last # 0 THEN last + 1 ELSE m.conflictIndex
    IN  Max2(next, match + 1)

\* ackRead: the rounds of the leader i after p has answered the round id.
Acked(i, p, id) ==
    {IF r.id = id THEN [r EXCEPT !.acks = @ \cup {p}] ELSE r : r \in reads[i]}

\* Bug: the end of a transfer does not delete it.
Progress_KeepsTransfer(i, p, k, always) ==
    LET pr  == peer[i][p]
        prs == [peer[i] EXCEPT ![p].next = Max2(@, k + 1), ![p].match = Max2(@, k)]
        c   == MaybeCommit(term[i], store[i], prs, commit[i])
        to  == IF c > commit[i] THEN Server \ {i} ELSE {p}
    IN  [commit |-> c, sent |-> SendAppends(i, to, term[i], store[i], c, prs, 0)]

\* A follower p holds the log up to k, and any transfer to it is over: match and
\* next move up, the commit index perhaps too, and then everyone is told.  If
\* not, p is sent more when there is more to send, or always.
Progress(i, p, k, always) ==
    LET pr  == peer[i][p]
        prs == [peer[i] EXCEPT ![p] = [next    |-> Max2(pr.next, k + 1),
                                       match   |-> Max2(pr.match, k),
                                       snapOut |-> NoTransfer]]
        c   == MaybeCommit(term[i], store[i], prs, commit[i])
        to  == IF c > commit[i] THEN Server \ {i}
               ELSE IF always \/ prs[p].next <= LastIndex(store[i]) THEN {p}
               ELSE {}
    IN  [commit |-> c, sent |-> SendAppends(i, to, term[i], store[i], c, prs, 0)]

\* A snapshot is on its way to the follower with progress pr, so its answers to
\* appends are not acted on.
InTransfer(pr) == pr.snapOut # NoTransfer

HandleAppendResp(i, m) ==
    LET p  == m.from
        pr == peer[i][p]
        rounds == Acked(i, p, m.readID)
        done   == {r \in rounds : r.acks \in Quorums}
        back   == SendAppends(i, {p}, term[i], store[i], commit[i],
                     [peer[i] EXCEPT ![p].next = NextAfterReject(store[i], m, pr.match)], 0)
        fwd    == Progress(i, p, m.index, FALSE)
    IN  /\ m.type = "AppResp"
        /\ m.term = term[i]
        /\ state[i] = "leader"
        /\ reads' = [reads EXCEPT ![i] = rounds \ done]
        /\ served' = served \cup {Served(r) : r \in done}
        /\ \/ /\ InTransfer(pr)
              /\ Receive(m, {})
              /\ Advance(i, term[i], store[i], commit[i])
              /\ UNCHANGED peer
           \/ /\ ~InTransfer(pr)
              /\ m.reject
              /\ Receive(m, back.msgs)
              /\ peer' = [peer EXCEPT ![i] = back.peer]
              /\ Advance(i, term[i], store[i], commit[i])
           \/ /\ ~InTransfer(pr)
              /\ ~m.reject
              /\ Receive(m, fwd.sent.msgs)
              /\ peer' = [peer EXCEPT ![i] = fwd.sent.peer]
              /\ Advance(i, term[i], store[i], fwd.commit)
        /\ UNCHANGED <<durable, role, nextReadID, snapIn, restarts, elected>>

\* Bug: a chunk of the right snapshot is appended wherever it belongs.
Placed_AnyOffset(x, m) == x.index = m.index

\* The chunk m is the next one of the transfer x.
Placed(x, m) == x.index = m.index /\ m.offset = Len(x.data)

HandleSnapshot(i, m) ==
    LET c  == commit[i]
        in == IF m.offset = 0
              THEN [index |-> m.index, term |-> m.logTerm, data |-> <<>>, offset |-> 0]
              ELSE snapIn[i]
        known  == in.index = m.index
        expect == IF known THEN Len(in.data) ELSE 0
        placed == Placed(in, m)
        all    == in.data \o m.data
        Resp(k, off, reject, done) == {MsgSnapResp(i, m.from, m.term, k, off, reject, done)}
    IN  /\ m.type = "Snap"
        /\ m.term >= term[i]
        /\ BecomeFollower(i, m.term, m.from)
        /\ vote' = [vote EXCEPT ![i] = VoteIn(i, m.term)]
        /\ \/ /\ m.index <= c
              /\ Receive(m, Resp(c, 0, FALSE, TRUE))
              /\ Advance(i, m.term, store[i], c)
              /\ UNCHANGED snapIn
           \/ /\ m.index > c
              /\ ~placed
              /\ Receive(m, Resp(m.index, expect, ~known \/ m.offset > expect, FALSE))
              /\ Advance(i, m.term, store[i], c)
              /\ UNCHANGED snapIn
           \/ /\ m.index > c
              /\ placed
              /\ ~m.done
              /\ snapIn' = [snapIn EXCEPT ![i] = [in EXCEPT !.data = all]]
              /\ Receive(m, Resp(m.index, Len(all), FALSE, FALSE))
              /\ Advance(i, m.term, store[i], c)
           \/ /\ m.index > c
              /\ placed
              /\ m.done
              /\ snapIn' = [snapIn EXCEPT ![i] = NoTransfer]
              /\ Receive(m, Resp(m.index, 0, FALSE, TRUE))
              /\ Advance(i, m.term, Compact(store[i], in.index, in.term, all), in.index)
        /\ UNCHANGED <<nextReadID, restarts, elected, served>>

HandleSnapshotResp(i, m) ==
    LET p   == m.from
        x   == peer[i][p].snapOut
        y   == [x EXCEPT !.offset = IF m.reject THEN 0 ELSE Max2(@, m.offset)]
        fwd == Progress(i, p, m.index, TRUE)
    IN  /\ m.type = "SnapResp"
        /\ m.term = term[i]
        /\ state[i] = "leader"
        /\ \/ /\ m.done
              /\ Receive(m, fwd.sent.msgs)
              /\ peer' = [peer EXCEPT ![i] = fwd.sent.peer]
              /\ Advance(i, term[i], store[i], fwd.commit)
           \/ /\ ~m.done
              /\ x = NoTransfer \/ x.index # m.index
              /\ Receive(m, {})
              /\ Advance(i, term[i], store[i], commit[i])
              /\ UNCHANGED peer
           \/ /\ ~m.done
              /\ x # NoTransfer /\ x.index = m.index
              /\ Receive(m, {MsgSnap(i, p, term[i], y)})
              /\ peer' = [peer EXCEPT ![i][p].snapOut = y]
              /\ Advance(i, term[i], store[i], commit[i])
        /\ UNCHANGED <<durable, role, reads, nextReadID, snapIn, restarts, elected, served>>
-----------------------------------------------------------------------------
\* A process ends with t, v and st on disk, and starts again: New and NewNode.
\* The state machine's own database syncs in the background and records an
\* index only when a payload is applied, so it may have any of those, and the
\* snapshot makes up for what it lacks.
Crash(i, t, v, st) ==
    /\ restarts < MaxRestarts
    /\ restarts' = restarts + 1
    /\ term' = [term EXCEPT ![i] = t]
    /\ vote' = [vote EXCEPT ![i] = v]
    /\ store' = [store EXCEPT ![i] = st]
    /\ \E a \in {st.snapIdx} \cup
               {k \in FirstIndex(st)..commit[i] : Entries(st, k, k)[1].val # Noop} :
          commit' = [commit EXCEPT ![i] = a]
    /\ state' = [state EXCEPT ![i] = "follower"]
    /\ lead' = [lead EXCEPT ![i] = None]
    /\ votes' = [votes EXCEPT ![i] = NoVotes]
    /\ peer' = [peer EXCEPT ![i] = NoPeers]
    /\ reads' = [reads EXCEPT ![i] = {}]
    /\ nextReadID' = [nextReadID EXCEPT ![i] = 0]
    /\ snapIn' = [snapIn EXCEPT ![i] = NoTransfer]
    /\ UNCHANGED <<committed, served>>

Restart(i) ==
    /\ Crash(i, term[i], vote[i], store[i])
    /\ UNCHANGED <<msgs, dups, elected>>

\* A crash in Step after becomeFollower has persisted the term of m, before
\* the handler runs.
CrashInStep(i, m) ==
    /\ m.term > term[i]
    /\ Crash(i, m.term, None, store[i])
    /\ Receive(m, {})
    /\ UNCHANGED elected

\* A crash in handleAppend while the store writes: the log's records reach the
\* disk in order, so a prefix of them does.
CrashInHandleAppend(i, m) ==
    /\ m.type = "App"
    /\ m.term >= term[i]
    /\ AppendMatches(i, m)
    /\ \E j \in 1..Len(m.entries) : \E k \in j..(Len(m.entries) - 1) :
          /\ FirstNew(store[i], m, j)
          /\ Crash(i, m.term, VoteIn(i, m.term),
                   AppendAt(store[i], m.index + j, SubSeq(m.entries, j, k)))
    /\ Receive(m, {})
    /\ UNCHANGED elected

\* A crash in appendEntries after the early messages, with only the first k of
\* the entries on disk, in a Propose or, with the no-op alone, in becomeLeader.
CrashInPropose(i, vals) ==
    LET es == [k \in 1..Len(vals) |-> [term |-> term[i], val |-> vals[k]]]
    IN  /\ state[i] = "leader"
        /\ LastIndex(store[i]) + Len(vals) <= MaxLog
        /\ \E k \in 0..(Len(vals) - 1) :
              Crash(i, term[i], vote[i],
                    AppendAt(store[i], LastIndex(store[i]) + 1, SubSeq(es, 1, k)))
        /\ Send(AppendEntries(i, term[i], store[i], commit[i], peer[i], es).early)
        /\ UNCHANGED elected

CrashInBecomeLeader(i, m) ==
    /\ m.type = "VoteResp"
    /\ m.term = term[i]
    /\ state[i] = "candidate"
    /\ ~m.reject
    /\ {p \in Server : votes[i][p] = "granted"} \cup {m.from} \in Quorums
    /\ Crash(i, term[i], vote[i], store[i])
    /\ Receive(m, Elected(i, term[i]).early)
    /\ elected' = elected \cup {<<term[i], i>>}
-----------------------------------------------------------------------------
Batches == UNION {[1..n -> Value] : n \in 1..MaxPropose}

\* Step, on a message of the node's own term or a later one.
Handle(i, m) ==
    \/ HandleNewerResp(i, m)
    \/ HandleUnexpectedResp(i, m)
    \/ HandleVote(i, m)
    \/ HandleVoteResp(i, m)
    \/ HandleAppend(i, m)
    \/ HandleAppendResp(i, m)
    \/ HandleSnapshot(i, m)
    \/ HandleSnapshotResp(i, m)

Step(i) ==
    \E m \in msgs : m.to = i /\ (HandleStale(i, m) \/ Handle(i, m))

Crashes(i) ==
    \/ Restart(i)
    \/ \E m \in msgs : /\ m.to = i
                       /\ \/ CrashInStep(i, m)
                          \/ CrashInHandleAppend(i, m)
                          \/ CrashInBecomeLeader(i, m)
    \/ \E vals \in Batches : CrashInPropose(i, vals)

Next ==
    \E i \in Server :
        \/ Timeout(i)
        \/ Heartbeat(i)
        \/ \E vals \in Batches : Propose(i, vals)
        \/ ReadIndex(i)
        \/ Step(i)
        \/ Crashes(i)

Spec == Init /\ [][Next]_vars

\* Run ticks a leader for ever, and the stream from one node to another keeps
\* delivering.
Deliver(p, i) ==
    \E m \in msgs : m.from = p /\ m.to = i /\ (HandleStale(i, m) \/ Handle(i, m))

Fairness ==
    /\ \A i \in Server : WF_vars(Heartbeat(i))
    /\ \A p, i \in Server : WF_vars(Deliver(p, i))
-----------------------------------------------------------------------------
Store ==
    {s \in [snapIdx : Nat, snapTerm : Int, snap : Seq(Entry), entries : Seq(Entry)] :
        Len(s.snap) = s.snapIdx}
Transfers == [index : Nat, term : Int, data : Seq(Entry), offset : Nat]
Incoming == {x \in Transfers : Len(x.data) <= x.index}
Outgoing == {x \in Transfers : Len(x.data) = x.index /\ x.offset <= x.index}
Peer == [next : Nat \ {0}, match : Nat, snapOut : Outgoing]
Round == [id : Nat \ {0}, index : Nat, floor : Nat, acks : SUBSET Server]

\* Every variable has its type.  The commit index lies between the snapshot and
\* the end of the log: NewNode starts it there, maybeCommit and handleAppend keep
\* it there, and maybeSnapshot compacts no further.  A chunk lies inside its
\* snapshot, in flight and in snapOut, so that sendChunk slices no further than
\* the data, and handleSnapshot installs a snapshot of just the length it had.
TypeOK ==
    /\ term \in [Server -> Nat]
    /\ vote \in [Server -> Server \cup {None}]
    /\ store \in [Server -> Store]
    /\ state \in [Server -> {"follower", "candidate", "leader"}]
    /\ lead \in [Server -> Server \cup {None}]
    /\ commit \in [Server -> Nat]
    /\ \A i \in Server : commit[i] \in store[i].snapIdx..LastIndex(store[i])
    /\ votes \in [Server -> [Server -> {"none", "granted", "denied"}]]
    /\ peer \in [Server -> [Server -> Peer]]
    /\ reads \in [Server -> SUBSET Round]
    /\ nextReadID \in [Server -> Nat]
    /\ snapIn \in [Server -> Incoming]
    /\ msgs \subseteq Message
    /\ dups \in Nat
    /\ restarts \in Nat
    /\ committed \in Seq([entry : Entry, by : Nat])
    /\ elected \subseteq Nat \X Server
    /\ served \subseteq [index : Nat, floor : Nat]

\* The log of i from the first entry on, the entries in its snapshot included,
\* and the first k decided entries.
Log(i) == PrefixOf(store[i], LastIndex(store[i]))
Decided(k) == [j \in 1..k |-> committed[j].entry]

\* At most one node is ever elected in a term, whatever crashes, loses or
\* repeats messages: handleVote grants one vote a term and persists it before it
\* answers, and countVotes wants a majority.
ElectionSafety == \A e, f \in elected : e[1] = f[1] => e[2] = f[2]

\* Nodes apply the same entries at the same indexes: what a node has committed,
\* through its log, a snapshot it took or the chunks of one it was sent, is what
\* was first committed there.
StateMachineSafety ==
    \A i \in Server :
        /\ commit[i] <= Len(committed)
        /\ PrefixOf(store[i], commit[i]) = Decided(commit[i])

\* A leader holds every entry committed in its term or before: the comparison of
\* logs in handleVote and the own-term rule of maybeCommit are there for this.
LeaderCompleteness ==
    \A i \in Server, k \in DOMAIN committed :
        state[i] = "leader" /\ committed[k].by <= term[i]
            => k <= LastIndex(store[i]) /\ Log(i)[k] = committed[k].entry

\* A committed entry is on the disks of a majority and stays there, although a
\* leader sends a batch to its followers before it writes it itself
\* (appendEntries), and old appends arrive late.
CommittedDurable ==
    \A k \in DOMAIN committed :
        {i \in Server : k <= LastIndex(store[i]) /\ Log(i)[k] = committed[k].entry}
            \in Quorums

\* match, from which maybeCommit counts a majority, is true: as long as a
\* follower has not moved on to a later term its log is the leader's up to
\* there.
MatchTruthful ==
    \A i, p \in Server :
        state[i] = "leader" /\ term[p] = term[i]
            => LET k == peer[i][p].match
               IN  /\ k <= LastIndex(store[p])
                   /\ k <= LastIndex(store[i])
                   /\ \A j \in 1..k : Log(p)[j] = Log(i)[j]

\* next is above match and at most one past the log, so termAt(next - 1) in
\* sendAppend does not panic, and no acknowledged entry is sent again.
NextInLog ==
    \A i \in Server : \A p \in Server \ {i} :
        state[i] = "leader"
            => /\ peer[i][p].match < peer[i][p].next
               /\ peer[i][p].next <= LastIndex(store[i]) + 1

\* While a transfer is on, the follower still needs it: otherwise sendAppend
\* would send it appends, whose answers handleAppendResp ignores, and nothing
\* would end the transfer.
TransferNeeded ==
    \A i \in Server : \A p \in Server \ {i} :
        state[i] = "leader" /\ peer[i][p].snapOut # NoTransfer
            => peer[i][p].next < FirstIndex(store[i])

\* A read is served at an index no lower than anything committed when it began.
ReadsLinearizable == \A r \in served : r.floor <= r.index

\* A node's term never decreases, and within a term a vote once cast is never
\* withdrawn or moved, over restarts and crashes in the middle of a step too.
VoteOnce ==
    [][\A i \in Server :
          /\ term'[i] >= term[i]
          /\ term'[i] = term[i] /\ vote[i] # None => vote'[i] = vote[i]]_vars

\* A leader that stays leader brings everyone to its log, and everyone learns
\* that all of it is committed: through backtracking over conflicting entries,
\* through snapshots sent in chunks, and after restarts of the others.
LeaderCatchesUpAll ==
    \A i \in Server :
        <>[](state[i] = "leader" /\ term[i] = MaxTerm) =>
            <>[](\A p \in Server : /\ Log(p) = Log(i)
                                   /\ commit[p] = LastIndex(store[i]))
=============================================================================
