----------------------------- MODULE KVSessions -----------------------------
(***************************************************************************)
(* Client sessions: kv.Client (kv/client.go) calling kv.Server             *)
(* (kv/server.go), directly or through a Router that forwards by key       *)
(* (shard/router.go), with every command applied by the state machine of   *)
(* its group (KVGroup).                                                    *)
(*                                                                         *)
(* A request may be applied with its answer lost, be applied long after    *)
(* the client gave it up, and be applied again by a retry; one that is     *)
(* lost is one that is never applied.  A group is the sequence of commands *)
(* its log commits, which module Raft is about.  Shards stay where they    *)
(* are: module ShardMove moves them.                                       *)
(***************************************************************************)
EXTENDS KVGroup, Sequences

CONSTANTS
    Group,          \* Raft groups
    MetaGroup,      \* the group that issues sessions, the only one if unsharded
    Home,           \* Home[s]: the group that serves the shard s
    User,           \* instances of kv.Client
    Outstanding,    \* calls a program makes on one Client at a time
    Ops,            \* the operations users call, commands without a session
    MaxSeq,         \* bound: calls of one user
    MaxIndex,       \* bound: log entries of one group
    MaxDups         \* bound: requests applied with another attempt on its way

ASSUME KVSessionsConstants ==
    /\ MetaGroup \in Group
    /\ Home \in [Shard -> Group]
    /\ Outstanding \in Nat \ {0}
    /\ \A op \in Ops : /\ {"op", "key"} \subseteq DOMAIN op
                      /\ op.op \in {"put", "delete", "cas", "get"} /\ op.key \in Key

VARIABLES
    sm,         \* sm[g]: the state machine of the group g
    index,      \* index[g]: the last index applied
    clientID,   \* clientID[u]: the session of u, 0 before Dial has it
    seq,        \* seq[u]: the sequence number last handed out
    calls,      \* calls[u]: the requests u waits for
    reqs,       \* requests on their way to a group
    dups,
    ran,        \* history: the commands with a session that were executed
    acked       \* history: the answers users took for their calls

vars == <<sm, index, clientID, seq, calls, reqs, dups, ran, acked>>

Register == [op |-> "register", client |-> 0, seq |-> 0]

\* A command of u, on its way to the group g.
Request(u, g, cmd) == [by |-> u, to |-> g, cmd |-> cmd]

\* groupFor, under a shard map that does not change.
GroupFor(op) == Home[ShardOf[op.key]]

\* setSession.
WithSession(op, c, n) ==
    [f \in DOMAIN op \cup {"client", "seq"} |->
        CASE f = "client" -> c [] f = "seq" -> n [] OTHER -> op[f]]

Init ==
    /\ sm = [g \in Group |-> EmptyGroup]
    /\ index = [g \in Group |-> 0]
    /\ clientID = [u \in User |-> 0]
    /\ seq = [u \in User |-> 0]
    /\ calls = [u \in User |-> {}]
    /\ reqs = {}
    /\ dups = 0
    /\ ran = {}
    /\ acked = {}

\* Dial, and Router.RegisterClient.
Dial(u) ==
    LET q == Request(u, MetaGroup, Register)
    IN  /\ clientID[u] = 0
        /\ calls[u] = {}
        /\ calls' = [calls EXCEPT ![u] = {q}]
        /\ reqs' = reqs \cup {q}
        /\ UNCHANGED <<sm, index, clientID, seq, dups, ran, acked>>

\* Put, Delete, Cas, Get in log mode: a sequence number, and the first attempt.
Call(u, op) ==
    LET q == Request(u, GroupFor(op), WithSession(op, clientID[u], seq[u] + 1))
    IN  /\ clientID[u] # 0
        /\ Cardinality(calls[u]) < Outstanding
        /\ seq[u] < MaxSeq
        /\ seq' = [seq EXCEPT ![u] = @ + 1]
        /\ calls' = [calls EXCEPT ![u] = @ \cup {q}]
        /\ reqs' = reqs \cup {q}
        /\ UNCHANGED <<sm, index, clientID, dups, ran, acked>>

\* Do, after an attempt that failed or timed out: the same request again.
Retry(u) ==
    /\ \E q \in calls[u] \ reqs : reqs' = reqs \cup {q}
    /\ UNCHANGED <<sm, index, clientID, seq, calls, dups, ran, acked>>

\* Do, when its context ends: the call fails, whatever becomes of its attempts.
GiveUp(u) ==
    /\ \E q \in calls[u] : calls' = [calls EXCEPT ![u] = @ \ {q}]
    /\ UNCHANGED <<sm, index, clientID, seq, reqs, dups, ran, acked>>

\* The group commits and applies a request.
Commit(q, e) ==
    LET g == q.to
        c == q.cmd
    IN  /\ sm' = [sm EXCEPT ![g] = e.sm]
        /\ index' = [index EXCEPT ![g] = @ + 1]
        /\ ran' = IF c.client = 0 \/ Repeated(sm[g], c) THEN ran
                  ELSE ran \cup {[by |-> q.by, seq |-> c.seq, group |-> g,
                                  at |-> index'[g], res |-> e.res]}

\* Its answer reaches the caller that waits for it.
Answer(q, res) ==
    LET u == q.by
        c == q.cmd
    IN  /\ q \in calls[u]
        /\ calls' = [calls EXCEPT ![u] = @ \ {q}]
        /\ clientID' = IF c.op = "register" THEN [clientID EXCEPT ![u] = res.id] ELSE clientID
        /\ acked' = IF c.op = "register" THEN acked
                    ELSE acked \cup {[by |-> u, seq |-> c.seq, res |-> res]}

\* Server.propose, for a request that reaches the log.
Serve(q) ==
    LET e == Apply(sm[q.to], q.cmd, index[q.to] + 1)
    IN  /\ index[q.to] < MaxIndex
        /\ Commit(q, e)
        /\ \/ reqs' = reqs \ {q} /\ UNCHANGED dups
           \/ dups < MaxDups /\ dups' = dups + 1 /\ UNCHANGED reqs
        /\ \/ Answer(q, e.res)
           \/ UNCHANGED <<calls, clientID, acked>>
        /\ UNCHANGED seq

Next ==
    \/ \E u \in User :
          \/ Dial(u)
          \/ \E op \in Ops : Call(u, op)
          \/ Retry(u)
          \/ GiveUp(u)
    \/ \E q \in reqs : Serve(q)

Spec == Init /\ [][Next]_vars
-----------------------------------------------------------------------------
\* The session table of a group is never ahead of the clients: a sequence number
\* in it was handed out by session(), to a client with that session.
TypeOK ==
    /\ \A g \in Group :
          /\ DOMAIN sm[g].data \subseteq Key
          /\ \A c \in DOMAIN sm[g].sessions :
                sm[g].sessions[c].seq > 0 => \E u \in User : sm[g].sessions[c].seq <= seq[u]
    /\ index \in [Group -> 0..MaxIndex]
    /\ clientID \in [User -> 0..MaxIndex]
    /\ seq \in [User -> 0..MaxSeq]
    /\ \A u \in User : Cardinality(calls[u]) <= Outstanding
    /\ dups \in 0..MaxDups

\* However often a call is attempted, its command is executed at most once, and
\* those of one client in the order of its calls in each group, although
\* attempts of an earlier call may be applied after a later one.
ExecutedOnce ==
    \A x, y \in ran :
        x.by = y.by /\ x.group = y.group =>
            /\ x.seq = y.seq => x = y
            /\ x.seq < y.seq => x.at < y.at

\* A call that returns was executed, and returns the result of that execution,
\* also when its answer comes from the session table.
AckedExecuted ==
    \A a \in acked : \E x \in ran : x.by = a.by /\ x.seq = a.seq /\ x.res = a.res

\* Two clients never have the same session: the id is an index of the log that
\* registers it.
SessionsUnique ==
    \A u, v \in User : clientID[u] # 0 /\ clientID[u] = clientID[v] => u = v
=============================================================================
