-------------------------- MODULE KVSessionsProofs ---------------------------
(***************************************************************************)
(* Sessions, for any users, groups, keys and numbers of attempts: no two   *)
(* clients share one, and a command is executed once and in order.         *)
(***************************************************************************)
EXTENDS KVSessions, TLAPS

ClientOps == {"put", "delete", "cas", "get"}

\* A state machine is a record with its three fields, and numbers in its sessions.
IsGroup(s) ==
    /\ s = [data |-> s.data, sessions |-> s.sessions, shards |-> s.shards]
    /\ \A c \in DOMAIN s.sessions : s.sessions[c].seq \in Nat

\* A request is a registration with the meta group, or a call with the session of the
\* user that made it and a number session() has handed out.
Proper(q) ==
    /\ q = Request(q.by, q.to, q.cmd)
    /\ q.by \in User /\ q.to \in Group
    /\ \/ q.cmd = Register /\ q.to = MetaGroup
       \/ /\ q.cmd.op \in ClientOps
          /\ clientID[q.by] # 0
          /\ q.cmd.client = clientID[q.by]
          /\ q.cmd.seq \in 1..seq[q.by]

Types ==
    /\ DOMAIN sm = Group /\ \A g \in Group : IsGroup(sm[g])
    /\ index \in [Group -> Nat]
    /\ clientID \in [User -> Nat]
    /\ seq \in [User -> Nat]
    /\ DOMAIN calls = User

\* Sessions are indices that the meta group has passed.
IDs ==
    /\ \A u \in User : clientID[u] <= index[MetaGroup]
    /\ \A g \in Group : \A c \in DOMAIN sm[g].sessions : c \in 1..index[MetaGroup]

Requests ==
    /\ \A q \in reqs : Proper(q)
    /\ \A u \in User : \A q \in calls[u] :
          Proper(q) /\ q.by = u /\ (q.cmd = Register <=> clientID[u] = 0)

\* What was executed is behind the session table of its group.
Executed ==
    \A x \in ran :
        /\ x.by \in User /\ x.group \in Group
        /\ x.seq \in Nat /\ x.at \in Nat
        /\ clientID[x.by] # 0
        /\ x.at <= index[x.group]
        /\ clientID[x.by] \in DOMAIN sm[x.group].sessions
        /\ x.seq <= sm[x.group].sessions[clientID[x.by]].seq

\* The inductive invariant.
SessionInv == Types /\ IDs /\ Requests /\ Executed /\ SessionsUnique /\ ExecutedOnce
-----------------------------------------------------------------------------
\* A command of a client changes neither the sessions nor the shape of the state
\* machine, and registers nobody.
LEMMA ExecuteClient ==
    ASSUME NEW s, IsGroup(s), NEW cmd, cmd.op \in ClientOps, NEW i
    PROVE  LET e == execute(s, cmd, i)
           IN  /\ e = [sm |-> e.sm, res |-> e.res]
               /\ IsGroup(e.sm) /\ e.sm.sessions = s.sessions
               /\ e.res.id = 0
<1>1. CASE cmd.op = "put"
  BY <1>1 DEF execute, PutOp, Effect, IsGroup, Moving, Success, NoResult
<1>2. CASE cmd.op = "delete"
  BY <1>2 DEF execute, DeleteOp, Effect, IsGroup, Moving, Success, NoResult
<1>3. CASE cmd.op = "cas"
  BY <1>3 DEF execute, CasOp, Effect, IsGroup, Moving, Success, NoResult
<1>4. CASE cmd.op = "get"
  BY <1>4 DEF execute, GetOp, Effect, IsGroup, Moving, NoResult
<1>5. QED
  BY <1>1, <1>2, <1>3, <1>4 DEF ClientOps

\* Apply, of a command that its session has executed.
LEMMA ApplyRepeated ==
    ASSUME NEW s, NEW cmd, NEW i, Repeated(s, cmd)
    PROVE  Apply(s, cmd, i) = [sm |-> s, res |-> s.sessions[cmd.client].res]
BY DEF Apply, Effect

\* t is s with the session c at n, with the result res.
SessionSet(s, t, c, n, res) ==
    /\ IsGroup(t)
    /\ DOMAIN t.sessions = DOMAIN s.sessions \cup {c}
    /\ t.sessions[c] = [seq |-> n, res |-> res]
    /\ \A d \in DOMAIN s.sessions : d # c => t.sessions[d] = s.sessions[d]

\* SetSession changes one session.
LEMMA SetSessionOne ==
    ASSUME NEW s, IsGroup(s), NEW c, NEW n \in Nat, NEW res
    PROVE  SessionSet(s, SetSession(s, c, n, res), c, n, res)
BY DEF SetSession, IsGroup, SessionSet

\* Apply, of a client's command that is new: its session has its number and result.
LEMMA ApplyClient ==
    ASSUME NEW s, IsGroup(s), NEW cmd, cmd.op \in ClientOps, NEW i,
           cmd.client # 0, cmd.seq \in Nat, ~Repeated(s, cmd)
    PROVE  SessionSet(s, Apply(s, cmd, i).sm, cmd.client, cmd.seq, Apply(s, cmd, i).res)
<1> DEFINE x == execute(s, cmd, i)
<1>1. IsGroup(x.sm) /\ x.sm.sessions = s.sessions /\ x.res.id = 0
  BY ExecuteClient
<1> DEFINE t == SetSession(x.sm, cmd.client, cmd.seq, x.res)
<1>2. Apply(s, cmd, i).sm = t /\ Apply(s, cmd, i).res = x.res
  BY <1>1 DEF Apply, Effect
<1> HIDE DEF x
<1>3. SessionSet(x.sm, t, cmd.client, cmd.seq, x.res)
  BY <1>1, SetSessionOne
<1>4. SessionSet(s, t, cmd.client, cmd.seq, x.res)
  BY <1>1, <1>3 DEF SessionSet
<1>5. QED
  BY <1>2, <1>4

\* Apply, of a registration: a session with the index for its id.
LEMMA ApplyRegister ==
    ASSUME NEW s, IsGroup(s), NEW i \in Nat, i # 0
    PROVE  /\ SessionSet(s, Apply(s, Register, i).sm, i, 0, NoResult)
           /\ Apply(s, Register, i).res.id = i
<1> DEFINE r == [NoResult EXCEPT !.id = i]
           t == SetSession(s, i, 0, NoResult)
<1>1. execute(s, Register, i) = [sm |-> s, res |-> r]
  BY DEF execute, Register, Effect
<1>2. r.id = i
  BY DEF NoResult
<1>3. Register.client = 0 /\ ~Repeated(s, Register)
  BY DEF Register, Repeated
<1> HIDE DEF r, t
<1>4. Apply(s, Register, i) = [sm |-> t, res |-> r]
  BY <1>1, <1>2, <1>3 DEF Apply, Effect, t
<1>5. SessionSet(s, t, i, 0, NoResult)
  BY SetSessionOne DEF t
<1>6. QED
  BY <1>2, <1>4, <1>5
-----------------------------------------------------------------------------
LEMMA InitInv == Init => SessionInv
<1> SUFFICES ASSUME Init PROVE SessionInv
  OBVIOUS
<1>1. IsGroup(EmptyGroup) /\ DOMAIN EmptyGroup.sessions = {}
  BY DEF IsGroup, EmptyGroup
<1>2. Types /\ IDs
  BY <1>1, KVSessionsConstants DEF Init, Types, IDs
<1>3. Requests /\ Executed /\ SessionsUnique /\ ExecutedOnce
  BY DEF Init, Requests, Executed, SessionsUnique, ExecutedOnce
<1>4. QED
  BY <1>2, <1>3 DEF SessionInv

\* The steps of a user leave the groups, the session and the history alone.
LEMMA UserInv ==
    ASSUME SessionInv, UNCHANGED <<sm, index, clientID, ran>>,
           Requests', seq' \in [User -> Nat], DOMAIN calls' = User
    PROVE  SessionInv'
<1>1. Types' /\ IDs'
  BY DEF SessionInv, Types, IDs, IsGroup
<1>2. Executed' /\ SessionsUnique' /\ ExecutedOnce'
  BY DEF SessionInv, Executed, SessionsUnique, ExecutedOnce
<1>3. QED
  BY <1>1, <1>2 DEF SessionInv

LEMMA DialInv ==
    ASSUME SessionInv, NEW u \in User, Dial(u)
    PROVE  SessionInv'
<1> DEFINE q == Request(u, MetaGroup, Register)
<1>1. q.by = u /\ q.to = MetaGroup /\ q.cmd = Register /\ q = Request(q.by, q.to, q.cmd)
  BY DEF Request
<1>2. /\ DOMAIN calls' = User /\ seq' \in [User -> Nat]
      /\ UNCHANGED <<sm, index, clientID, ran, seq>>
      /\ clientID[u] = 0
      /\ reqs' = reqs \cup {q}
      /\ \A v \in User : calls'[v] = IF v = u THEN {q} ELSE calls[v]
  BY DEF Dial, SessionInv, Types
<1> HIDE DEF q
<1>3. Requests'
  BY <1>1, <1>2, KVSessionsConstants DEF SessionInv, Requests, Proper
<1>4. QED
  BY <1>2, <1>3, UserInv

LEMMA CallInv ==
    ASSUME SessionInv, NEW u \in User, NEW op \in Ops, Call(u, op)
    PROVE  SessionInv'
<1>1. PICK q : q = Request(u, GroupFor(op), WithSession(op, clientID[u], seq[u] + 1))
  OBVIOUS
<1>2. /\ q.by = u /\ q.to = GroupFor(op) /\ q = Request(q.by, q.to, q.cmd)
      /\ q.cmd.op \in ClientOps /\ q.cmd.client = clientID[u] /\ q.cmd.seq = seq[u] + 1
  BY <1>1, KVSessionsConstants DEF Request, WithSession, ClientOps
<1>3. GroupFor(op) \in Group
  BY KVSessionsConstants, KVGroupConstants DEF GroupFor, Shard
<1>4. /\ DOMAIN calls' = User
      /\ UNCHANGED <<sm, index, clientID, ran>>
      /\ clientID[u] # 0
      /\ reqs' = reqs \cup {q}
      /\ \A v \in User : calls'[v] = IF v = u THEN calls[u] \cup {q} ELSE calls[v]
  BY <1>1 DEF Call, SessionInv, Types
<1>5. /\ seq' \in [User -> Nat] /\ seq \in [User -> Nat]
      /\ \A v \in User : seq'[v] = IF v = u THEN seq[u] + 1 ELSE seq[v]
  BY DEF Call, SessionInv, Types
<1>6. \A r : Proper(r) => Proper(r)'
  BY <1>4, <1>5 DEF Proper
<1>7. Proper(q)' /\ q.cmd # Register
  BY <1>2, <1>3, <1>4, <1>5 DEF Proper, Register, ClientOps
<1>8. Requests'
  BY <1>2, <1>4, <1>6, <1>7 DEF SessionInv, Requests
<1>9. QED
  BY <1>4, <1>5, <1>8, UserInv

LEMMA RetryInv ==
    ASSUME SessionInv, NEW u \in User, Retry(u)
    PROVE  SessionInv'
<1>1. PICK q \in calls[u] : reqs' = reqs \cup {q}
  BY DEF Retry
<1>2. Requests'
  BY <1>1 DEF Retry, SessionInv, Requests, Proper
<1>3. QED
  BY <1>2, UserInv DEF Retry, SessionInv, Types

LEMMA GiveUpInv ==
    ASSUME SessionInv, NEW u \in User, GiveUp(u)
    PROVE  SessionInv'
<1>1. PICK q \in calls[u] : calls' = [calls EXCEPT ![u] = @ \ {q}]
  BY DEF GiveUp
<1>2. DOMAIN calls' = User /\ \A v \in User : calls'[v] \subseteq calls[v]
  BY <1>1 DEF SessionInv, Types
<1>3. Requests'
  BY <1>2 DEF GiveUp, SessionInv, Requests, Proper
<1>4. QED
  BY <1>2, <1>3, UserInv DEF GiveUp, SessionInv, Types
-----------------------------------------------------------------------------
\* What a commit adds to the history.
Run(q, i, res) == [by |-> q.by, seq |-> q.cmd.seq, group |-> q.to, at |-> i, res |-> res]

\* The three things that serving a request may do to its group: nothing, when its
\* session has executed it; register a session; execute it.
Again(q, res) ==
    /\ Repeated(sm[q.to], q.cmd)
    /\ sm'[q.to] = sm[q.to]
    /\ ran' = ran
    /\ res = sm[q.to].sessions[q.cmd.client].res

Registered(q, res) ==
    /\ q.cmd = Register /\ q.to = MetaGroup
    /\ SessionSet(sm[q.to], sm'[q.to], index[q.to] + 1, 0, NoResult)
    /\ ran' = ran
    /\ res.id = index[q.to] + 1

New(q, res) ==
    /\ ~Repeated(sm[q.to], q.cmd)
    /\ SessionSet(sm[q.to], sm'[q.to], q.cmd.client, q.cmd.seq, res)
    /\ ran' = ran \cup {Run(q, index[q.to] + 1, res)}

\* What serving does to the user that waits.
Answered(q, res) ==
    /\ q \in calls[q.by]
    /\ \A u \in User : calls'[u] = IF u = q.by THEN calls[u] \ {q} ELSE calls[u]
    /\ IF q.cmd = Register
       THEN /\ clientID' = [clientID EXCEPT ![q.by] = res.id]
            /\ acked' = acked
       ELSE /\ clientID' = clientID
            /\ acked' = acked \cup {[by |-> q.by, seq |-> q.cmd.seq, res |-> res]}

Served(q, res) ==
    /\ DOMAIN sm' = Group /\ \A g \in Group : g # q.to => sm'[g] = sm[g]
    /\ IsGroup(sm'[q.to])
    /\ index' \in [Group -> Nat]
    /\ \A g \in Group : index'[g] = IF g = q.to THEN index[g] + 1 ELSE index[g]
    /\ reqs' \subseteq reqs
    /\ seq' = seq
    /\ DOMAIN calls' = User
    /\ \/ Answered(q, res)
       \/ UNCHANGED <<calls, clientID, acked>>

Outcome(q, res) ==
    /\ Served(q, res)
    /\ \/ Again(q, res) /\ q.cmd # Register
       \/ Registered(q, res)
       \/ New(q, res) /\ q.cmd # Register

LEMMA NewRuns ==
    ASSUME NEW q, NEW res, New(q, res)
    PROVE  \E x \in ran' : x.by = q.by /\ x.seq = q.cmd.seq /\ x.res = res
<1>1. PICK y : y = Run(q, index[q.to] + 1, res)
  OBVIOUS
<1>2. y \in ran' /\ y.by = q.by /\ y.seq = q.cmd.seq /\ y.res = res
  BY <1>1 DEF Run, New
<1>3. QED
  BY <1>2

LEMMA ServeCases ==
    ASSUME SessionInv, NEW q \in reqs, Serve(q)
    PROVE  \E res : Outcome(q, res)
<1> DEFINE g == q.to
           e == Apply(sm[g], q.cmd, index[g] + 1)
<1>1. Proper(q)
  BY DEF SessionInv, Requests
<1>2. /\ g \in Group /\ q.by \in User /\ IsGroup(sm[g])
      /\ index \in [Group -> Nat] /\ index[g] \in Nat /\ index[g] + 1 # 0
      /\ DOMAIN sm = Group /\ DOMAIN calls = User /\ DOMAIN clientID = User
      /\ clientID \in [User -> Nat] /\ seq \in [User -> Nat]
  BY <1>1 DEF Proper, SessionInv, Types
<1>3. /\ sm' = [sm EXCEPT ![g] = e.sm]
      /\ index' = [index EXCEPT ![g] = @ + 1]
      /\ ran' = IF q.cmd.client = 0 \/ Repeated(sm[g], q.cmd) THEN ran
                ELSE ran \cup {[by |-> q.by, seq |-> q.cmd.seq, group |-> g,
                                at |-> index'[g], res |-> e.res]}
      /\ reqs' \subseteq reqs
      /\ seq' = seq
  BY DEF Serve, Commit
<1>4. /\ DOMAIN sm' = Group /\ \A h \in Group : h # g => sm'[h] = sm[h]
      /\ sm'[g] = e.sm
      /\ index' \in [Group -> Nat] /\ index'[g] = index[g] + 1
      /\ \A h \in Group : index'[h] = IF h = g THEN index[h] + 1 ELSE index[h]
  <2> HIDE DEF e
  <2> QED  BY <1>2, <1>3
<1>5. q.cmd = Register <=> q.cmd.op = "register"
  BY <1>1 DEF Proper, Register, ClientOps
<1>6. Answer(q, e.res) \/ UNCHANGED <<calls, clientID, acked>>
  BY DEF Serve
<1>7. /\ DOMAIN calls' = User
      /\ Answered(q, e.res) \/ UNCHANGED <<calls, clientID, acked>>
  <2> HIDE DEF e
  <2> QED  BY <1>2, <1>5, <1>6 DEF Answer, Answered
<1>8. CASE q.cmd = Register
  <2>1. g = MetaGroup
    BY <1>1, <1>8 DEF Proper, Register, ClientOps
  <2>2. SessionSet(sm[g], e.sm, index[g] + 1, 0, NoResult) /\ e.res.id = index[g] + 1
    BY <1>2, <1>8, ApplyRegister
  <2>3. ran' = ran
    BY <1>3, <1>8 DEF Register
  <2> HIDE DEF e
  <2>4. Registered(q, e.res)
    BY <1>4, <1>8, <2>1, <2>2, <2>3 DEF Registered
  <2>5. Served(q, e.res)
    BY <1>3, <1>4, <1>7, <2>2 DEF Served, SessionSet
  <2>6. QED
    BY <2>4, <2>5 DEF Outcome
<1>9. CASE q.cmd # Register /\ Repeated(sm[g], q.cmd)
  <2>1. e = [sm |-> sm[g], res |-> sm[g].sessions[q.cmd.client].res]
    BY <1>9, ApplyRepeated
  <2> HIDE DEF e
  <2>2. e.sm = sm[g] /\ e.res = sm[g].sessions[q.cmd.client].res
    BY <2>1
  <2>3. Again(q, e.res)
    BY <1>3, <1>4, <1>9, <2>2 DEF Again
  <2>4. Served(q, e.res)
    BY <1>2, <1>3, <1>4, <1>7, <2>2 DEF Served
  <2>5. QED
    BY <1>9, <2>3, <2>4 DEF Outcome
<1>10. CASE q.cmd # Register /\ ~Repeated(sm[g], q.cmd)
  <2>1. q.cmd.op \in ClientOps /\ q.cmd.client # 0 /\ q.cmd.seq \in Nat
    BY <1>1, <1>2, <1>10 DEF Proper
  <2>2. SessionSet(sm[g], e.sm, q.cmd.client, q.cmd.seq, e.res)
    BY <1>2, <1>10, <2>1, ApplyClient
  <2> HIDE DEF e
  <2>3. New(q, e.res)
    BY <1>3, <1>4, <1>10, <2>1, <2>2 DEF New, Run
  <2>4. Served(q, e.res)
    BY <1>3, <1>4, <1>7, <2>2 DEF Served, SessionSet
  <2>5. QED
    BY <1>10, <2>3, <2>4 DEF Outcome
<1>11. QED
  BY <1>8, <1>9, <1>10

\* A client's id changes only from 0, to an index the meta group has just reached.
Reidentified(q) ==
    \A u \in User :
        \/ clientID'[u] = clientID[u]
        \/ /\ u = q.by /\ q.cmd = Register /\ q.to = MetaGroup
           /\ clientID[u] = 0 /\ clientID'[u] = index[MetaGroup] + 1
           /\ calls'[u] = {}

LEMMA NewIDs ==
    ASSUME SessionInv, NEW q \in reqs, NEW res, Outcome(q, res)
    PROVE  clientID' \in [User -> Nat] /\ Reidentified(q)
<1>1. CASE UNCHANGED <<calls, clientID, acked>>
  BY <1>1 DEF SessionInv, Types, Reidentified
<1>2. CASE Answered(q, res) /\ q.cmd # Register
  BY <1>2 DEF Answered, SessionInv, Types, Reidentified
<1>3. CASE Answered(q, res) /\ q.cmd = Register
  <2>1. Registered(q, res)
    BY <1>3 DEF Outcome
  <2>2. q \in calls[q.by] /\ q.by \in User /\ Proper(q) /\ clientID[q.by] = 0
    BY <1>3 DEF Answered, SessionInv, Requests, Proper
  <2>3. \A r \in calls[q.by] : r = q
    BY <1>3, <2>1, <2>2 DEF SessionInv, Requests, Proper, Registered, Register, ClientOps
  <2>4. calls'[q.by] = {}
    BY <1>3, <2>2, <2>3 DEF Answered
  <2>5. index[MetaGroup] + 1 \in Nat
    BY KVSessionsConstants DEF SessionInv, Types
  <2>6. clientID \in [User -> Nat] /\ clientID' = [clientID EXCEPT ![q.by] = index[MetaGroup] + 1]
    BY <1>3, <2>1 DEF Answered, Registered, SessionInv, Types
  <2>7. QED
    BY <2>1, <2>2, <2>4, <2>5, <2>6 DEF Registered, Reidentified
<1>4. QED
  BY <1>1, <1>2, <1>3 DEF Served, Outcome

\* What serving a request relies on.
LEMMA ServeFacts ==
    ASSUME SessionInv, NEW q \in reqs, NEW res, Outcome(q, res)
    PROVE  /\ q.by \in User /\ q.to \in Group /\ MetaGroup \in Group
           /\ clientID \in [User -> Nat] /\ seq \in [User -> Nat] /\ seq' = seq
           /\ index \in [Group -> Nat] /\ index' \in [Group -> Nat]
           /\ \A g \in Group : index'[g] = IF g = q.to THEN index[g] + 1 ELSE index[g]
           /\ q.cmd # Register => /\ clientID[q.by] # 0 /\ q.cmd.client = clientID[q.by]
                                  /\ q.cmd.client \in 1..index[MetaGroup]
                                  /\ q.cmd.seq \in 1..seq[q.by] /\ q.cmd.seq \in Nat
<1>1. Proper(q) /\ MetaGroup \in Group
  BY KVSessionsConstants DEF SessionInv, Requests
<1>2. /\ clientID \in [User -> Nat] /\ seq \in [User -> Nat] /\ index \in [Group -> Nat]
  BY DEF SessionInv, Types
<1>3. /\ seq' = seq /\ index' \in [Group -> Nat]
      /\ \A g \in Group : index'[g] = IF g = q.to THEN index[g] + 1 ELSE index[g]
  BY DEF Outcome, Served
<1>4. q.by \in User /\ q.to \in Group
  BY <1>1 DEF Proper
<1>5. clientID[q.by] <= index[MetaGroup]
  BY <1>4 DEF SessionInv, IDs
<1>6. q.cmd # Register => /\ clientID[q.by] # 0 /\ q.cmd.client = clientID[q.by]
                          /\ q.cmd.seq \in 1..seq[q.by]
  BY <1>1 DEF Proper
<1>7. q.cmd # Register => q.cmd.client \in 1..index[MetaGroup] /\ q.cmd.seq \in Nat
  BY <1>1, <1>2, <1>4, <1>5, <1>6
<1>8. QED
  BY <1>1, <1>2, <1>3, <1>4, <1>6, <1>7

\* A session that something was executed for is kept, and moves forward.
Kept(x, q, res) ==
    /\ clientID'[x.by] = clientID[x.by]
    /\ clientID[x.by] \in DOMAIN sm'[x.group].sessions
    /\ x.seq <= sm'[x.group].sessions[clientID[x.by]].seq
    /\ x.at <= index[x.group] /\ x.at <= index'[x.group]
    /\ (x.by = q.by /\ x.group = q.to /\ New(q, res) /\ q.cmd # Register) => x.seq < q.cmd.seq

LEMMA SessionKept ==
    ASSUME SessionInv, NEW q \in reqs, NEW res, Outcome(q, res), NEW x \in ran
    PROVE  Kept(x, q, res)
<1>1. PICK s, t, c : s = sm[x.group] /\ t = sm'[x.group] /\ c = clientID[x.by]
  OBVIOUS
<1>2. /\ x.by \in User /\ x.group \in Group /\ x.seq \in Nat /\ x.at \in Nat
      /\ c # 0 /\ x.at <= index[x.group]
      /\ c \in DOMAIN s.sessions /\ x.seq <= s.sessions[c].seq
  BY <1>1 DEF SessionInv, Executed
<1>3. IsGroup(s) /\ c \in 1..index[MetaGroup]
  BY <1>1, <1>2 DEF SessionInv, Types, IDs
<1>4. s.sessions[c].seq \in Nat
  BY <1>2, <1>3 DEF IsGroup
<1>5. /\ index \in [Group -> Nat] /\ MetaGroup \in Group
      /\ \A g \in Group : index'[g] = IF g = q.to THEN index[g] + 1 ELSE index[g]
      /\ q.cmd # Register => /\ q.cmd.client # 0 /\ q.cmd.seq \in Nat
                             /\ q.cmd.client = clientID[q.by]
  BY ServeFacts
<1>6. clientID'[x.by] = c
  <2>1. Reidentified(q)
    BY NewIDs
  <2>2. QED
    BY <1>1, <1>2, <2>1 DEF Reidentified
<1>7. x.at <= index'[x.group]
  BY <1>2, <1>5
<1>8. SUFFICES /\ c \in DOMAIN t.sessions /\ x.seq <= t.sessions[c].seq
               /\ (x.by = q.by /\ x.group = q.to /\ New(q, res) /\ q.cmd # Register)
                     => x.seq < q.cmd.seq
  BY <1>1, <1>2, <1>6, <1>7 DEF Kept
<1>9. CASE x.group # q.to
  <2>1. t = s
    BY <1>1, <1>2, <1>9 DEF Outcome, Served
  <2>2. QED
    BY <1>2, <1>9, <2>1
<1>10. CASE x.group = q.to /\ Again(q, res)
  <2>1. t = s /\ ~New(q, res)
    BY <1>1, <1>10 DEF Again, New
  <2>2. QED
    BY <1>2, <2>1
<1>11. CASE x.group = q.to /\ Registered(q, res)
  <2>1. SessionSet(s, t, index[MetaGroup] + 1, 0, NoResult) /\ q.cmd = Register
    BY <1>1, <1>11 DEF Registered
  <2>2. c # index[MetaGroup] + 1
    BY <1>3, <1>5
  <2>3. QED
    BY <1>2, <2>1, <2>2 DEF SessionSet
<1>12. CASE x.group = q.to /\ New(q, res) /\ q.cmd # Register
  <2>1. SessionSet(s, t, q.cmd.client, q.cmd.seq, res) /\ ~Repeated(s, q.cmd)
    BY <1>1, <1>12 DEF New
  <2>2. CASE c # q.cmd.client
    <3>1. x.by # q.by
      BY <1>1, <1>5, <1>12, <2>2
    <3>2. QED
      BY <1>2, <2>1, <2>2, <3>1 DEF SessionSet
  <2>3. CASE c = q.cmd.client
    <3>1. s.sessions[c].seq < q.cmd.seq
      BY <1>2, <1>4, <1>5, <1>12, <2>1, <2>3 DEF Repeated
    <3>2. c \in DOMAIN t.sessions /\ t.sessions[c].seq = q.cmd.seq
      BY <2>1, <2>3 DEF SessionSet
    <3>3. QED
      BY <1>2, <1>4, <1>5, <1>12, <3>1, <3>2
  <2>4. QED
    BY <2>2, <2>3
<1>13. QED
  BY <1>9, <1>10, <1>11, <1>12 DEF Outcome

\* The sessions of a group after a request are those it had, one just registered,
\* or that of a client.
LEMMA ServeIDs ==
    ASSUME SessionInv, NEW q \in reqs, NEW res, Outcome(q, res)
    PROVE  IDs'
<1>1. /\ MetaGroup \in Group /\ q.to \in Group
      /\ index \in [Group -> Nat] /\ index' \in [Group -> Nat]
      /\ \A g \in Group : index'[g] = IF g = q.to THEN index[g] + 1 ELSE index[g]
      /\ q.cmd # Register => q.cmd.client \in 1..index[MetaGroup]
  BY ServeFacts
<1>2. PICK n \in Nat : n = index[MetaGroup]
  BY <1>1
<1>3. index'[MetaGroup] \in Nat /\ n <= index'[MetaGroup]
      /\ (q.to = MetaGroup => index'[MetaGroup] = n + 1)
  BY <1>1, <1>2
<1>4. \A u \in User : clientID'[u] <= index'[MetaGroup]
  <2>1. Reidentified(q) /\ clientID \in [User -> Nat]
    BY NewIDs, ServeFacts
  <2>2. \A u \in User : clientID[u] <= n
    BY <1>2 DEF SessionInv, IDs
  <2>3. QED
    BY <1>2, <1>3, <2>1, <2>2 DEF Reidentified
<1>5. ASSUME NEW g \in Group PROVE \A c \in DOMAIN sm'[g].sessions : c \in 1..index'[MetaGroup]
  <2>1. PICK s, t : s = sm[g] /\ t = sm'[g]
    OBVIOUS
  <2>2. \A c \in DOMAIN s.sessions : c \in 1..n
    BY <1>2, <2>1 DEF SessionInv, IDs
  <2>3. \A c \in DOMAIN t.sessions : c \in 1..n \/ (c = n + 1 /\ q.to = MetaGroup)
    <3>1. CASE g # q.to
      BY <2>1, <2>2, <3>1, SMTT(30) DEF Outcome, Served
    <3>2. CASE g = q.to /\ Again(q, res)
      BY <2>1, <2>2, <3>2 DEF Again
    <3>3. CASE g = q.to /\ Registered(q, res)
      <4>1. SessionSet(s, t, n + 1, 0, NoResult) /\ q.to = MetaGroup
        BY <1>2, <2>1, <3>3 DEF Registered
      <4>2. QED
        BY <2>2, <4>1 DEF SessionSet
    <3>4. CASE g = q.to /\ New(q, res) /\ q.cmd # Register
      <4>1. SessionSet(s, t, q.cmd.client, q.cmd.seq, res)
        BY <2>1, <3>4 DEF New
      <4>2. q.cmd.client \in 1..n
        BY <1>1, <1>2, <3>4
      <4>3. QED
        BY <2>2, <4>1, <4>2 DEF SessionSet
    <3>5. QED
      BY <3>1, <3>2, <3>3, <3>4 DEF Outcome
  <2>4. QED
    BY <1>3, <2>1, <2>3
<1>6. QED
  BY <1>4, <1>5 DEF IDs

LEMMA ServeRequests ==
    ASSUME SessionInv, NEW q \in reqs, NEW res, Outcome(q, res)
    PROVE  Requests' /\ SessionsUnique'
<1>1. Reidentified(q) /\ clientID \in [User -> Nat] /\ seq' = seq /\ reqs' \subseteq reqs
  BY NewIDs, ServeFacts, SMTT(30) DEF Outcome, Served
<1>2. \A r : Proper(r) => Proper(r)'
  BY <1>1 DEF Proper, Reidentified
<1>3. \A u \in User : calls'[u] \subseteq calls[u]
  BY DEF Outcome, Served, Answered
<1>4. Requests'
  <2>1. \A r \in reqs' : Proper(r)'
    BY <1>1, <1>2 DEF SessionInv, Requests
  <2>2. ASSUME NEW u \in User, NEW r \in calls'[u]
        PROVE  Proper(r)' /\ r.by = u /\ (r.cmd = Register <=> clientID'[u] = 0)
    <3>1. Proper(r) /\ r.by = u /\ (r.cmd = Register <=> clientID[u] = 0)
      BY <1>3, <2>2 DEF SessionInv, Requests
    <3>2. clientID'[u] = clientID[u]
      BY <1>1, <2>2 DEF Reidentified
    <3>3. QED
      BY <1>2, <3>1, <3>2
  <2>3. QED
    BY <2>1, <2>2 DEF Requests
<1>5. SessionsUnique'
  <2>1. PICK n \in Nat : n = index[MetaGroup]
    BY ServeFacts
  <2>2. \A u \in User : clientID[u] # n + 1
    BY <1>1, <2>1 DEF SessionInv, IDs
  <2>3. QED
    BY <1>1, <2>1, <2>2 DEF SessionInv, SessionsUnique, Reidentified
<1>6. QED
  BY <1>4, <1>5

\* The history and the session table, one execution further.
LEMMA ServeNew ==
    ASSUME SessionInv, NEW q \in reqs, NEW res, Outcome(q, res), New(q, res), q.cmd # Register
    PROVE  Executed' /\ ExecutedOnce'
<1>1. PICK n \in Nat : n = index[q.to]
  BY ServeFacts
<1>2. PICK y : y = Run(q, n + 1, res)
  OBVIOUS
<1>3. /\ y.by = q.by /\ y.seq = q.cmd.seq /\ y.group = q.to /\ y.at = n + 1
      /\ ran' = ran \cup {y}
  BY <1>1, <1>2 DEF Run, New
<1>4. /\ q.by \in User /\ q.to \in Group
      /\ index'[q.to] = n + 1
      /\ clientID[q.by] # 0 /\ q.cmd.client = clientID[q.by] /\ q.cmd.seq \in Nat
  BY <1>1, ServeFacts
<1>5. clientID'[q.by] = q.cmd.client
  <2>1. Reidentified(q)
    BY NewIDs
  <2>2. QED
    BY <1>4, <2>1 DEF Reidentified
<1>6. q.cmd.client \in DOMAIN sm'[q.to].sessions /\ sm'[q.to].sessions[q.cmd.client].seq = q.cmd.seq
  <2>1. PICK s, t : s = sm[q.to] /\ t = sm'[q.to]
    OBVIOUS
  <2>2. SessionSet(s, t, q.cmd.client, q.cmd.seq, res)
    BY <2>1 DEF New
  <2>3. q.cmd.client \in DOMAIN t.sessions /\ t.sessions[q.cmd.client].seq = q.cmd.seq
    BY <2>2, SMTT(30) DEF SessionSet
  <2>4. QED
    BY <2>1, <2>3
<1>7. Executed'
  <2>1. /\ y.by \in User /\ y.group \in Group /\ y.seq \in Nat /\ y.at \in Nat
        /\ clientID'[y.by] # 0 /\ y.at <= index'[y.group]
        /\ clientID'[y.by] \in DOMAIN sm'[y.group].sessions
        /\ y.seq <= sm'[y.group].sessions[clientID'[y.by]].seq
    BY <1>3, <1>4, <1>5, <1>6
  <2>2. \A x \in ran : Kept(x, q, res)
    BY SessionKept
  <2>3. \A x \in ran :
           /\ x.by \in User /\ x.group \in Group /\ x.seq \in Nat /\ x.at \in Nat
           /\ clientID[x.by] # 0
    BY DEF SessionInv, Executed
  <2>4. QED
    BY <1>3, <2>1, <2>2, <2>3 DEF Executed, Kept
<1>8. ExecutedOnce'
  <2>1. ASSUME NEW x \in ran, x.by = y.by, x.group = y.group PROVE x.seq < y.seq /\ x.at < y.at
    <3>1. Kept(x, q, res)
      BY SessionKept
    <3>2. x.seq < q.cmd.seq /\ x.at <= n
      BY <1>1, <1>3, <2>1, <3>1 DEF Kept
    <3>3. x.at \in Nat
      BY DEF SessionInv, Executed
    <3>4. QED
      BY <1>3, <3>2, <3>3
  <2>2. \A x \in ran : x.seq \in Nat /\ x.at \in Nat
    BY DEF SessionInv, Executed
  <2>3. y.seq \in Nat /\ y.at \in Nat
    BY <1>3, <1>4
  <2>4. ASSUME NEW x \in ran', NEW z \in ran', x.by = z.by, x.group = z.group
        PROVE  (x.seq = z.seq => x = z) /\ (x.seq < z.seq => x.at < z.at)
    <3>1. CASE x \in ran /\ z \in ran
      BY <2>4, <3>1 DEF SessionInv, ExecutedOnce
    <3>2. CASE x \in ran /\ z = y
      BY <2>1, <2>2, <2>3, <2>4, <3>2
    <3>3. CASE x = y /\ z \in ran
      BY <2>1, <2>2, <2>3, <2>4, <3>3
    <3>4. CASE x = y /\ z = y
      BY <2>3, <3>4
    <3>5. QED
      BY <1>3, <3>1, <3>2, <3>3, <3>4
  <2>5. QED
    BY <2>4 DEF ExecutedOnce
<1>9. QED
  BY <1>7, <1>8

LEMMA ServeInv ==
    ASSUME SessionInv, NEW q \in reqs, Serve(q)
    PROVE  SessionInv'
<1>1. PICK res : Outcome(q, res)
  BY ServeCases
<1>2. Types'
  <2>1. /\ DOMAIN sm' = Group /\ DOMAIN calls' = User
        /\ \A g \in Group : IsGroup(sm'[g])
    BY <1>1 DEF Outcome, Served, SessionInv, Types
  <2>2. index' \in [Group -> Nat] /\ clientID' \in [User -> Nat] /\ seq' \in [User -> Nat]
    BY <1>1, NewIDs, ServeFacts
  <2>3. QED
    BY <2>1, <2>2, SMTT(30) DEF Types, IsGroup
<1>3. IDs' /\ Requests' /\ SessionsUnique'
  BY <1>1, ServeIDs, ServeRequests
<1>4. Executed' /\ ExecutedOnce'
  <2>1. CASE ran' = ran
    <3>1. \A x \in ran : Kept(x, q, res)
      BY <1>1, SessionKept
    <3>2. Executed'
      BY <2>1, <3>1 DEF SessionInv, Executed, Kept
    <3>3. QED
      BY <2>1, <3>2 DEF SessionInv, ExecutedOnce
  <2>2. CASE New(q, res) /\ q.cmd # Register
    BY <1>1, <2>2, ServeNew
  <2>3. QED
    BY <1>1, <2>1, <2>2 DEF Outcome, Again, Registered
<1>5. QED
  BY <1>2, <1>3, <1>4 DEF SessionInv
-----------------------------------------------------------------------------
LEMMA NextInv == SessionInv /\ [Next]_vars => SessionInv'
<1> SUFFICES ASSUME SessionInv, [Next]_vars PROVE SessionInv'
  OBVIOUS
<1>1. CASE UNCHANGED vars
  <2>1. Types' /\ IDs' /\ Requests'
    BY <1>1, SMTT(30) DEF vars, SessionInv, Types, IDs, IsGroup, Requests, Proper
  <2>2. Executed' /\ SessionsUnique' /\ ExecutedOnce'
    BY <1>1 DEF vars, SessionInv, Executed, SessionsUnique, ExecutedOnce
  <2>3. QED
    BY <2>1, <2>2 DEF SessionInv
<1>2. QED
  BY <1>1, DialInv, CallInv, RetryInv, GiveUpInv, ServeInv DEF Next

\* Two clients never get the same session from RegisterClient, however often a
\* registration is attempted and applied.
THEOREM SessionsDistinct == Spec => []SessionsUnique
<1>1. SessionInv => SessionsUnique
  BY DEF SessionInv
<1>2. QED
  BY <1>1, InitInv, NextInv, PTL DEF Spec

\* Apply executes a command at most once, and those of one client in the order of
\* its calls in each group, however often and late its attempts are applied, for
\* any number of clients and of calls each has outstanding.
THEOREM ExactlyOnce == Spec => []ExecutedOnce
<1>1. SessionInv => ExecutedOnce
  BY DEF SessionInv
<1>2. QED
  BY <1>1, InitInv, NextInv, PTL DEF Spec
==============================================================================
