-------------------------- MODULE KVAnswersProofs ----------------------------
(***************************************************************************)
(* What a session promises the program that calls Put, Delete or Cas: an   *)
(* answer is that of the one execution, when a Client has one call at a    *)
(* time.                                                                   *)
(***************************************************************************)
EXTENDS KVSessionsProofs, FiniteSetTheorems

\* With one call at a time, it has the number handed out last.
Latest ==
    \A u \in User :
        /\ calls[u] = {} \/ \E q \in calls[u] : calls[u] = {q}
        /\ \A q \in calls[u] : q.cmd # Register => q.cmd.seq = seq[u]

\* A session of u at a command that was executed, with its result.
AtRun(s, u) ==
    /\ s.seq <= seq[u]
    /\ s.seq > 0 => \E x \in ran : x.by = u /\ x.seq = s.seq /\ x.res = s.res

Recorded ==
    \A g \in Group, u \in User :
        (clientID[u] # 0 /\ clientID[u] \in DOMAIN sm[g].sessions) =>
            AtRun(sm[g].sessions[clientID[u]], u)

AckInv == SessionInv /\ Latest /\ Recorded /\ AckedExecuted

LEMMA AckInit == Init => AckInv
<1> SUFFICES ASSUME Init PROVE AckInv
  OBVIOUS
<1>1. DOMAIN EmptyGroup.sessions = {}
  BY DEF EmptyGroup
<1>2. Latest /\ Recorded /\ AckedExecuted
  BY <1>1 DEF Init, Latest, Recorded, AckedExecuted
<1>3. QED
  BY <1>2, InitInv DEF AckInv

\* Serving a request leaves every session at a command that was executed.
LEMMA ServeRecorded ==
    ASSUME AckInv, NEW q \in reqs, NEW res, Outcome(q, res), ran \subseteq ran'
    PROVE  Recorded'
<1>1. /\ q.by \in User /\ seq' = seq /\ seq \in [User -> Nat]
      /\ index \in [Group -> Nat] /\ MetaGroup \in Group
      /\ q.cmd # Register => /\ clientID[q.by] # 0 /\ q.cmd.client = clientID[q.by]
                             /\ q.cmd.seq \in 1..seq[q.by]
  BY ServeFacts DEF AckInv
<1>2. Reidentified(q)
  BY NewIDs DEF AckInv
<1>3. PICK n \in Nat : n = index[MetaGroup]
  BY <1>1
<1> SUFFICES ASSUME NEW g \in Group, NEW u \in User, clientID'[u] # 0,
                    clientID'[u] \in DOMAIN sm'[g].sessions
             PROVE  AtRun(sm[g].sessions[clientID[u]], u)'
  BY DEF Recorded
<1>4. PICK s, t, c, m : s = sm[g] /\ t = sm'[g] /\ c = clientID'[u] /\ m = t.sessions[c]
  OBVIOUS
<1>5. SUFFICES /\ m.seq <= seq[u]
               /\ m.seq > 0 => \E x \in ran' : x.by = u /\ x.seq = m.seq /\ x.res = m.res
  BY <1>1, <1>4 DEF AtRun
<1>6. n + 1 \notin DOMAIN s.sessions
  BY <1>3, <1>4 DEF AckInv, SessionInv, IDs
<1>7. CASE c # clientID[u]
  <2>1. Registered(q, res) /\ c = n + 1
    BY <1>2, <1>3, <1>4, <1>7 DEF Reidentified, Outcome
  <2>2. g = q.to
    BY <1>4, <1>6, <2>1 DEF Outcome, Served
  <2>3. SessionSet(s, t, n + 1, 0, NoResult)
    BY <1>3, <1>4, <2>1, <2>2 DEF Registered
  <2>4. m.seq = 0
    BY <1>4, <2>1, <2>3 DEF SessionSet
  <2>5. QED
    BY <1>1, <2>4
<1>8. CASE c = clientID[u] /\ c \in DOMAIN s.sessions /\ m = s.sessions[c]
  <2>1. AtRun(m, u)
    BY <1>4, <1>8 DEF AckInv, Recorded
  <2>2. QED
    BY <2>1 DEF AtRun
<1>9. CASE c = clientID[u] /\ g # q.to
  BY <1>4, <1>8, <1>9, SMTT(30) DEF Outcome, Served
<1>10. CASE c = clientID[u] /\ g = q.to /\ Again(q, res)
  BY <1>4, <1>8, <1>10 DEF Again
<1>11. CASE c = clientID[u] /\ g = q.to /\ Registered(q, res)
  <2>1. SessionSet(s, t, n + 1, 0, NoResult)
    BY <1>3, <1>4, <1>11 DEF Registered
  <2>2. clientID[u] <= n /\ clientID[u] \in Nat
    BY <1>3 DEF AckInv, SessionInv, IDs, Types
  <2>3. QED
    BY <1>4, <1>8, <1>11, <2>1, <2>2 DEF SessionSet
<1>12. CASE c = clientID[u] /\ g = q.to /\ New(q, res) /\ q.cmd # Register
  <2>1. SessionSet(s, t, q.cmd.client, q.cmd.seq, res)
    BY <1>4, <1>12, SMTT(30) DEF New
  <2>2. CASE c # q.cmd.client
    BY <1>4, <1>8, <1>12, <2>1, <2>2 DEF SessionSet
  <2>3. CASE c = q.cmd.client
    <3>1. u = q.by
      BY <1>1, <1>4, <1>12, <2>3 DEF AckInv, SessionInv, SessionsUnique
    <3>2. m.seq = q.cmd.seq /\ m.res = res
      BY <1>4, <2>1, <2>3 DEF SessionSet
    <3>3. \E x \in ran' : x.by = q.by /\ x.seq = q.cmd.seq /\ x.res = res
      BY <1>12, NewRuns
    <3>4. QED
      BY <1>1, <1>12, <3>1, <3>2, <3>3
  <2>4. QED
    BY <2>2, <2>3
<1>13. QED
  BY <1>7, <1>9, <1>10, <1>11, <1>12 DEF Outcome

\* A request that a caller waits for, and that its session has executed before, is the
\* last one of the session, and the session has its result.
LEMMA AgainRan ==
    ASSUME AckInv, NEW q \in reqs, NEW res, Outcome(q, res), Again(q, res),
           q.cmd # Register, q \in calls[q.by]
    PROVE  \E x \in ran : x.by = q.by /\ x.seq = q.cmd.seq /\ x.res = res
<1>1. /\ q.by \in User /\ q.to \in Group /\ seq \in [User -> Nat]
      /\ clientID[q.by] # 0 /\ q.cmd.client = clientID[q.by]
      /\ q.cmd.seq \in 1..seq[q.by]
  BY ServeFacts DEF AckInv
<1>2. PICK s, m : s = sm[q.to] /\ m = s.sessions[q.cmd.client]
  OBVIOUS
<1>3. q.cmd.client \in DOMAIN s.sessions /\ q.cmd.seq <= m.seq /\ res = m.res
  BY <1>2 DEF Again, Repeated
<1>4. IsGroup(s)
  BY <1>1, <1>2, SMTT(30) DEF AckInv, SessionInv, Types
<1>5. m.seq \in Nat
  BY <1>2, <1>3, <1>4 DEF IsGroup
<1>6. AtRun(m, q.by)
  BY <1>1, <1>2, <1>3 DEF AckInv, Recorded
<1>7. q.cmd.seq = seq[q.by]
  BY <1>1 DEF AckInv, Latest
<1>8. m.seq = q.cmd.seq /\ m.seq > 0
  BY <1>1, <1>3, <1>5, <1>6, <1>7 DEF AtRun
<1>9. QED
  BY <1>3, <1>6, <1>8 DEF AtRun

LEMMA ServeAck ==
    ASSUME AckInv, NEW q \in reqs, Serve(q)
    PROVE  Latest' /\ Recorded' /\ AckedExecuted'
<1>1. PICK res : Outcome(q, res)
  BY ServeCases DEF AckInv
<1>2. Latest'
  <2>1. \A u \in User : calls'[u] = calls[u] \/ calls'[u] = calls[u] \ {q}
    BY <1>1 DEF Outcome, Served, Answered
  <2>2. \A u \in User : calls'[u] = {} \/ \E r \in calls'[u] : calls'[u] = {r}
    BY <2>1 DEF AckInv, Latest
  <2>3. seq' = seq
    BY <1>1 DEF Outcome, Served
  <2>4. \A u \in User : \A r \in calls'[u] : r.cmd # Register => r.cmd.seq = seq'[u]
    BY <2>1, <2>3 DEF AckInv, Latest
  <2>5. QED
    BY <2>2, <2>4 DEF Latest
<1>3. ran \subseteq ran'
  BY <1>1 DEF Outcome, Again, Registered, New
<1>4. Recorded'
  BY <1>1, <1>3, ServeRecorded
<1>5. AckedExecuted'
  <2>1. CASE acked' = acked
    BY <1>3, <2>1 DEF AckInv, AckedExecuted
  <2>2. CASE Answered(q, res) /\ q.cmd # Register
    <3>1. \E x \in ran' : x.by = q.by /\ x.seq = q.cmd.seq /\ x.res = res
      <4>1. CASE New(q, res)
        BY <4>1, NewRuns
      <4>2. CASE Again(q, res)
        BY <1>1, <1>3, <2>2, <4>2, AgainRan DEF Answered
      <4>3. QED
        BY <1>1, <2>2, <4>1, <4>2 DEF Outcome, Registered
    <3>2. PICK a : a = [by |-> q.by, seq |-> q.cmd.seq, res |-> res] /\ acked' = acked \cup {a}
      BY <2>2 DEF Answered
    <3>3. a.by = q.by /\ a.seq = q.cmd.seq /\ a.res = res
      BY <3>2
    <3>4. QED
      BY <1>3, <3>1, <3>2, <3>3 DEF AckInv, AckedExecuted
  <2>3. QED
    BY <1>1, <2>1, <2>2 DEF Outcome, Served, Answered
<1>6. QED
  BY <1>2, <1>4, <1>5

LEMMA UserAck ==
    ASSUME AckInv, UNCHANGED <<sm, clientID, ran, acked>>, Latest',
           seq \in [User -> Nat], seq' \in [User -> Nat], \A u \in User : seq[u] <= seq'[u]
    PROVE  Latest' /\ Recorded' /\ AckedExecuted'
<1>1. AckedExecuted'
  BY DEF AckInv, AckedExecuted
<1>2. Recorded'
  <2> SUFFICES ASSUME NEW g \in Group, NEW u \in User, clientID[u] # 0,
                      clientID[u] \in DOMAIN sm[g].sessions
               PROVE  AtRun(sm[g].sessions[clientID[u]], u)'
    BY DEF Recorded
  <2>1. PICK s, m : s = sm[g] /\ m = s.sessions[clientID[u]]
    OBVIOUS
  <2>2. IsGroup(s) /\ AtRun(m, u)
    BY <2>1 DEF AckInv, SessionInv, Types, Recorded
  <2>3. m.seq \in Nat
    BY <2>1, <2>2 DEF IsGroup
  <2>4. m.seq <= seq'[u] /\ (m.seq > 0 => \E x \in ran' : x.by = u /\ x.seq = m.seq /\ x.res = m.res)
    BY <2>2, <2>3 DEF AtRun
  <2>5. QED
    BY <2>1, <2>4 DEF AtRun
<1>3. QED
  BY <1>1, <1>2

LEMMA NextAck ==
    ASSUME Outstanding = 1, AckInv, [Next]_vars
    PROVE  AckInv'
<1>1. SessionInv'
  BY NextInv DEF AckInv
<1>2. seq \in [User -> Nat] /\ DOMAIN calls = User
  BY DEF AckInv, SessionInv, Types
<1>3. ASSUME NEW u \in User, Dial(u) PROVE Latest' /\ Recorded' /\ AckedExecuted'
  <2>1. PICK q : q.cmd = Register /\ calls' = [calls EXCEPT ![u] = {q}]
    BY <1>3 DEF Dial, Request
  <2>2. Latest'
    <3>1. calls'[u] = {q} /\ \A v \in User : v # u => calls'[v] = calls[v]
      BY <1>2, <2>1
    <3>2. seq' = seq
      BY <1>3 DEF Dial
    <3>3. QED
      BY <2>1, <3>1, <3>2 DEF AckInv, Latest
  <2>3. QED
    BY <1>2, <1>3, <2>2, UserAck DEF Dial
<1>4. ASSUME NEW u \in User, NEW op \in Ops, Call(u, op)
      PROVE  Latest' /\ Recorded' /\ AckedExecuted'
  <2>1. PICK q : q.cmd.seq = seq[u] + 1 /\ calls' = [calls EXCEPT ![u] = @ \cup {q}]
    BY <1>4 DEF Call, Request, WithSession
  <2>2. seq' = [seq EXCEPT ![u] = @ + 1] /\ seq' \in [User -> Nat]
    BY <1>2, <1>4 DEF Call
  <2>3. calls[u] = {}
    <3>1. Cardinality(calls[u]) < 1
      BY <1>4 DEF Call
    <3>2. ASSUME NEW r, calls[u] = {r} PROVE FALSE
      BY <3>1, <3>2, FS_Singleton
    <3>3. QED
      BY <3>2 DEF AckInv, Latest
  <2>4. calls'[u] = {q} /\ \A v \in User : v # u => calls'[v] = calls[v] /\ seq'[v] = seq[v]
    BY <1>2, <2>1, <2>2, <2>3
  <2>5. Latest'
    BY <1>2, <2>1, <2>2, <2>4 DEF AckInv, Latest
  <2>6. QED
    BY <1>2, <1>4, <2>2, <2>5, UserAck DEF Call
<1>5. ASSUME NEW u \in User, Retry(u) PROVE Latest' /\ Recorded' /\ AckedExecuted'
  <2>1. UNCHANGED <<sm, clientID, ran, acked, calls, seq>>
    BY <1>5 DEF Retry
  <2>2. Latest'
    BY <2>1 DEF AckInv, Latest
  <2>3. QED
    BY <1>2, <2>1, <2>2, UserAck
<1>6. ASSUME NEW u \in User, GiveUp(u) PROVE Latest' /\ Recorded' /\ AckedExecuted'
  <2>1. PICK q \in calls[u] : calls' = [calls EXCEPT ![u] = @ \ {q}]
    BY <1>6 DEF GiveUp
  <2>2. calls'[u] = {} /\ \A v \in User : v # u => calls'[v] = calls[v]
    BY <1>2, <2>1 DEF AckInv, Latest
  <2>3. Latest'
    BY <1>6, <2>2 DEF AckInv, Latest, GiveUp
  <2>4. QED
    BY <1>2, <1>6, <2>3, UserAck DEF GiveUp
<1>7. ASSUME UNCHANGED vars PROVE Latest' /\ Recorded' /\ AckedExecuted'
  <2>1. UNCHANGED <<sm, clientID, ran, acked, calls, seq>>
    BY <1>7 DEF vars
  <2>2. Latest'
    BY <2>1 DEF AckInv, Latest
  <2>3. QED
    BY <1>2, <2>1, <2>2, UserAck
<1>8. ASSUME NEW q \in reqs, Serve(q) PROVE Latest' /\ Recorded' /\ AckedExecuted'
  BY <1>8, ServeAck
<1>9. Latest' /\ Recorded' /\ AckedExecuted'
  BY <1>3, <1>4, <1>5, <1>6, <1>7, <1>8 DEF Next
<1>10. QED
  BY <1>1, <1>9 DEF AckInv

\* The invariant, for any number of calls outstanding.
AckInvIfOne == SessionInv /\ (Outstanding = 1 => AckInv)

\* Where a program makes one call at a time on a Client, as all in the repository do,
\* a call that returns was executed and returns the result of that execution, also
\* when a retry is answered from the session table.
THEOREM AnswersTrue == Spec => [](Outstanding = 1 => AckedExecuted)
<1>1. Init => AckInvIfOne
  BY InitInv, AckInit DEF AckInvIfOne
<1>2. AckInvIfOne /\ [Next]_vars => AckInvIfOne'
  <2> SUFFICES ASSUME AckInvIfOne, [Next]_vars PROVE AckInvIfOne'
    OBVIOUS
  <2>1. SessionInv'
    BY NextInv DEF AckInvIfOne
  <2>2. ASSUME Outstanding = 1 PROVE AckInv'
    BY <2>2, NextAck DEF AckInvIfOne
  <2>3. QED
    BY <2>1, <2>2 DEF AckInvIfOne
<1>3. AckInvIfOne => (Outstanding = 1 => AckedExecuted)
  BY DEF AckInvIfOne, AckInv
<1>4. QED
  BY <1>1, <1>2, <1>3, PTL DEF Spec
==============================================================================
