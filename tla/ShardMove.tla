----------------------------- MODULE ShardMove ------------------------------
(***************************************************************************)
(* Routing and moving shards: Router.reload, forward and MoveShard         *)
(* (shard/router.go) over groups whose state machine is KVGroup.           *)
(*                                                                         *)
(* Routers run MoveShard at the same time, refresh their maps while they   *)
(* do, die or run out of time between any two steps, and run the move      *)
(* again.  A request times out and is applied later, once its caller has   *)
(* gone on: such requests are in late.  A writer and a reader go through   *)
(* any router.                                                             *)
(***************************************************************************)
EXTENDS KVGroup

CONSTANTS
    Group,          \* the groups that serve shards
    Default,        \* DefaultMap: the group of each shard at first
    Router,         \* nodes, each with its router
    Moves,          \* <<shard, group>>: the moves operators ask for
    ImportChunk,    \* importChunk, in keys
    ReadModes,      \* the modes reads ask for, "log" and "index"
    MaxWrites,      \* bound: writes
    MaxReads,       \* bound: reads
    MaxLate,        \* bound: requests applied after their caller gave them up
    MaxRuns         \* bound: runs of MoveShard

ASSUME ShardMoveConstants ==
    /\ Default \in [Shard -> Group]
    /\ Moves \subseteq Shard \X Group
    /\ 0 \notin Group
    /\ ImportChunk \in Nat \ {0}
    /\ ReadModes \subseteq {"log", "index"}

VARIABLES
    meta,       \* the map under mapKey in the meta group
    sm,         \* sm[g]: the state machine of the group g
    shards,     \* shards[r]: Router.shards
    raw,        \* raw[r]: Router.raw
    fetched,    \* fetched[r]: the answer a reload of r is about to install
    mv,         \* mv[r]: the MoveShard r runs
    late,       \* requests that will be applied though nobody waits for them
    lates, runs,
    wr,         \* the writer
    rd,         \* the reader
    known       \* history: known[k], the newest value a finished call has seen

routers == <<shards, raw, fetched>>
clients == <<wr, rd, known>>
vars == <<meta, sm, routers, mv, late, lates, runs, clients>>

\* No map in the meta group, or none at hand.
NoMap == [groups |-> [s \in Shard |-> 0], moving |-> [s \in Shard |-> 0]]
DefaultMap == [groups |-> Default, moving |-> [s \in Shard |-> 0]]
NoPairs == [k \in {} |-> Absent]

\* shared: m is the map r.shards points to, so what MoveShard writes to m the
\* router sees.
Idle == [pc |-> "idle", shard |-> 0, dest |-> 0, m |-> NoMap, shared |-> FALSE,
         marked |-> NoMap, start |-> 0, chunk |-> NoPairs, page |-> NoPairs]

NoCall == [key |-> 0, to |-> 0, floor |-> 0, checked |-> FALSE]

Init ==
    /\ meta = NoMap
    /\ sm = [g \in Group |-> EmptyGroup]
    /\ shards = [r \in Router |-> NoMap]
    /\ raw = [r \in Router |-> NoMap]
    /\ fetched = [r \in Router |-> NoMap]
    /\ mv = [r \in Router |-> Idle]
    /\ late = {} /\ lates = 0 /\ runs = 0
    /\ wr = [seq |-> 0, call |-> NoCall]
    /\ rd = [call |-> NoCall, mode |-> "log", got |-> 0, floor |-> 0, n |-> 0]
    /\ known = [k \in Key |-> 0]
-----------------------------------------------------------------------------
\* reload, on a fresh cluster: the compare-and-swap against no map.
Bootstrap ==
    /\ meta = NoMap
    /\ meta' = DefaultMap
    /\ UNCHANGED <<sm, routers, mv, late, lates, runs, clients>>

\* reload, by refreshLoop, forward or GetShardMap: the answer, then the cache.
Fetch(r) ==
    /\ meta # NoMap
    /\ fetched[r] = NoMap
    /\ fetched' = [fetched EXCEPT ![r] = meta]
    /\ UNCHANGED <<meta, sm, shards, raw, mv, late, lates, runs, clients>>

Install(r) ==
    /\ fetched[r] # NoMap
    /\ shards' = [shards EXCEPT ![r] = fetched[r]]
    /\ raw' = [raw EXCEPT ![r] = fetched[r]]
    /\ fetched' = [fetched EXCEPT ![r] = NoMap]
    /\ mv' = [mv EXCEPT ![r].shared = FALSE]
    /\ UNCHANGED <<meta, sm, late, lates, runs, clients>>
-----------------------------------------------------------------------------
\* A request on its way to a group, and the compare-and-swap of the map.
ToGroup(g, cmd) == [to |-> g, cmd |-> cmd]
Admin(op, s) == [op |-> op, client |-> 0, seq |-> 0, shard |-> s]
Import(s, kvs, last) ==
    [op |-> "import", client |-> 0, seq |-> 0, shard |-> s, kvs |-> kvs, last |-> last]
Swap(old, new) == [to |-> 0, old |-> old, new |-> new]

ApplyTo(g, cmd) == Apply(sm[g], cmd, 0)

\* What MoveShard sends at each step; src is m.Groups[shard] until the flip.
RequestOf(x) ==
    LET src == x.m.groups[x.shard]
    IN  CASE x.pc \in {"mark", "flip"} -> Swap(x.marked, x.m)
          [] x.pc = "freeze" -> ToGroup(src, Admin("freeze", x.shard))
          [] x.pc = "scan"   -> ToGroup(src, [op |-> "scan", client |-> 0, seq |-> 0,
                                              start |-> x.start, limit |-> 1])
          [] x.pc = "flush"  -> ToGroup(x.dest, Import(x.shard, x.chunk, FALSE))
          [] x.pc = "last"   -> ToGroup(x.dest, Import(x.shard, x.chunk, TRUE))
          [] x.pc = "purge"  -> ToGroup(src, Admin("purge", x.shard))

\* Steps whose request leaves something behind.
Sending == {"mark", "freeze", "flush", "last", "purge", "flip"}

\* The next step of r: y is its state from here on, m seen through the cache
\* where it is the same map.
Goto(r, y) ==
    /\ mv' = [mv EXCEPT ![r] = y]
    /\ shards' = IF y.shared THEN [shards EXCEPT ![r] = y.m] ELSE shards

\* MoveShard begins with a reload.
Begin(r, s, d) ==
    /\ mv[r].pc = "idle"
    /\ runs < MaxRuns
    /\ meta # NoMap
    /\ runs' = runs + 1
    /\ mv' = [mv EXCEPT ![r] = [Idle EXCEPT !.pc = "reload", !.shard = s, !.dest = d, !.m = meta]]
    /\ UNCHANGED <<meta, sm, routers, late, lates, clients>>

\* The map is installed, and the early returns taken.
Reloaded(r) ==
    LET x == mv[r]
        refused == \/ x.m.groups[x.shard] = x.dest
                   \/ x.m.moving[x.shard] \notin {0, x.dest}
    IN  /\ x.pc = "reload"
        /\ shards' = [shards EXCEPT ![r] = x.m]
        /\ raw' = [raw EXCEPT ![r] = x.m]
        /\ mv' = [mv EXCEPT ![r] =
                     IF refused THEN Idle ELSE [x EXCEPT !.pc = "take", !.shared = TRUE]]
        /\ UNCHANGED <<meta, sm, fetched, late, lates, runs, clients>>

\* marked := r.raw, and the mark in m unless an earlier run has made it.
Take(r) ==
    LET x == [mv[r] EXCEPT !.marked = raw[r]]
    IN  /\ mv[r].pc = "take"
        /\ Goto(r, IF x.m.moving[x.shard] = 0
                   THEN [x EXCEPT !.pc = "mark", !.m.moving[x.shard] = x.dest]
                   ELSE [x EXCEPT !.pc = "freeze"])
        /\ UNCHANGED <<meta, sm, raw, fetched, late, lates, runs, clients>>

CanSwap(old) == meta = old

\* swapMap, the answer of the meta group: a swap that fails ends the run.
Swapped(r) ==
    LET x == mv[r]
    IN  /\ x.pc \in {"mark", "flip"}
        /\ IF CanSwap(x.marked)
           THEN /\ meta' = x.m
                /\ mv' = [mv EXCEPT ![r].pc = IF @ = "mark" THEN "marked" ELSE "flipped",
                                    ![r].marked = x.m]
           ELSE /\ mv' = [mv EXCEPT ![r] = Idle]
                /\ UNCHANGED meta
        /\ UNCHANGED <<sm, routers, late, lates, runs, clients>>

\* swapMap, the new map in the cache: on to the freeze, or the end.
SwapDone(r) ==
    LET x == mv[r]
    IN  /\ x.pc \in {"marked", "flipped"}
        /\ shards' = [shards EXCEPT ![r] = x.m]
        /\ raw' = [raw EXCEPT ![r] = x.m]
        /\ mv' = [mv EXCEPT ![r] = IF x.pc = "flipped" THEN Idle
                                   ELSE [x EXCEPT !.pc = "freeze", !.shared = TRUE]]
        /\ UNCHANGED <<meta, sm, fetched, late, lates, runs, clients>>

\* copyShard, with the answer to a scan for the next key.
Scanned(x, page) ==
    LET k == CHOOSE j \in DOMAIN page : TRUE
    IN  IF page = NoPairs THEN [x EXCEPT !.pc = "last"]
        ELSE IF ShardOf[k] # x.shard THEN [x EXCEPT !.start = k + 1]
        ELSE IF Cardinality(DOMAIN x.chunk) >= ImportChunk
             THEN [x EXCEPT !.pc = "flush", !.page = page]
        ELSE [x EXCEPT !.chunk = PutAll(@, page), !.start = k + 1]

\* copyShard, with the answer to a chunk: a group that refuses it has them all.
Flushed(x, res) ==
    IF ~res.success THEN [x EXCEPT !.pc = "purge", !.chunk = NoPairs, !.page = NoPairs]
    ELSE [x EXCEPT !.pc = "scan", !.chunk = x.page, !.page = NoPairs,
                   !.start = 1 + CHOOSE k \in DOMAIN x.page : TRUE]

\* Bug: the map is flipped before the source has dropped the shard.
AfterCopy_NoPurge(x) ==
    [x EXCEPT !.pc = "flip", !.chunk = NoPairs,
              !.m.groups[x.shard] = x.dest, !.m.moving[x.shard] = 0]

AfterCopy(x) == [x EXCEPT !.pc = "purge", !.chunk = NoPairs]

\* A step that goes through the log of a group.
GroupStep(r) ==
    LET x == mv[r]
        q == RequestOf(x)
        e == ApplyTo(q.to, q.cmd)
    IN  /\ x.pc \in {"freeze", "scan", "flush", "last", "purge"}
        /\ sm' = [sm EXCEPT ![q.to] = e.sm]
        /\ Goto(r, CASE x.pc = "freeze" -> [x EXCEPT !.pc = "scan"]
                     [] x.pc = "scan"   -> Scanned(x, e.res.kvs)
                     [] x.pc = "flush"  -> Flushed(x, e.res)
                     [] x.pc = "last"   -> AfterCopy(x)
                     [] x.pc = "purge"  ->
                          [x EXCEPT !.pc = "flip", !.m.groups[x.shard] = x.dest,
                                    !.m.moving[x.shard] = 0])
        /\ UNCHANGED <<meta, raw, fetched, late, lates, runs, clients>>

\* An attempt of Do times out; what it sent is still on its way.
TimeOut(r) ==
    /\ mv[r].pc \in Sending
    /\ lates < MaxLate
    /\ lates' = lates + 1
    /\ late' = late \cup {RequestOf(mv[r])}
    /\ UNCHANGED <<meta, sm, routers, mv, runs, clients>>

\* The run ends: the caller's deadline, or the death of its node.
Abandon(r) ==
    /\ mv[r].pc # "idle"
    /\ mv' = [mv EXCEPT ![r] = Idle]
    /\ UNCHANGED <<meta, sm, routers, late, lates, runs, clients>>

\* A request nobody waits for is applied.
ApplyLate(q) ==
    /\ late' = late \ {q}
    /\ IF q.to = 0
       THEN meta' = (IF CanSwap(q.old) THEN q.new ELSE meta) /\ UNCHANGED sm
       ELSE sm' = [sm EXCEPT ![q.to] = ApplyTo(q.to, q.cmd).sm] /\ UNCHANGED meta
    /\ UNCHANGED <<routers, mv, lates, runs, clients>>
-----------------------------------------------------------------------------
\* groupFor, in the map a router has at hand.
Route(k, to) == \E r \in Router : shards[r] # NoMap /\ to = shards[r].groups[ShardOf[k]]

\* The writer is one client, the session 1; its n-th write is of the value n.
WriteCmd == [op |-> "put", client |-> 1, seq |-> wr.seq, key |-> wr.call.key, val |-> wr.seq]

\* forward, for a new write: a group is chosen, and the request sent.
Write(k) ==
    /\ wr.call = NoCall
    /\ wr.seq < MaxWrites
    /\ \E g \in Group :
          /\ Route(k, g)
          /\ wr' = [seq |-> wr.seq + 1, call |-> [NoCall EXCEPT !.key = k, !.to = g]]
    /\ UNCHANGED <<meta, sm, routers, mv, late, lates, runs, rd, known>>

\* forward, or the client, tries again, through any router.
WriteAgain ==
    /\ wr.call # NoCall /\ wr.call.to = 0
    /\ \E g \in Group : Route(wr.call.key, g) /\ wr' = [wr EXCEPT !.call.to = g]
    /\ UNCHANGED <<meta, sm, routers, mv, late, lates, runs, rd, known>>

\* The group answers; told that the shard moves, forward tries again.
WriteAnswer ==
    LET g == wr.call.to
        e == ApplyTo(g, WriteCmd)
        k == wr.call.key
    IN  /\ g # 0
        /\ sm' = [sm EXCEPT ![g] = e.sm]
        /\ IF e.res.moving
           THEN wr' = [wr EXCEPT !.call.to = 0] /\ UNCHANGED known
           ELSE wr' = [wr EXCEPT !.call = NoCall] /\ known' = [known EXCEPT ![k] = wr.seq]
        /\ UNCHANGED <<meta, routers, mv, late, lates, runs, rd>>

\* The attempt times out, and the client tries again or gives the write up.
WriteTimeOut ==
    /\ wr.call.to # 0
    /\ lates < MaxLate
    /\ lates' = lates + 1
    /\ late' = late \cup {ToGroup(wr.call.to, WriteCmd)}
    /\ \/ wr' = [wr EXCEPT !.call.to = 0]
       \/ wr' = [wr EXCEPT !.call = NoCall]
    /\ UNCHANGED <<meta, sm, routers, mv, runs, rd, known>>

Read(k, mode) ==
    /\ rd.call = NoCall
    /\ rd.n < MaxReads
    /\ \E g \in Group :
          /\ Route(k, g)
          /\ rd' = [call |-> [NoCall EXCEPT !.key = k, !.to = g, !.floor = known[k]],
                    mode |-> mode, got |-> 0, floor |-> 0, n |-> rd.n + 1]
    /\ UNCHANGED <<meta, sm, routers, mv, late, lates, runs, wr, known>>

ReadAgain ==
    /\ rd.call # NoCall /\ rd.call.to = 0
    /\ \E g \in Group : Route(rd.call.key, g) /\ rd' = [rd EXCEPT !.call.to = g]
    /\ UNCHANGED <<meta, sm, routers, mv, late, lates, runs, wr, known>>

ReadDone(v) ==
    /\ rd' = [rd EXCEPT !.call = NoCall, !.got = v, !.floor = rd.call.floor]
    /\ known' = [known EXCEPT ![rd.call.key] = IF v > @ THEN v ELSE @]

\* A read through the log.
ReadAnswer ==
    LET res == ApplyTo(rd.call.to, [op |-> "get", client |-> 0, seq |-> 0, key |-> rd.call.key]).res
    IN  /\ rd.mode = "log"
        /\ rd.call.to # 0
        /\ IF res.moving THEN rd' = [rd EXCEPT !.call.to = 0] /\ UNCHANGED known
           ELSE ReadDone(res.val)
        /\ UNCHANGED <<meta, sm, routers, mv, late, lates, runs, wr>>

\* StateMachine.Get, after ReadIndex: the shard under the lock, the key without.
DirectCheck ==
    /\ rd.mode = "index"
    /\ rd.call.to # 0 /\ ~rd.call.checked
    /\ rd' = IF readable(sm[rd.call.to], rd.call.key) THEN [rd EXCEPT !.call.checked = TRUE]
             ELSE [rd EXCEPT !.call.to = 0]
    /\ UNCHANGED <<meta, sm, routers, mv, late, lates, runs, wr, known>>

DirectGet ==
    /\ rd.call.checked
    /\ ReadDone(ValueOf(sm[rd.call.to], rd.call.key))
    /\ UNCHANGED <<meta, sm, routers, mv, late, lates, runs, wr>>
-----------------------------------------------------------------------------
MoverStep(r) == Reloaded(r) \/ Take(r) \/ Swapped(r) \/ SwapDone(r) \/ GroupStep(r)

Next ==
    \/ Bootstrap
    \/ \E r \in Router :
          \/ Fetch(r) \/ Install(r)
          \/ \E x \in Moves : Begin(r, x[1], x[2])
          \/ MoverStep(r)
          \/ TimeOut(r) \/ Abandon(r)
    \/ \E q \in late : ApplyLate(q)
    \/ \E k \in Key : Write(k) \/ \E mode \in ReadModes : Read(k, mode)
    \/ WriteAgain \/ WriteAnswer \/ WriteTimeOut
    \/ ReadAgain \/ ReadAnswer \/ DirectCheck \/ DirectGet

Spec == Init /\ [][Next]_vars
-----------------------------------------------------------------------------
\* A read through the log returns a value at least as new as any that a write
\* acknowledged, or another read returned, before it began, whichever router and
\* map it went through: the source is purged before the map is flipped.
LogReadsFresh == rd.mode = "log" => rd.got >= rd.floor

\* A group that has dropped a shard was relieved of it: another one is open for
\* it, and holds every value a finished call has seen.
PurgedElsewhere ==
    \A g \in Group, s \in Shard :
        sm[g].shards[s] = "gone" =>
            \E h \in Group \ {g} :
                /\ sm[h].shards[s] = "open"
                /\ \A k \in Key : ShardOf[k] = s => ValueOf(sm[h], k) >= known[k]

\* Two groups that the maps of routers send requests for a shard to never both
\* accept writes to it.
OneWriter ==
    \A q, r \in Router, s \in Shard :
        LET g == shards[q].groups[s]
            h == shards[r].groups[s]
        IN  g # h /\ 0 \notin {g, h} =>
                sm[g].shards[s] \notin {"none", "open"} \/ sm[h].shards[s] \notin {"none", "open"}

\* A map that says a shard is moving is replaced only by one that says the same
\* of it, or that the move is over: a move to another group is refused.
MoveExclusive ==
    [][\A s \in Shard :
          meta.moving[s] # 0 => meta'.moving[s] \in {meta.moving[s], 0}]_vars
=============================================================================
