-------------------------- MODULE ShardMoveProofs ----------------------------
(***************************************************************************)
(* A move leaves a shard with one writer, for any routers, groups, keys    *)
(* and late requests, when every shard is sent to one group at most.       *)
(***************************************************************************)
EXTENDS ShardMove, TLAPS

\* Operators ask for at most one move of a shard, away from the group it is in.
MovedOnce ==
    \A x, y \in Moves : x[2] # Default[x[1]] /\ (x[1] = y[1] => x[2] = y[2])

States == {"none", "open", "frozen", "gone"}

IsGroup(s) ==
    /\ s = [data |-> s.data, sessions |-> s.sessions, shards |-> s.shards]
    /\ s.shards \in [Shard -> States]

\* A command that MoveShard or a client sends.
IsCommand(cmd) ==
    \/ cmd.op \in {"put", "get", "scan"}
    \/ cmd.op \in {"freeze", "import", "purge"} /\ cmd.shard \in Shard

\* The group a shard was in at first has dropped it.
Gone(s) == sm[Default[s]].shards[s] = "gone"

\* A map that a router may serve from: where it names another group than the first,
\* the first has dropped the shard.
GoodMap(m) ==
    /\ m = [groups |-> m.groups, moving |-> m.moving]
    /\ m.groups \in [Shard -> Group]
    /\ m.moving \in [Shard -> Group \cup {0}]
    /\ \A s \in Shard : m.groups[s] # Default[s] => <<s, m.groups[s]>> \in Moves /\ Gone(s)

\* The steps of MoveShard from the reload's checks to the purge.
Leaving == {"take", "mark", "marked", "freeze", "scan", "flush", "last", "purge"}

IsMover(x) ==
    x = [pc |-> x.pc, shard |-> x.shard, dest |-> x.dest, m |-> x.m, shared |-> x.shared,
         marked |-> x.marked, start |-> x.start, chunk |-> x.chunk, page |-> x.page]

GoodMover(x) ==
    /\ IsMover(x)
    /\ x.pc \in Leaving \cup {"idle", "reload", "flip", "flipped"}
    /\ x.pc # "idle" => GoodMap(x.m) /\ <<x.shard, x.dest>> \in Moves
    /\ x.pc \in Leaving => x.m.groups[x.shard] = Default[x.shard]

\* A request that is on its way brings no shard back to the group it was in at first.
GoodRequest(q) ==
    IF q.to = 0 THEN GoodMap(q.new)
    ELSE /\ q.to \in Group
         /\ IsCommand(q.cmd)
         /\ q.cmd.op = "import" => q.to # Default[q.cmd.shard]

Groups == DOMAIN sm = Group /\ \A g \in Group : IsGroup(sm[g])

Maps ==
    /\ meta = NoMap \/ GoodMap(meta)
    /\ DOMAIN shards = Router /\ \A r \in Router : shards[r] = NoMap \/ GoodMap(shards[r])
    /\ DOMAIN fetched = Router /\ \A r \in Router : fetched[r] = NoMap \/ GoodMap(fetched[r])

Movers == DOMAIN mv = Router /\ \A r \in Router : GoodMover(mv[r])

Calls ==
    /\ wr = [seq |-> wr.seq, call |-> wr.call]
    /\ wr.call = [key |-> wr.call.key, to |-> wr.call.to, floor |-> wr.call.floor,
                  checked |-> wr.call.checked]
    /\ wr.call.to \in Group \cup {0}

\* The inductive invariant.
MoveInv == Groups /\ Maps /\ Movers /\ Calls /\ \A q \in late : GoodRequest(q)
-----------------------------------------------------------------------------
\* t is s after a command: a group with the same shards gone, and maybe others.
Keeps(s, t) ==
    IsGroup(t) /\ \A x \in Shard : s.shards[x] = "gone" => t.shards[x] = "gone"

\* setShard changes the state of one shard.
LEMMA SetShardOne ==
    ASSUME NEW s, IsGroup(s), NEW x \in Shard, NEW y \in States
    PROVE  IsGroup(setShard(s, x, y)) /\ setShard(s, x, y).shards = [s.shards EXCEPT ![x] = y]
BY DEF setShard, IsGroup

\* A change of the data leaves the shards as they are.
LEMMA DataOnly ==
    ASSUME NEW s, IsGroup(s), NEW d
    PROVE  IsGroup([s EXCEPT !.data = d]) /\ [s EXCEPT !.data = d].shards = s.shards
BY DEF IsGroup

\* A command of a client leaves the shards as they are.
LEMMA ExecuteOther ==
    ASSUME NEW s, IsGroup(s), NEW cmd, cmd.op \in {"put", "get", "scan"}, NEW i
    PROVE  IsGroup(execute(s, cmd, i).sm) /\ execute(s, cmd, i).sm.shards = s.shards
<1>1. CASE cmd.op = "put"
  BY <1>1, DataOnly DEF execute, PutOp, Effect
<1>2. CASE cmd.op = "get"
  BY <1>2 DEF execute, GetOp, Effect
<1>3. CASE cmd.op = "scan"
  BY <1>3 DEF execute, Effect
<1>4. QED
  BY <1>1, <1>2, <1>3

LEMMA ExecuteFreeze ==
    ASSUME NEW s, IsGroup(s), NEW cmd, cmd.op = "freeze", cmd.shard \in Shard, NEW i
    PROVE  Keeps(s, execute(s, cmd, i).sm)
<1>1. execute(s, cmd, i).sm =
          IF s.shards[cmd.shard] = "gone" THEN s ELSE setShard(s, cmd.shard, "frozen")
  BY DEF execute, FreezeOp, Effect
<1>2. /\ IsGroup(setShard(s, cmd.shard, "frozen"))
      /\ setShard(s, cmd.shard, "frozen").shards = [s.shards EXCEPT ![cmd.shard] = "frozen"]
  BY SetShardOne DEF States
<1>3. QED
  BY <1>1, <1>2 DEF Keeps, IsGroup

LEMMA ExecutePurge ==
    ASSUME NEW s, IsGroup(s), NEW cmd, cmd.op = "purge", cmd.shard \in Shard, NEW i
    PROVE  /\ Keeps(s, execute(s, cmd, i).sm)
           /\ execute(s, cmd, i).sm.shards[cmd.shard] = "gone"
<1> DEFINE p == [s EXCEPT !.data = DeleteAll(@, {k \in Key : ShardOf[k] = cmd.shard})]
<1>1. execute(s, cmd, i).sm = setShard(p, cmd.shard, "gone")
  BY DEF execute, PurgeOp, Effect
<1>2. IsGroup(p) /\ p.shards = s.shards
  BY DataOnly
<1> HIDE DEF p
<1>3. /\ IsGroup(setShard(p, cmd.shard, "gone"))
      /\ setShard(p, cmd.shard, "gone").shards = [p.shards EXCEPT ![cmd.shard] = "gone"]
  BY <1>2, SetShardOne DEF States
<1>4. QED
  BY <1>1, <1>2, <1>3 DEF Keeps, IsGroup

\* A chunk brings back no shard but its own.
LEMMA ExecuteImport ==
    ASSUME NEW s, IsGroup(s), NEW cmd, cmd.op = "import", cmd.shard \in Shard, NEW i
    PROVE  LET t == execute(s, cmd, i).sm
           IN  /\ IsGroup(t)
               /\ \A x \in Shard \ {cmd.shard} : s.shards[x] = "gone" => t.shards[x] = "gone"
<1> DEFINE p == [s EXCEPT !.data = PutAll(@, cmd.kvs)]
<1>1. execute(s, cmd, i).sm \in {s, p, setShard(p, cmd.shard, "open")}
  BY DEF execute, ImportOp, Effect
<1>2. IsGroup(p) /\ p.shards = s.shards
  BY DataOnly
<1> HIDE DEF p
<1>3. /\ IsGroup(setShard(p, cmd.shard, "open"))
      /\ setShard(p, cmd.shard, "open").shards = [p.shards EXCEPT ![cmd.shard] = "open"]
  BY <1>2, SetShardOne DEF States
<1>4. QED
  BY <1>1, <1>2, <1>3 DEF IsGroup

\* Apply adds the session to what execute does, or does nothing.
LEMMA ApplyShards ==
    ASSUME NEW s, IsGroup(s), NEW cmd, NEW i, IsGroup(execute(s, cmd, i).sm)
    PROVE  /\ IsGroup(Apply(s, cmd, i).sm)
           /\ \/ Apply(s, cmd, i).sm.shards = execute(s, cmd, i).sm.shards
              \/ cmd.client # 0 /\ Apply(s, cmd, i).sm = s
<1>1. ASSUME NEW t, IsGroup(t), NEW c, NEW n, NEW r
      PROVE  IsGroup(SetSession(t, c, n, r)) /\ SetSession(t, c, n, r).shards = t.shards
  BY <1>1 DEF IsGroup, SetSession
<1> DEFINE e == execute(s, cmd, i)
           told == IF cmd.client = 0 THEN e.sm ELSE SetSession(e.sm, cmd.client, cmd.seq, e.res)
<1>2. Apply(s, cmd, i).sm =
          IF Repeated(s, cmd) THEN s
          ELSE IF e.res.id = 0 THEN told ELSE SetSession(told, e.res.id, 0, NoResult)
  BY DEF Apply, Effect
<1>3. IsGroup(told) /\ told.shards = e.sm.shards
  BY <1>1
<1> HIDE DEF told
<1>4. /\ IsGroup(SetSession(told, e.res.id, 0, NoResult))
      /\ SetSession(told, e.res.id, 0, NoResult).shards = e.sm.shards
  BY <1>1, <1>3
<1>5. Repeated(s, cmd) => cmd.client # 0
  BY DEF Repeated
<1>6. QED
  BY <1>2, <1>3, <1>4, <1>5

\* Apply leaves a group, and a shard that is gone stays so unless a chunk of it comes.
LEMMA ApplyKeeps ==
    ASSUME NEW s, IsGroup(s), NEW cmd, IsCommand(cmd), NEW i
    PROVE  LET t == Apply(s, cmd, i).sm
           IN  /\ IsGroup(t)
               /\ \A x \in Shard : s.shards[x] = "gone" =>
                     t.shards[x] = "gone" \/ (cmd.op = "import" /\ cmd.shard = x)
<1> DEFINE u == execute(s, cmd, i).sm
           t == Apply(s, cmd, i).sm
<1>1. /\ IsGroup(u)
      /\ \A x \in Shard : s.shards[x] = "gone" =>
            u.shards[x] = "gone" \/ (cmd.op = "import" /\ cmd.shard = x)
  <2>1. CASE cmd.op \in {"put", "get", "scan"}
    BY <2>1, ExecuteOther
  <2>2. CASE cmd.op = "freeze" /\ cmd.shard \in Shard
    BY <2>2, ExecuteFreeze DEF Keeps
  <2>3. CASE cmd.op = "purge" /\ cmd.shard \in Shard
    BY <2>3, ExecutePurge DEF Keeps
  <2>4. CASE cmd.op = "import" /\ cmd.shard \in Shard
    BY <2>4, ExecuteImport
  <2>5. QED
    BY <2>1, <2>2, <2>3, <2>4 DEF IsCommand
<1>2. IsGroup(t) /\ (t.shards = u.shards \/ t = s)
  BY <1>1, ApplyShards
<1> HIDE DEF u, t
<1>3. QED
  BY <1>1, <1>2 DEF t
-----------------------------------------------------------------------------
\* Shards that are gone stay so.
StayGone == \A s \in Shard : Gone(s) => Gone(s)'

LEMMA GoodMapStays ==
    ASSUME StayGone, NEW m, GoodMap(m)
    PROVE  GoodMap(m)'
BY DEF StayGone, GoodMap

LEMMA GoodMoverStays ==
    ASSUME StayGone, NEW x, GoodMover(x)
    PROVE  GoodMover(x)'
BY GoodMapStays DEF GoodMover

LEMMA GoodRequestStays ==
    ASSUME StayGone, NEW q, GoodRequest(q)
    PROVE  GoodRequest(q)'
BY GoodMapStays DEF GoodRequest

\* A command applied to a group g, with no chunk of a shard that was in g at first.
LEMMA AppliedTo ==
    ASSUME Groups, NEW g \in Group, NEW cmd, IsCommand(cmd),
           cmd.op = "import" => g # Default[cmd.shard],
           sm' = [sm EXCEPT ![g] = ApplyTo(g, cmd).sm]
    PROVE  Groups' /\ StayGone
<1> DEFINE t == ApplyTo(g, cmd).sm
<1>1. /\ IsGroup(t)
      /\ \A x \in Shard : sm[g].shards[x] = "gone" =>
            t.shards[x] = "gone" \/ (cmd.op = "import" /\ cmd.shard = x)
  BY ApplyKeeps DEF ApplyTo, Groups
<1> HIDE DEF t
<1>2. DOMAIN sm' = Group /\ sm'[g] = t /\ \A h \in Group \ {g} : sm'[h] = sm[h]
  BY DEF Groups, t
<1>3. Groups'
  BY <1>1, <1>2 DEF Groups
<1>4. ASSUME NEW s \in Shard, Gone(s)
      PROVE  Gone(s)'
  <2>1. Default[s] \in Group
    BY ShardMoveConstants
  <2>2. QED
    BY <1>1, <1>2, <1>4, <2>1 DEF Gone
<1>5. QED
  BY <1>3, <1>4 DEF StayGone

LEMMA NothingApplied == ASSUME Groups, UNCHANGED sm PROVE Groups' /\ StayGone
BY DEF Groups, StayGone, Gone

\* What remains to be shown of a step: where it changes maps, movers and requests, it
\* leaves good ones.
Changes ==
    /\ UNCHANGED meta \/ GoodMap(meta)'
    /\ DOMAIN shards' = Router /\ DOMAIN fetched' = Router /\ DOMAIN mv' = Router
    /\ \A x \in Router : shards'[x] = shards[x] \/ GoodMap(shards[x])'
    /\ \A x \in Router : fetched'[x] \in {fetched[x], NoMap} \/ GoodMap(fetched[x])'
    /\ \A x \in Router : mv'[x] = mv[x] \/ GoodMover(mv[x])'
    /\ Calls'
    /\ \A q \in late' : q \in late \/ GoodRequest(q)'

LEMMA StepInv ==
    ASSUME MoveInv, Groups', StayGone, Changes
    PROVE  MoveInv'
<1>1. (meta = NoMap \/ GoodMap(meta))'
  BY GoodMapStays DEF MoveInv, Maps, Changes
<1>2. ASSUME NEW x \in Router PROVE (shards[x] = NoMap \/ GoodMap(shards[x]))'
  BY GoodMapStays DEF MoveInv, Maps, Changes
<1>3. ASSUME NEW x \in Router PROVE (fetched[x] = NoMap \/ GoodMap(fetched[x]))'
  BY GoodMapStays DEF MoveInv, Maps, Changes
<1>4. ASSUME NEW x \in Router PROVE GoodMover(mv[x])'
  BY GoodMoverStays DEF MoveInv, Movers, Changes
<1>5. \A q \in late' : GoodRequest(q)'
  BY GoodRequestStays DEF MoveInv, Changes
<1>6. QED
  BY <1>1, <1>2, <1>3, <1>4, <1>5 DEF MoveInv, Maps, Movers, Changes

-----------------------------------------------------------------------------
LEMMA IdleGood == GoodMover(Idle) /\ GoodMover(Idle)'
BY DEF GoodMover, IsMover, Idle, Leaving

\* A mover that goes on to another step before the purge, or has its map no longer shared.
LEMMA MoverGoesOn ==
    ASSUME NEW x, GoodMover(x), x.pc \in Leaving, NEW y, IsMover(y), y.pc \in Leaving,
           y.shard = x.shard, y.dest = x.dest, y.m.groups = x.m.groups, GoodMap(y.m)
    PROVE  GoodMover(y)
BY DEF GoodMover, Leaving

LEMMA BootstrapInv == ASSUME MoveInv, Bootstrap PROVE MoveInv'
<1>1. Groups' /\ StayGone
  BY NothingApplied DEF MoveInv, Bootstrap
<1>2. GoodMap(DefaultMap)'
  BY ShardMoveConstants DEF GoodMap, DefaultMap
<1>3. Changes
  BY <1>2 DEF Bootstrap, Changes, MoveInv, Maps, Movers, Calls, routers, clients
<1>4. QED
  BY <1>1, <1>3, StepInv

LEMMA FetchInv == ASSUME MoveInv, NEW r \in Router, Fetch(r) PROVE MoveInv'
<1>1. Groups' /\ StayGone
  BY NothingApplied DEF MoveInv, Fetch
<1>2. GoodMap(meta)'
  BY <1>1, GoodMapStays DEF MoveInv, Maps, Fetch
<1>3. Changes
  BY <1>2 DEF Fetch, Changes, MoveInv, Maps, Movers, Calls, clients
<1>4. QED
  BY <1>1, <1>3, StepInv

LEMMA InstallInv == ASSUME MoveInv, NEW r \in Router, Install(r) PROVE MoveInv'
<1>1. Groups' /\ StayGone
  BY NothingApplied DEF MoveInv, Install
<1>2. shards'[r] = fetched[r] /\ GoodMap(fetched[r])
  BY DEF MoveInv, Maps, Install
<1>3. GoodMap(shards[r])'
  BY <1>1, <1>2, GoodMapStays
<1>4. PICK x, y : x = mv[r] /\ y = [x EXCEPT !.shared = FALSE]
  OBVIOUS
<1>5. GoodMover(x)
  BY <1>4 DEF MoveInv, Movers
<1>6. GoodMover(y)
  BY <1>4, <1>5 DEF GoodMover, IsMover
<1>7. mv' = [mv EXCEPT ![r] = y]
  BY <1>4 DEF Install
<1>8. GoodMover(mv[r])'
  BY <1>1, <1>6, <1>7, GoodMoverStays DEF MoveInv, Movers
<1>9. Changes
  BY <1>3, <1>7, <1>8 DEF Install, Changes, MoveInv, Maps, Movers, Calls, clients
<1>10. QED
  BY <1>1, <1>9, StepInv

LEMMA BeginInv ==
    ASSUME MoveInv, NEW r \in Router, NEW x \in Moves, Begin(r, x[1], x[2])
    PROVE  MoveInv'
<1>1. Groups' /\ StayGone
  BY NothingApplied DEF MoveInv, Begin
<1>2. GoodMap(meta) /\ <<x[1], x[2]>> \in Moves
  BY ShardMoveConstants DEF MoveInv, Maps, Begin
<1>3. PICK y, m : /\ m = meta
                  /\ y = [Idle EXCEPT !.pc = "reload", !.shard = x[1], !.dest = x[2], !.m = m]
  OBVIOUS
<1>4. y.pc = "reload" /\ y.shard = x[1] /\ y.dest = x[2] /\ y.m = m /\ IsMover(y)
  BY <1>3 DEF Idle, IsMover
<1>5. GoodMover(y)
  BY <1>2, <1>3, <1>4 DEF GoodMover, Leaving
<1>6. mv' = [mv EXCEPT ![r] = y]
  BY <1>3 DEF Begin
<1>7. GoodMover(mv[r])'
  BY <1>1, <1>5, <1>6, GoodMoverStays DEF MoveInv, Movers
<1>8. Changes
  BY <1>6, <1>7 DEF Begin, Changes, MoveInv, Maps, Movers, Calls, routers, clients
<1>9. QED
  BY <1>1, <1>8, StepInv

\* A step of MoveShard leaves the mover y, and puts its map m in the cache or in the
\* meta group.
LEMMA MoverStepInv ==
    ASSUME MoveInv, Groups', StayGone, NEW r \in Router,
           NEW y, GoodMover(y)', mv' = [mv EXCEPT ![r] = y],
           NEW m, GoodMap(m)',
           shards' = shards \/ shards' = [shards EXCEPT ![r] = m],
           meta' = meta \/ meta' = m,
           UNCHANGED <<fetched, wr, late>>
    PROVE  MoveInv'
<1>1. GoodMover(mv[r])'
  BY DEF MoveInv, Movers
<1>2. shards'[r] = shards[r] \/ GoodMap(shards[r])'
  BY DEF MoveInv, Maps
<1>3. Changes
  BY <1>1, <1>2 DEF Changes, MoveInv, Maps, Movers, Calls
<1>4. QED
  BY <1>3, StepInv

\* The checks that follow the reload leave a shard that is where it was at first.
LEMMA ReloadedInv ==
    ASSUME MoveInv, MovedOnce, NEW r \in Router, Reloaded(r)
    PROVE  MoveInv'
<1>1. Groups' /\ StayGone
  BY NothingApplied DEF MoveInv, Reloaded
<1>2. PICK x : x = mv[r]
  OBVIOUS
<1>3. GoodMover(x) /\ x.pc = "reload" /\ GoodMap(x.m) /\ <<x.shard, x.dest>> \in Moves
  BY <1>2 DEF MoveInv, Movers, Reloaded, GoodMover
<1>4. PICK y : y = [x EXCEPT !.pc = "take", !.shared = TRUE]
  OBVIOUS
<1>5. x.m.groups[x.shard] # x.dest => GoodMover(y)
  <2>1. x.shard \in Shard
    BY <1>3, ShardMoveConstants
  <2>2. x.m.groups[x.shard] # x.dest => x.m.groups[x.shard] = Default[x.shard]
    BY <1>3, <2>1 DEF GoodMap, MovedOnce
  <2>3. /\ IsMover(y) /\ y.pc = "take" /\ y.shard = x.shard /\ y.dest = x.dest /\ y.m = x.m
    BY <1>3, <1>4 DEF GoodMover, IsMover
  <2>4. QED
    BY <1>3, <2>2, <2>3 DEF GoodMover, Leaving
<1>6. PICK z : GoodMover(z) /\ mv' = [mv EXCEPT ![r] = z]
  BY <1>2, <1>4, <1>5, IdleGood DEF Reloaded
<1>7. shards' = [shards EXCEPT ![r] = x.m] /\ UNCHANGED <<meta, fetched, wr, late>>
  BY <1>2 DEF Reloaded, clients
<1>8. GoodMover(z)' /\ GoodMap(x.m)'
  BY <1>1, <1>3, <1>6, GoodMoverStays, GoodMapStays
<1>9. QED
  BY <1>1, <1>6, <1>7, <1>8, MoverStepInv

LEMMA TakeInv == ASSUME MoveInv, NEW r \in Router, Take(r) PROVE MoveInv'
<1>1. Groups' /\ StayGone
  BY NothingApplied DEF MoveInv, Take
<1>2. PICK v, x : v = mv[r] /\ x = [v EXCEPT !.marked = raw[r]]
  OBVIOUS
<1>3. GoodMover(v) /\ v.pc = "take" /\ GoodMap(v.m) /\ <<v.shard, v.dest>> \in Moves
  BY <1>2 DEF MoveInv, Movers, Take, GoodMover
<1>4. /\ IsMover(x) /\ x.pc = "take" /\ x.shard = v.shard /\ x.dest = v.dest /\ x.m = v.m
  BY <1>2, <1>3 DEF GoodMover, IsMover
<1>5. PICK y : /\ Goto(r, y)
               /\ y \in {[x EXCEPT !.pc = "mark", !.m.moving[x.shard] = x.dest],
                         [x EXCEPT !.pc = "freeze"]}
  BY <1>2 DEF Take
<1>6. /\ IsMover(y) /\ y.pc \in Leaving /\ y.shard = v.shard /\ y.dest = v.dest
      /\ y.m.groups = v.m.groups /\ GoodMap(y.m)
  <2>1. CASE y = [x EXCEPT !.pc = "freeze"]
    BY <1>3, <1>4, <2>1 DEF IsMover, Leaving
  <2>2. CASE y = [x EXCEPT !.pc = "mark", !.m.moving[x.shard] = x.dest]
    <3>1. PICK m : m = [v.m EXCEPT !.moving[v.shard] = v.dest]
      OBVIOUS
    <3>2. m.groups = v.m.groups /\ GoodMap(m)
      BY <1>3, <3>1, ShardMoveConstants DEF GoodMap
    <3>3. IsMover(y) /\ y.pc = "mark" /\ y.shard = v.shard /\ y.dest = v.dest /\ y.m = m
      BY <1>4, <2>2, <3>1 DEF IsMover
    <3>4. QED
      BY <3>2, <3>3 DEF Leaving
  <2>3. QED
    BY <1>5, <2>1, <2>2
<1>7. GoodMover(y)
  BY <1>3, <1>6, MoverGoesOn DEF Leaving
<1>8. GoodMover(y)' /\ GoodMap(y.m)'
  BY <1>1, <1>6, <1>7, GoodMoverStays, GoodMapStays
<1>9. UNCHANGED <<meta, fetched, wr, late>>
  BY DEF Take, clients
<1>10. QED
  BY <1>1, <1>5, <1>8, <1>9, MoverStepInv DEF Goto

LEMMA SwappedInv == ASSUME MoveInv, NEW r \in Router, Swapped(r) PROVE MoveInv'
<1>1. Groups' /\ StayGone
  BY NothingApplied DEF MoveInv, Swapped
<1>2. PICK x : x = mv[r]
  OBVIOUS
<1>3. GoodMover(x) /\ x.pc \in {"mark", "flip"} /\ GoodMap(x.m)
  BY <1>2 DEF MoveInv, Movers, Swapped, GoodMover
<1>4. PICK y : y = [x EXCEPT !.pc = IF @ = "mark" THEN "marked" ELSE "flipped", !.marked = x.m]
  OBVIOUS
<1>5. /\ IsMover(y) /\ y.shard = x.shard /\ y.dest = x.dest /\ y.m = x.m
      /\ y.pc = IF x.pc = "mark" THEN "marked" ELSE "flipped"
  BY <1>3, <1>4 DEF GoodMover, IsMover
<1>6. GoodMover(y)
  BY <1>3, <1>5 DEF GoodMover, Leaving
<1>7. PICK z : GoodMover(z) /\ mv' = [mv EXCEPT ![r] = z] /\ (meta' = meta \/ meta' = x.m)
  <2>1. CASE CanSwap(x.marked)
    <3>1. /\ meta' = x.m
          /\ mv' = [mv EXCEPT ![r].pc = IF @ = "mark" THEN "marked" ELSE "flipped",
                              ![r].marked = x.m]
      BY <1>2, <2>1 DEF Swapped
    <3>2. mv' = [mv EXCEPT ![r] = y]
      BY <1>2, <1>4, <3>1 DEF MoveInv, Movers
    <3>3. QED
      BY <1>6, <3>1, <3>2
  <2>2. CASE ~CanSwap(x.marked)
    BY <1>2, <2>2, IdleGood DEF Swapped
  <2>3. QED
    BY <2>1, <2>2
<1>8. GoodMover(z)' /\ GoodMap(x.m)'
  BY <1>1, <1>3, <1>7, GoodMoverStays, GoodMapStays
<1>9. UNCHANGED <<shards, fetched, wr, late>>
  BY DEF Swapped, routers, clients
<1>10. QED
  BY <1>1, <1>7, <1>8, <1>9, MoverStepInv

LEMMA SwapDoneInv == ASSUME MoveInv, NEW r \in Router, SwapDone(r) PROVE MoveInv'
<1>1. Groups' /\ StayGone
  BY NothingApplied DEF MoveInv, SwapDone
<1>2. PICK x : x = mv[r]
  OBVIOUS
<1>3. GoodMover(x) /\ x.pc \in {"marked", "flipped"} /\ GoodMap(x.m)
  BY <1>2 DEF MoveInv, Movers, SwapDone, GoodMover
<1>4. PICK y : y = [x EXCEPT !.pc = "freeze", !.shared = TRUE]
  OBVIOUS
<1>5. IsMover(y) /\ y.shard = x.shard /\ y.dest = x.dest /\ y.m = x.m /\ y.pc = "freeze"
  BY <1>3, <1>4 DEF GoodMover, IsMover
<1>6. x.pc = "marked" => GoodMover(y)
  BY <1>3, <1>5, MoverGoesOn DEF Leaving
<1>7. PICK z : GoodMover(z) /\ mv' = [mv EXCEPT ![r] = z]
  BY <1>2, <1>3, <1>4, <1>6, IdleGood DEF SwapDone
<1>8. GoodMover(z)' /\ GoodMap(x.m)'
  BY <1>1, <1>3, <1>7, GoodMoverStays, GoodMapStays
<1>9. shards' = [shards EXCEPT ![r] = x.m] /\ UNCHANGED <<meta, fetched, wr, late>>
  BY <1>2 DEF SwapDone, clients
<1>10. QED
  BY <1>1, <1>7, <1>8, <1>9, MoverStepInv

LEMMA AbandonInv == ASSUME MoveInv, NEW r \in Router, Abandon(r) PROVE MoveInv'
<1>1. Groups' /\ StayGone
  BY NothingApplied DEF MoveInv, Abandon
<1>2. GoodMover(mv[r])'
  BY IdleGood DEF MoveInv, Movers, Abandon
<1>3. Changes
  BY <1>2 DEF Abandon, Changes, MoveInv, Maps, Movers, Calls, routers, clients
<1>4. QED
  BY <1>1, <1>3, StepInv

\* What MoveShard sends brings no shard back: chunks go to the destination.
LEMMA RequestGood ==
    ASSUME MovedOnce, NEW x, GoodMover(x), x.pc \in Sending \cup {"scan"}
    PROVE  /\ GoodRequest(RequestOf(x))
           /\ x.pc \notin {"mark", "flip"} => RequestOf(x).to \in Group
<1>1. /\ GoodMap(x.m) /\ <<x.shard, x.dest>> \in Moves
      /\ x.pc \in Leaving => x.m.groups[x.shard] = Default[x.shard]
  BY DEF GoodMover, Sending
<1>2. /\ x.shard \in Shard /\ x.dest \in Group /\ x.dest # Default[x.shard]
      /\ Default[x.shard] \in Group /\ 0 \notin Group
  BY <1>1, ShardMoveConstants DEF MovedOnce
<1>3. CASE x.pc \in {"mark", "flip"}
  BY <1>1, <1>3 DEF RequestOf, Swap, GoodRequest
<1>4. CASE x.pc = "freeze"
  BY <1>1, <1>2, <1>4 DEF RequestOf, ToGroup, Admin, GoodRequest, IsCommand, Leaving
<1>5. CASE x.pc = "scan"
  BY <1>1, <1>2, <1>5 DEF RequestOf, ToGroup, GoodRequest, IsCommand, Leaving
<1>6. CASE x.pc = "flush"
  BY <1>2, <1>6 DEF RequestOf, ToGroup, Import, GoodRequest, IsCommand
<1>7. CASE x.pc = "last"
  BY <1>2, <1>7 DEF RequestOf, ToGroup, Import, GoodRequest, IsCommand
<1>8. CASE x.pc = "purge"
  BY <1>1, <1>2, <1>8 DEF RequestOf, ToGroup, Admin, GoodRequest, IsCommand, Leaving
<1>9. QED
  BY <1>3, <1>4, <1>5, <1>6, <1>7, <1>8 DEF Sending

LEMMA TimeOutInv ==
    ASSUME MoveInv, MovedOnce, NEW r \in Router, TimeOut(r)
    PROVE  MoveInv'
<1>1. Groups' /\ StayGone
  BY NothingApplied DEF MoveInv, TimeOut
<1>2. PICK q : q = RequestOf(mv[r])
  OBVIOUS
<1>3. GoodRequest(q)
  BY <1>2, RequestGood DEF MoveInv, Movers, TimeOut
<1>4. GoodRequest(q)'
  BY <1>1, <1>3, GoodRequestStays
<1>5. Changes
  BY <1>2, <1>4 DEF TimeOut, Changes, MoveInv, Maps, Movers, Calls, routers, clients
<1>6. QED
  BY <1>1, <1>5, StepInv

LEMMA ApplyLateInv == ASSUME MoveInv, NEW q \in late, ApplyLate(q) PROVE MoveInv'
<1>1. GoodRequest(q)
  BY DEF MoveInv
<1>2. Groups' /\ StayGone
  BY <1>1, AppliedTo, NothingApplied DEF MoveInv, ApplyLate, GoodRequest
<1>3. UNCHANGED meta \/ GoodMap(meta)'
  BY <1>1, <1>2, GoodMapStays DEF ApplyLate, GoodRequest
<1>4. Changes
  BY <1>3 DEF ApplyLate, Changes, MoveInv, Maps, Movers, Calls, routers, clients
<1>5. QED
  BY <1>2, <1>4, StepInv

\* y is x at another step before the purge.
GoesOn(x, y) ==
    IsMover(y) /\ y.pc \in Leaving /\ y.shard = x.shard /\ y.dest = x.dest /\ y.m = x.m

LEMMA ScannedGoesOn ==
    ASSUME NEW x, IsMover(x), x.pc \in Leaving, NEW page
    PROVE  GoesOn(x, Scanned(x, page))
<1>1. PICK y, k, c : /\ y = Scanned(x, page) /\ k = (CHOOSE j \in DOMAIN page : TRUE) + 1
                     /\ c = PutAll(x.chunk, page)
  OBVIOUS
<1>2. \/ y = [x EXCEPT !.pc = "last"]
      \/ y = [x EXCEPT !.start = k]
      \/ y = [x EXCEPT !.pc = "flush", !.page = page]
      \/ y = [x EXCEPT !.chunk = c, !.start = k]
  BY <1>1 DEF Scanned
<1>3. CASE y = [x EXCEPT !.pc = "last"]
  <2>1. IsMover(y) /\ y.pc = "last" /\ y.shard = x.shard /\ y.dest = x.dest /\ y.m = x.m
    BY <1>3 DEF IsMover
  <2>2. QED
    BY <1>1, <2>1 DEF GoesOn, Leaving
<1>4. CASE y = [x EXCEPT !.start = k]
  <2>1. IsMover(y) /\ y.pc = x.pc /\ y.shard = x.shard /\ y.dest = x.dest /\ y.m = x.m
    BY <1>4 DEF IsMover
  <2>2. QED
    BY <1>1, <2>1 DEF GoesOn, Leaving
<1>5. CASE y = [x EXCEPT !.pc = "flush", !.page = page]
  <2>1. IsMover(y) /\ y.pc = "flush" /\ y.shard = x.shard /\ y.dest = x.dest /\ y.m = x.m
    BY <1>5 DEF IsMover
  <2>2. QED
    BY <1>1, <2>1 DEF GoesOn, Leaving
<1>6. CASE y = [x EXCEPT !.chunk = c, !.start = k]
  <2>1. IsMover(y) /\ y.pc = x.pc /\ y.shard = x.shard /\ y.dest = x.dest /\ y.m = x.m
    BY <1>6 DEF IsMover
  <2>2. QED
    BY <1>1, <2>1 DEF GoesOn, Leaving
<1>7. QED
  BY <1>2, <1>3, <1>4, <1>5, <1>6

LEMMA FlushedGoesOn ==
    ASSUME NEW x, IsMover(x), x.pc \in Leaving, NEW res
    PROVE  GoesOn(x, Flushed(x, res))
<1>1. PICK y, k, c, p : /\ y = Flushed(x, res) /\ k = 1 + CHOOSE j \in DOMAIN x.page : TRUE
                        /\ c = NoPairs /\ p = x.page
  OBVIOUS
<1>2. \/ y = [x EXCEPT !.pc = "purge", !.chunk = c, !.page = c]
      \/ y = [x EXCEPT !.pc = "scan", !.chunk = p, !.page = c, !.start = k]
  BY <1>1 DEF Flushed
<1>3. CASE y = [x EXCEPT !.pc = "purge", !.chunk = c, !.page = c]
  <2>1. IsMover(y) /\ y.pc = "purge" /\ y.shard = x.shard /\ y.dest = x.dest /\ y.m = x.m
    BY <1>3 DEF IsMover
  <2>2. QED
    BY <1>1, <2>1 DEF GoesOn, Leaving
<1>4. CASE y = [x EXCEPT !.pc = "scan", !.chunk = p, !.page = c, !.start = k]
  <2>1. IsMover(y) /\ y.pc = "scan" /\ y.shard = x.shard /\ y.dest = x.dest /\ y.m = x.m
    BY <1>4 DEF IsMover
  <2>2. QED
    BY <1>1, <2>1 DEF GoesOn, Leaving
<1>5. QED
  BY <1>2, <1>3, <1>4

LEMMA AfterCopyGoesOn ==
    ASSUME NEW x, IsMover(x), x.pc \in Leaving
    PROVE  GoesOn(x, AfterCopy(x))
<1>1. PICK y, c : y = AfterCopy(x) /\ c = NoPairs
  OBVIOUS
<1>2. y = [x EXCEPT !.pc = "purge", !.chunk = c]
  BY <1>1 DEF AfterCopy
<1>3. IsMover(y) /\ y.pc = "purge" /\ y.shard = x.shard /\ y.dest = x.dest /\ y.m = x.m
  BY <1>2 DEF IsMover
<1>4. QED
  BY <1>1, <1>3 DEF GoesOn, Leaving

\* A step through the log of a group, other than the purge.
LEMMA GroupStepGoesOn ==
    ASSUME NEW r \in Router, GroupStep(r), NEW x, x = mv[r], IsMover(x), x.pc # "purge"
    PROVE  \E y : GoesOn(x, y) /\ Goto(r, y)
<1>1. PICK e : e = ApplyTo(RequestOf(x).to, RequestOf(x).cmd)
  OBVIOUS
<1>2. x.pc \in {"freeze", "scan", "flush", "last"} /\ x.pc \in Leaving
  BY DEF GroupStep, Leaving
<1>3. CASE x.pc = "freeze"
  <2>1. Goto(r, [x EXCEPT !.pc = "scan"])
    BY <1>3 DEF GroupStep
  <2>2. GoesOn(x, [x EXCEPT !.pc = "scan"])
    BY DEF GoesOn, IsMover, Leaving
  <2>3. QED
    BY <2>1, <2>2
<1>4. CASE x.pc = "scan"
  BY <1>1, <1>2, <1>4, ScannedGoesOn DEF GroupStep
<1>5. CASE x.pc = "flush"
  BY <1>1, <1>2, <1>5, FlushedGoesOn DEF GroupStep
<1>6. CASE x.pc = "last"
  BY <1>1, <1>2, <1>6, AfterCopyGoesOn DEF GroupStep
<1>7. QED
  BY <1>2, <1>3, <1>4, <1>5, <1>6

\* The purge takes the shard from the group it was in at first.
LEMMA Purges ==
    ASSUME Groups, NEW s \in Shard, NEW g \in Group, g = Default[s],
           sm' = [sm EXCEPT ![g] = ApplyTo(g, Admin("purge", s)).sm]
    PROVE  Gone(s)'
<1> DEFINE cmd == Admin("purge", s)
<1>1. cmd.op = "purge" /\ cmd.shard = s /\ cmd.client = 0
  BY DEF Admin
<1> HIDE DEF cmd
<1>2. /\ IsGroup(execute(sm[g], cmd, 0).sm)
      /\ execute(sm[g], cmd, 0).sm.shards[s] = "gone"
  BY <1>1, ExecutePurge DEF Groups, Keeps
<1>3. Apply(sm[g], cmd, 0).sm.shards[s] = "gone"
  BY <1>1, <1>2, ApplyShards DEF Groups
<1>4. QED
  BY <1>3 DEF ApplyTo, Gone, Groups, cmd

LEMMA GroupStepInv ==
    ASSUME MoveInv, MovedOnce, NEW r \in Router, GroupStep(r)
    PROVE  MoveInv'
<1>1. PICK x, q : x = mv[r] /\ q = RequestOf(x)
  OBVIOUS
<1>2. /\ GoodMover(x) /\ IsMover(x) /\ x.pc \in {"freeze", "scan", "flush", "last", "purge"}
      /\ x.pc \in Leaving /\ GoodMap(x.m) /\ <<x.shard, x.dest>> \in Moves
      /\ x.m.groups[x.shard] = Default[x.shard]
  BY <1>1 DEF MoveInv, Movers, GroupStep, GoodMover, Leaving
<1>3. q.to \in Group /\ GoodRequest(q) /\ 0 \notin Group
  BY <1>1, <1>2, RequestGood, ShardMoveConstants DEF Sending
<1>4. sm' = [sm EXCEPT ![q.to] = ApplyTo(q.to, q.cmd).sm] /\ UNCHANGED <<meta, fetched, wr, late>>
  BY <1>1 DEF GroupStep, clients
<1>5. Groups' /\ StayGone
  BY <1>3, <1>4, AppliedTo DEF MoveInv, GoodRequest
<1>6. PICK y : Goto(r, y) /\ GoodMover(y)' /\ GoodMap(y.m)'
  <2>1. CASE x.pc # "purge"
    <3>1. PICK y : GoesOn(x, y) /\ Goto(r, y)
      BY <1>1, <1>2, <2>1, GroupStepGoesOn
    <3>2. GoodMover(y) /\ GoodMap(y.m)
      BY <1>2, <3>1, MoverGoesOn DEF GoesOn
    <3>3. QED
      BY <1>5, <3>1, <3>2, GoodMoverStays, GoodMapStays
  <2>2. CASE x.pc = "purge"
    <3>1. PICK y, m : /\ m = [x.m EXCEPT !.groups[x.shard] = x.dest, !.moving[x.shard] = 0]
                      /\ y = [x EXCEPT !.pc = "flip", !.m.groups[x.shard] = x.dest,
                                       !.m.moving[x.shard] = 0]
      OBVIOUS
    <3>2. Goto(r, y)
      BY <1>1, <2>2, <3>1 DEF GroupStep
    <3>3. IsMover(y) /\ y.pc = "flip" /\ y.shard = x.shard /\ y.dest = x.dest /\ y.m = m
      BY <1>2, <3>1 DEF IsMover
    <3>4. x.shard \in Shard /\ x.dest \in Group
      BY <1>2, ShardMoveConstants
    <3>5. Gone(x.shard)'
      <4>1. q.to = Default[x.shard] /\ q.cmd = Admin("purge", x.shard)
        BY <1>1, <1>2, <2>2 DEF RequestOf, ToGroup
      <4>2. QED
        BY <1>3, <1>4, <3>4, <4>1, Purges DEF MoveInv
    <3>6. /\ m = [groups |-> m.groups, moving |-> m.moving]
          /\ m.groups = [x.m.groups EXCEPT ![x.shard] = x.dest]
          /\ m.moving = [x.m.moving EXCEPT ![x.shard] = 0]
      BY <1>2, <3>1 DEF GoodMap
    <3>7. GoodMap(m)'
      BY <1>2, <1>5, <3>4, <3>5, <3>6 DEF GoodMap, StayGone
    <3>8. GoodMover(y)'
      BY <1>2, <3>3, <3>7 DEF GoodMover, Leaving
    <3>9. QED
      BY <3>2, <3>3, <3>7, <3>8
  <2>3. QED
    BY <2>1, <2>2
<1>7. QED
  BY <1>4, <1>5, <1>6, MoverStepInv DEF Goto
-----------------------------------------------------------------------------
\* A step of a client changes no map and no mover.
LEMMA ClientInv ==
    ASSUME MoveInv, Groups', StayGone, Calls', UNCHANGED <<meta, shards, fetched, mv>>,
           \A q \in late' : q \in late \/ GoodRequest(q)'
    PROVE  MoveInv'
<1>1. Changes
  BY DEF Changes, MoveInv, Maps, Movers
<1>2. QED
  BY <1>1, StepInv

LEMMA WriteInv == ASSUME MoveInv, NEW k \in Key, Write(k) PROVE MoveInv'
<1>1. Groups' /\ StayGone
  BY NothingApplied DEF MoveInv, Write
<1>2. Calls'
  <2>1. PICK g, c, n : /\ g \in Group /\ c = [NoCall EXCEPT !.key = k, !.to = g]
                       /\ wr' = [seq |-> n, call |-> c]
    BY DEF Write
  <2>2. /\ c = [key |-> c.key, to |-> c.to, floor |-> c.floor, checked |-> c.checked]
        /\ c.to = g
    BY <2>1 DEF NoCall
  <2>3. QED
    BY <2>1, <2>2 DEF Calls
<1>3. QED
  BY <1>1, <1>2, ClientInv DEF Write, routers

LEMMA WriteAgainInv == ASSUME MoveInv, WriteAgain PROVE MoveInv'
<1>1. Groups' /\ StayGone
  BY NothingApplied DEF MoveInv, WriteAgain
<1>2. Calls'
  BY DEF WriteAgain, MoveInv, Calls
<1>3. QED
  BY <1>1, <1>2, ClientInv DEF WriteAgain, routers

LEMMA WriteAnswerInv == ASSUME MoveInv, WriteAnswer PROVE MoveInv'
<1>1. wr.call.to \in Group
  BY DEF MoveInv, Calls, WriteAnswer
<1>2. IsCommand(WriteCmd) /\ WriteCmd.op = "put"
  BY DEF IsCommand, WriteCmd
<1>3. Groups' /\ StayGone
  BY <1>1, <1>2, AppliedTo DEF MoveInv, WriteAnswer
<1>4. wr' = [wr EXCEPT !.call.to = 0] \/ wr' = [wr EXCEPT !.call = NoCall]
  BY DEF WriteAnswer
<1>5. Calls'
  BY <1>4 DEF MoveInv, Calls, NoCall
<1>6. QED
  BY <1>3, <1>5, ClientInv DEF WriteAnswer, routers

LEMMA WriteTimeOutInv == ASSUME MoveInv, WriteTimeOut PROVE MoveInv'
<1>1. Groups' /\ StayGone
  BY NothingApplied DEF MoveInv, WriteTimeOut
<1>2. PICK q : q = ToGroup(wr.call.to, WriteCmd)
  OBVIOUS
<1>3. GoodRequest(q)
  BY <1>2, ShardMoveConstants
     DEF MoveInv, Calls, WriteTimeOut, ToGroup, WriteCmd, GoodRequest, IsCommand
<1>4. GoodRequest(q)'
  BY <1>1, <1>3, GoodRequestStays
<1>5. wr' = [wr EXCEPT !.call.to = 0] \/ wr' = [wr EXCEPT !.call = NoCall]
  BY DEF WriteTimeOut
<1>6. Calls'
  BY <1>5 DEF MoveInv, Calls, NoCall
<1>7. QED
  BY <1>1, <1>2, <1>4, <1>6, ClientInv DEF WriteTimeOut, routers

\* A step that leaves everything but the reader's state and the history alone.
LEMMA ReaderInv ==
    ASSUME MoveInv, UNCHANGED <<meta, sm, shards, fetched, mv, late, wr>>
    PROVE  MoveInv'
<1>1. Groups' /\ StayGone
  BY NothingApplied DEF MoveInv
<1>2. Calls'
  BY DEF MoveInv, Calls
<1>3. QED
  BY <1>1, <1>2, ClientInv

LEMMA MoveInit == Init => MoveInv
<1> SUFFICES ASSUME Init PROVE MoveInv
  OBVIOUS
<1>1. IsGroup(EmptyGroup)
  BY DEF IsGroup, EmptyGroup, States
<1>2. Groups
  BY <1>1 DEF Init, Groups
<1>3. Maps /\ Movers
  BY IdleGood DEF Init, Maps, Movers
<1>4. Calls /\ \A q \in late : GoodRequest(q)
  BY DEF Init, Calls, NoCall
<1>5. QED
  BY <1>2, <1>3, <1>4 DEF MoveInv

LEMMA MoveNext == ASSUME MoveInv, MovedOnce, [Next]_vars PROVE MoveInv'
<1>1. CASE Bootstrap
  BY <1>1, BootstrapInv
<1>2. ASSUME NEW r \in Router, Fetch(r) \/ Install(r) \/ TimeOut(r) \/ Abandon(r)
      PROVE  MoveInv'
  BY <1>2, FetchInv, InstallInv, TimeOutInv, AbandonInv
<1>3. ASSUME NEW r \in Router, NEW x \in Moves, Begin(r, x[1], x[2])
      PROVE  MoveInv'
  BY <1>3, BeginInv
<1>4. ASSUME NEW r \in Router, MoverStep(r)
      PROVE  MoveInv'
  BY <1>4, ReloadedInv, TakeInv, SwappedInv, SwapDoneInv, GroupStepInv DEF MoverStep
<1>5. ASSUME NEW q \in late, ApplyLate(q)
      PROVE  MoveInv'
  BY <1>5, ApplyLateInv
<1>6. ASSUME NEW k \in Key, Write(k)
      PROVE  MoveInv'
  BY <1>6, WriteInv
<1>7. ASSUME NEW k \in Key, NEW mode \in ReadModes, Read(k, mode)
      PROVE  MoveInv'
  BY <1>7, ReaderInv DEF Read, routers
<1>8. CASE WriteAgain \/ WriteAnswer \/ WriteTimeOut
  BY <1>8, WriteAgainInv, WriteAnswerInv, WriteTimeOutInv
<1>9. CASE ReadAgain \/ ReadAnswer \/ DirectCheck \/ DirectGet
  BY <1>9, ReaderInv DEF ReadAgain, ReadAnswer, DirectCheck, DirectGet, routers
<1>10. CASE UNCHANGED vars
  BY <1>10, ReaderInv DEF vars, routers, clients
<1>11. QED
  BY <1>1, <1>2, <1>3, <1>4, <1>5, <1>6, <1>7, <1>8, <1>9, <1>10 DEF Next

LEMMA MoveInvOneWriter == ASSUME MoveInv, MovedOnce PROVE OneWriter
<1> SUFFICES ASSUME NEW q \in Router, NEW r \in Router, NEW s \in Shard,
                    shards[q].groups[s] # shards[r].groups[s],
                    shards[q].groups[s] # 0, shards[r].groups[s] # 0
             PROVE  \/ sm[shards[q].groups[s]].shards[s] \notin {"none", "open"}
                    \/ sm[shards[r].groups[s]].shards[s] \notin {"none", "open"}
  BY DEF OneWriter
<1>1. shards[q] # NoMap /\ shards[r] # NoMap
  BY DEF NoMap
<1>2. GoodMap(shards[q]) /\ GoodMap(shards[r])
  BY <1>1 DEF MoveInv, Maps
<1>3. PICK g, h : g = shards[q].groups[s] /\ h = shards[r].groups[s]
  OBVIOUS
<1>4. /\ g # Default[s] => <<s, g>> \in Moves /\ Gone(s)
      /\ h # Default[s] => <<s, h>> \in Moves /\ Gone(s)
  BY <1>2, <1>3 DEF GoodMap
<1>5. (g = Default[s] \/ h = Default[s]) /\ Gone(s)
  BY <1>3, <1>4 DEF MovedOnce
<1>6. QED
  BY <1>3, <1>5 DEF Gone

\* MovedOnce speaks of the constants alone.
MoveInvIfOnce == MovedOnce => MoveInv

\* Where operators ask for one move of a shard at most, two groups that the maps of
\* routers name for it never both take writes: whichever routers run MoveShard, at the
\* same time, abandoned or run again, and whatever they sent is applied late.
THEOREM WritersExclusive == Spec => [](MovedOnce => OneWriter)
<1>1. Init => MoveInvIfOnce
  BY MoveInit DEF MoveInvIfOnce
<1>2. MoveInvIfOnce /\ [Next]_vars => MoveInvIfOnce'
  BY MoveNext DEF MoveInvIfOnce, MovedOnce
<1>3. MoveInvIfOnce => (MovedOnce => OneWriter)
  BY MoveInvOneWriter DEF MoveInvIfOnce
<1>4. QED
  BY <1>1, <1>2, <1>3, PTL DEF Spec
=============================================================================
