------------------------------ MODULE KVGroup -------------------------------
(***************************************************************************)
(* The replicated state machine of one group: kv.StateMachine              *)
(* (kv/statemachine.go), as a record and the operations on it.             *)
(*                                                                         *)
(*   data      the user keys that exist, with their values ('k' keys)      *)
(*   sessions  for each session, the last sequence number executed and its *)
(*             result ('s' keys)                                           *)
(*   shards    the state of each shard in this group ("mshard/" keys);     *)
(*             "none" is a shard this group has never heard of             *)
(*                                                                         *)
(* One Apply is one batch of the engine, so it happens at once.  Keys are  *)
(* numbers, in the order of a scan.  Pairs are of one size, so the byte    *)
(* limit of a scan is a limit on their number.                             *)
(***************************************************************************)
EXTENDS Integers, FiniteSets

CONSTANTS
    Key,        \* user keys, numbers
    ShardOf     \* keyhash.ShardOf: the shard of each key

ASSUME KVGroupConstants == Key \subseteq Nat /\ DOMAIN ShardOf = Key

Shard == {ShardOf[k] : k \in Key}

\* No value: a key that is not there, and the nil Expected of a Cas.
Absent == 0

EmptyGroup ==
    [data     |-> [k \in {} |-> Absent],
     sessions |-> [c \in {} |-> <<>>],
     shards   |-> [s \in Shard |-> "none"]]

ValueOf(sm, k) == IF k \in DOMAIN sm.data THEN sm.data[k] ELSE Absent

writable(sm, k) == sm.shards[ShardOf[k]] \in {"none", "open"}
readable(sm, k) == sm.shards[ShardOf[k]] # "gone"

\* Batch.Put and Batch.Delete on user keys.
PutAll(data, kvs) ==
    [k \in DOMAIN data \cup DOMAIN kvs |-> IF k \in DOMAIN kvs THEN kvs[k] ELSE data[k]]
DeleteAll(data, ks) == [k \in DOMAIN data \ ks |-> data[k]]

setShard(sm, s, state) == [sm EXCEPT !.shards[s] = state]

\* scan: the first limit pairs from start on.
Scan(sm, start, limit) ==
    LET from == {k \in DOMAIN sm.data : k >= start}
        page == {k \in from : Cardinality({j \in from : j <= k}) <= limit}
    IN  [k \in page |-> sm.data[k]]

\* The fields of pb.Result, unset.
NoResult == [id |-> 0, moving |-> FALSE, success |-> FALSE, val |-> Absent,
             kvs |-> [k \in {} |-> Absent]]
Moving == [NoResult EXCEPT !.moving = TRUE]
Success == [NoResult EXCEPT !.success = TRUE]

\* What a command does to the state machine, and its result.
Effect(sm, res) == [sm |-> sm, res |-> res]

PutOp(sm, key, val) ==
    IF ~writable(sm, key) THEN Effect(sm, Moving)
    ELSE Effect([sm EXCEPT !.data = PutAll(@, [k \in {key} |-> val])], Success)

DeleteOp(sm, key) ==
    IF ~writable(sm, key) THEN Effect(sm, Moving)
    ELSE Effect([sm EXCEPT !.data = DeleteAll(@, {key})], Success)

CasOp(sm, key, expected, val) ==
    LET cur == ValueOf(sm, key)
    IN  IF ~writable(sm, key) THEN Effect(sm, Moving)
        ELSE IF cur = expected
        THEN Effect([sm EXCEPT !.data = PutAll(@, [k \in {key} |-> val])],
                    [Success EXCEPT !.val = cur])
        ELSE Effect(sm, [NoResult EXCEPT !.val = cur])

GetOp(sm, key) ==
    IF ~readable(sm, key) THEN Effect(sm, Moving)
    ELSE Effect(sm, [NoResult EXCEPT !.val = ValueOf(sm, key)])

FreezeOp(sm, s) ==
    Effect(IF sm.shards[s] = "gone" THEN sm ELSE setShard(sm, s, "frozen"), Success)

\* Bug: a chunk lands in a shard that is complete.
ImportOp_Always(sm, s, kvs, last) ==
    LET put == [sm EXCEPT !.data = PutAll(@, kvs)]
    IN  Effect(IF last THEN setShard(put, s, "open") ELSE put, Success)

\* A shard with a state other than gone is complete here, and takes no chunk.
ImportOp(sm, s, kvs, last) ==
    LET put == [sm EXCEPT !.data = PutAll(@, kvs)]
    IN  IF sm.shards[s] \notin {"none", "gone"} THEN Effect(sm, NoResult)
        ELSE Effect(IF last THEN setShard(put, s, "open") ELSE put, Success)

\* Bug: the shard is forgotten with its keys, and a shard never heard of is open.
PurgeOp_Forget(sm, s) ==
    LET purged == [sm EXCEPT !.data = DeleteAll(@, {k \in Key : ShardOf[k] = s})]
    IN  Effect(setShard(purged, s, "none"), Success)

PurgeOp(sm, s) ==
    LET purged == [sm EXCEPT !.data = DeleteAll(@, {k \in Key : ShardOf[k] = s})]
    IN  Effect(setShard(purged, s, "gone"), Success)

execute(sm, cmd, index) ==
    CASE cmd.op = "register" -> Effect(sm, [NoResult EXCEPT !.id = index])
      [] cmd.op = "put"      -> PutOp(sm, cmd.key, cmd.val)
      [] cmd.op = "delete"   -> DeleteOp(sm, cmd.key)
      [] cmd.op = "cas"      -> CasOp(sm, cmd.key, cmd.expected, cmd.val)
      [] cmd.op = "get"      -> GetOp(sm, cmd.key)
      [] cmd.op = "scan"     -> Effect(sm, [NoResult EXCEPT !.kvs = Scan(sm, cmd.start, cmd.limit)])
      [] cmd.op = "freeze"   -> FreezeOp(sm, cmd.shard)
      [] cmd.op = "import"   -> ImportOp(sm, cmd.shard, cmd.kvs, cmd.last)
      [] cmd.op = "purge"    -> PurgeOp(sm, cmd.shard)

\* Bug: the last command of a session is not taken for a repeat.
Repeated_OffByOne(sm, cmd) ==
    cmd.client # 0 /\ cmd.client \in DOMAIN sm.sessions /\ cmd.seq < sm.sessions[cmd.client].seq

\* The session of the command has executed it, or a later one.
Repeated(sm, cmd) ==
    cmd.client # 0 /\ cmd.client \in DOMAIN sm.sessions /\ cmd.seq <= sm.sessions[cmd.client].seq

\* Bug: the session is recorded one command ahead.
SetSession_Ahead(sm, c, seq, res) ==
    [sm EXCEPT !.sessions =
        [d \in DOMAIN @ \cup {c} |-> IF d = c THEN [seq |-> seq + 1, res |-> res] ELSE @[d]]]

SetSession(sm, c, seq, res) ==
    [sm EXCEPT !.sessions =
        [d \in DOMAIN @ \cup {c} |-> IF d = c THEN [seq |-> seq, res |-> res] ELSE @[d]]]

\* Bug: a repeat is answered without the result of the first execution.
Apply_NoResult(sm, cmd, index) ==
    LET e == execute(sm, cmd, index)
        known == IF cmd.client = 0 THEN e.sm ELSE SetSession(e.sm, cmd.client, cmd.seq, e.res)
    IN  IF Repeated(sm, cmd) THEN Effect(sm, NoResult)
        ELSE Effect(IF e.res.id = 0 THEN known ELSE SetSession(known, e.res.id, 0, NoResult),
                    e.res)

\* Bug: commands without a session share one.
Apply_ZeroSession(sm, cmd, index) ==
    LET e == execute(sm, cmd, index)
        known == SetSession(e.sm, cmd.client, cmd.seq, e.res)
    IN  IF cmd.client \in DOMAIN sm.sessions /\ cmd.seq <= sm.sessions[cmd.client].seq
        THEN Effect(sm, sm.sessions[cmd.client].res)
        ELSE Effect(IF e.res.id = 0 THEN known ELSE SetSession(known, e.res.id, 0, NoResult),
                    e.res)

\* Apply, of the command at an index of the log.
Apply(sm, cmd, index) ==
    LET e == execute(sm, cmd, index)
        known == IF cmd.client = 0 THEN e.sm ELSE SetSession(e.sm, cmd.client, cmd.seq, e.res)
    IN  IF Repeated(sm, cmd) THEN Effect(sm, sm.sessions[cmd.client].res)
        ELSE Effect(IF e.res.id = 0 THEN known ELSE SetSession(known, e.res.id, 0, NoResult),
                    e.res)
=============================================================================
