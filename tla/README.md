# A TLA+ verification of Keystone

Keystone is a sharded, replicated key-value store: Raft over a log on disk, a
state machine with client sessions on an LSM engine, and a router that moves
shards between Raft groups while clients use them. This directory holds TLA+
modules translated from its Go code, the TLC runs that check them, and theorems
checked by TLAPS. `PROJECT.json` lists, for every definition, the lines it models.

## The system and its parts

| Part | Code | State | Modelled by |
| --- | --- | --- | --- |
| Raft core | `raft/raft.go`, `snapshot.go`, `types.go` | term, vote, role, leader's view of its peers, read rounds, transfers | `Raft` |
| Log store | `raft/logstore.go`, `memstore.go` | entries, compaction point, snapshot | `LogStore` |
| Disk log store | `raft/diskstore.go` | WAL records, snapshot files, the live tail | `DiskStore`, against `StableLog` |
| Write-ahead log | `storage/wal.go` | segments, what of them is synced | `WAL` |
| Node driver | `raft/node.go` | applied index, pending proposals and reads | `Raft`, in part |
| Transport | `kv/transport.go` | queues and streams | `Raft`: the network, in part |
| State machine | `kv/statemachine.go` | keys, sessions, shard states | `KVGroup` |
| Server, client | `kv/server.go`, `kv/client.go` | sequence numbers, attempts | `KVSessions`, `ShardMove`, in part |
| Router, moves | `shard/router.go`, `shard.go` | shard map, its cached copies, the mover | `ShardMove`, in part |
| Storage engine | `storage/db.go`, `compaction.go`, `version.go`, `manifest.go` | memtables, tables, versions, MANIFEST, waiting goroutines | `LSM`, `Engine`, against `DurableMap` |
| Memtable, tables | `storage/skiplist.go`, `merge.go`, `sstable.go`, `block.go`, `bloom.go`, `key.go` | pointers of the skip list, blocks, filter | `Memtable`, `Tables` |
| In-memory engine, simulator, bench, commands, generated code | `storage/memdb.go`, `sim/`, `bench/`, `cmd/`, `proto/` | | not modelled |

How they interact. A client's command is routed by key to a group, proposed to
the group's leader, replicated by Raft, and applied by every member's state
machine, which writes its effect, the session and the applied index as one batch
of the engine. Raft writes its log, term and vote through the disk store before it
answers; disk store and engine each have a write-ahead log of their own.
The router's map is itself a key of one group, the meta group, and changes by
compare-and-swap. A shard move is a sequence of commands through the logs of
three groups, driven by a router that may die between any two.

What is hard: crashes between persisting and answering, inside a write, and inside
recovery; messages late, repeated and reordered; entries overwritten after an
election; a leader that does not know it is deposed; a log compacted under a
follower that needs it; tables merged and unlinked under a reader; commands applied
after their caller gave up; routers with old maps; two movers; a read that
checks and then reads. `hazards` in `PROJECT.json` places each at its line.

## Modules

`LogStore` is a log as a record (`entries`, `snapIdx`, `snapTerm`, `snap`) and the
operations of the `LogStore` interface on it, as `MemLogStore` implements them.

`Raft` has one variable for each field of `raft.Raft` that matters, indexed by
server, the network `msgs`, and three history variables (`committed`, `elected`,
`served`). A node handles one message, tick, proposal or read under `Node.mu`, so
each handler is one action, with everything it calls: the trailing commit, the
application of entries (`advance`) and the snapshot (`maybeSnapshot`) included. A
crash is an action of its own between handlers, and inside one where it
leaves something on disk or on the wire that no crash between two handlers does:
after the term is written and before the vote is, after a batch is sent and
before it is written, and in the middle of a write of several entries.

`WAL` is a write-ahead log as segments of records, each segment with how much of it
is synced: append, sync, rotation, deletion, replay, and what a crash may leave (any
part of what was not synced, the last record torn). `DiskStore` and `Engine` extend it.

`StableLog` is what Raft assumes of a log over crashes: a call that returned is never
undone, one that did not is undone, done, or, for an append, done for a beginning.
`DiskStore` has the calls of `DiskStore` in the code, each as its steps on the disk (the
snapshot file, the rotation, the write, the sync, the files that go), the replay of the
records, and a crash between any two steps of a call or of an open. `Implements` is its
refinement of `StableLog`: the log in memory is the stable one, and a call is over
for the node once its records are synced.

`LSM` has what reads and compactions compute from tiers of versions: `Get`, `Scan`,
what a merge keeps, which tables are merged. `Engine` is `storage/db.go` with its
goroutines: callers in the write queue, the head of the queue that commits for its
group, the flusher, the compactor, `Restore`, readers that pin a version, `Close`, a
crash and `Open`. `mu` is held for single actions; who holds `installMu` is `job`, and
`asleep` holds those who wait on the condition variable until someone broadcasts.
`DurableMap` is what it promises: one map, batches that take effect whole and in
order, readers with one state of it, and a crash that goes back no further than the
last sync. `Implements` maps the history `past`, the queue and the readers to it.

`Tables` has blocks with prefix compression and restart points, the search in them,
the two-level iterator and the Bloom filter, as operators. `Memtable` drains an old memtable
into such a table entry by entry, and lets one writer insert into a skip list beside a
reader without locks, every load and store of a pointer a step of its own.

`KVGroup` is the state machine as pure operators: `Apply(sm, cmd, index)` gives the
state after a command, and its result. It has no variables, and is extended by:

- `KVSessions`: clients that dial, call, retry and give up, with requests applied
  late, twice or without an answer, in several groups behind a router;
- `ShardMove`: routers with cached maps (`shards`, `raw`), the steps of
  `MoveShard` as a program counter (`mv[r].pc`), the meta group's map as a
  register with compare-and-swap, requests applied after their caller is gone
  (`late`), a writer and a reader. The map `MoveShard` edits is the one the
  router serves from, until a reload replaces it; `shared` keeps track.

The `MC` modules give the constants for TLC, symmetry, and starting states: some that
take many steps to reach, and some that share a budget of calls, crashes and the like out
in different ways (`Left`). The `...Proofs` modules hold the theorems.

## What the runs check

| Run | Shows |
| --- | --- |
| Prepared | from diverged logs, a leader in office, or a member behind the compaction point: what is committed is never overwritten and is in every later leader's log, snapshots in chunks install exactly the decided prefix and a transfer ends with its need, one leader a term, and a read a majority confirms is no older than what was committed before it began |
| Replication | `match` claims only what a follower holds, what is committed is on the disks of a majority, and no vote is cast twice, with late and repeated appends, torn writes and a crash anywhere |
| CatchUp | liveness: a leader that stays leader brings every follower up to date |
| DiskStore | the disk store implements `StableLog` over crashes inside calls and opens, and leaves no snapshot file behind |
| Engine | the engine implements `DurableMap`; a reader sees one state whatever is flushed, merged, unlinked or restored; `Get`, which stops at the first tier, agrees with `Scan` and `Export`, which merge all; no file stays behind; a stalled write goes on |
| Memtable | a table gives back what was drained into it, by walk, search and filter; a scan sees exactly what was published when it began |
| Sessions | a call is executed at most once and in order, is answered with the result of that execution, and sessions are not shared |
| Move | a source drops only what the destination holds; two groups the maps name never both take writes; a read through the log is never older than a finished call, whatever map its router has |

Four runs expect a violation; each states what a document or a comment says of the
code, and shows an execution of the code that does otherwise.

- **ReadIDs** (`raft/raft.go:425`). Read rounds are numbered from 1 by every process.
  A leader that restarts and wins a later term counts the late answer to a round
  of its earlier life for one of its new rounds, and may serve a stale read.
- **DiskReopen** (`raft/diskstore.go:101`). Once older segments are deleted, the log starts
  with an entry that a later record may overwrite from further down. The replay then
  slices below its base, and the log cannot be opened.
- **MoveExclusive** (`shard/router.go:350`). `MoveShard` decides on the map its reload
  returned and takes the bytes to compare against later. A refresh in between lets
  the swap succeed with a stale map, over the mark of another router's move.
- **MemtableGet** (`storage/skiplist.go:91`). `seek` loads the pointer it returns a second
  time. An insert in between makes it return a node before the target, and a lookup
  misses a key that was published before it began.

### Bounds

Terms, log lengths, calls, crashes and the like are bounded in guards. Where all of
them at once are too many, a run starts from several shares of them (`Left`, or the
starts of `PreparedSpec`), and TLC explores each to its end.

Raft. Prepared has three servers, the least with a majority that excludes a live
leader, four terms (enough for the overwrite of an entry of an earlier term), two
messages in flight (enough for an old one to meet a newer one), one read, and loss.
The prepared states are each explained, as an execution that leads there, in `MCRaft`.
Replication starts from the initial state: two servers, two terms, batches of two,
one crash, one repeated message. `MaxBatch`, `SnapChunk` and `SnapGap` are the code's
configuration with small values. Larger instances were explored once and found nothing:
diverged logs at rest with two terms left (756 thousand states), reads from the initial
state (337 thousand, with symmetry), two messages in flight beside reads in all starts
(2.4 million).

Disk store: four calls and one crash, or three and two; indices to three, two terms,
batches of two, segments of two records. A crash and a second one inside the open that
follows, and a segment that goes while another stays, are within these.

Engine: two or three keys, one reader, three writes in groups of up to two, two restarts,
one `Restore`; a memtable is full with one version, one may wait, two similar tables are a run and three
tables too many (in the code: 4 MiB, two, four, and more than ten). It starts empty, with one table wider than
what is written, or with three that no run covers, so that both kinds of compaction and both
answers to "is this the bottom" occur. Starts with more writes beside a restart or a
`Restore` (up to 493 thousand states each) found nothing.

Memtable: every set of five keys, some a prefix of another, one of them written twice or deleted,
in blocks of two with a restart point at every other entry; beside two of them two
inserts into a skip list of two levels.

Sessions: two clients of two calls, over two groups, one request delivered twice, logs
of three entries. Moves: one shard of two keys in chunks of one, two groups (three in
MoveExclusive), two routers, and one of: two runs of `MoveShard` with a write, two with a late
request, one with both and a second write, one with a write and a read. Two runs with two writes
and a late request (4.6 million states) take more than five minutes and found nothing.

Deadlock is not checked: every model stops at its bounds.

### Fairness

CatchUp: weak fairness of `Heartbeat(i)` and of `Deliver(p, i)`, some message from
`p` to `i` is handled as long as there is one. The first is `Node.Run` ticking a leader
for ever; the second is what a stream that stays up gives, and without it Raft promises
nothing. No fairness is put on elections. The run's network loses nothing, and
heartbeats go out when few messages are in flight: with longer transfers and
reordering, repeated chunks can restart a transfer for ever, which the FIFO streams
of `kv/transport.go` exclude and this network does not.

Engine: weak fairness of the flusher and of the steps of whoever holds `installMu`. The
flusher is a goroutine that never returns while the store is open, and a job does
nothing but I/O that ends. Nothing is asked of the compactor, callers or readers.

## What is proved

The theorems hold for every set of servers, users, groups, routers and keys and every
value of the bounds, from the named assumptions on the constants (`RaftConstants`,
`KVGroupConstants`, `KVSessionsConstants`, `ShardMoveConstants`) and nothing else.

Raft, in five modules that extend one another: `RaftOperatorProofs` (what the log
operations and the messages are), `RaftActionProofs` and `RaftHandlerProofs` (one lemma
for each action and handler), `RaftProofs` and `RaftElectionProofs`.

- `TypeCorrect`: `Spec => []TypeOK`. `TypeOK` also says that a snapshot chunk lies
  inside its snapshot and that the commit index lies inside the log, so it is inductive
  only together with those.
- `VoteOnceCorrect`: terms do not decrease and a vote is not taken back. It follows
  action by action from `TypeOK`: every assignment to `vote` goes with a new term, or
  comes where there was none.
- `ElectionSafe`: `Spec => []ElectionSafety`. By itself `ElectionSafety` says nothing
  of votes on their way, so the invariant is `ElectionInv`: a ballot
  that was sent or counted is settled (its voter has that vote on disk or has moved
  to a later term, and has no ballot for anyone else in that term), and every winner
  of a term has a quorum settled on it. Two quorums intersect, and a voter is settled
  on one candidate.

Sessions, in `KVSessionsProofs` and `KVAnswersProofs`:

- `SessionsDistinct` and `ExactlyOnce`: `Spec => []SessionsUnique`, `Spec => []ExecutedOnce`.
  Neither says anything of attempts on their way or of the session tables, so the invariant
  `SessionInv` adds: a session is an index the meta group has passed (a new one
  differs from all there are), a request carries the session of its user and a number
  handed out, and whatever was executed is at or below the number in the session table of its
  group. A command that runs is above that number, so it did not run before.
  `Outstanding`, the number of calls a client has at a time, may be anything.
- `AnswersTrue`: `Spec => [](Outstanding = 1 => AckedExecuted)`. `AckInv` adds that the one call has
  the number handed out last, and that a session table holds the result of an
  execution of the command at its number: a repeat of the call is answered from there. The condition is
  needed: with two calls at a time `AckedExecuted` is false.

Moves, in `ShardMoveProofs`:

- `WritersExclusive`: `Spec => [](MovedOnce => OneWriter)`, where `MovedOnce` says that
  operators ask for at most one move of a shard, away from where it is. `MoveInv` says that a map that names
  another group than the first one for a shard, be it in the meta group, a cache, the
  hands of a mover or a late swap, exists only once the first group has dropped the shard; that
  a mover before its purge has the shard where it was; and that nothing on its way
  brings a dropped shard back. The compare-and-swap plays no part in it, and the maps that movers compare
  against may be any.

`SessionInv`, `AckInv` and `MoveInv` were also checked by TLC on the instances of the runs.

Only model-checked: every liveness property; the refinements of `StableLog` and
`DurableMap`, and all about the disk store, the engine and the tables, which rests on
folds over records and on what recursive definitions compute; `StateMachineSafety`,
`LeaderCompleteness`, `MatchTruthful`, `CommittedDurable`, `ReadsLinearizable`,
`NextInLog` and `TransferNeeded`; `PurgedElsewhere` and `LogReadsFresh`.

## What the models leave out

- Raft. Elections and heartbeats may happen at any time, so timers are not state.
  `fitBatch` keeps its limit on entries and not the one on bytes. The data of a
  snapshot is the prefix it stands for, the same on every node. A read that is
  queued until the leader may serve it starts as a `ReadIndex` action of its own.
  A message is lost when it is sent, as a full queue or a broken stream loses it. How `Node`
  settles the callers of `Propose` and `ReadIndex` when leadership is lost is not
  modelled: in `KVSessions` a request may fail, or be applied unanswered, at any time.
- Disk store. A write that fails makes the node panic, so it is a crash. After an open that
  fails nothing more happens; the refinement says nothing of it, and DiskReopen is about it.
- Engine. I/O errors, and what follows them, are left out. The removal of WAL segments is
  not synced by the code and final in the model. The WAL's rotation by size never happens under the engine,
  which rotates with the memtable. `Get` reads at once: the walk without locks is
  `Memtable`'s. `Export`, `Get` and `Scan` hold a version in the same way, so there is one reader
  for them. `memdb.go` is an ordered map under one mutex, for the simulator.
- Tables. Byte offsets, checksums and the hash function are abstracted; the hashes
  of the model's keys are chosen so that sums wrap round and bits coincide.
- State machine. `Snapshot`, `Restore` and the load after a restart (`openGroup`) are not
  modelled. A write refused because its shard moves is remembered in the session
  like any other result (`kv/statemachine.go:156-160`), and `Apply` does the same.
- Sessions. A `Client` is used by one goroutine at a time, as every caller in the
  repository does: with `Outstanding = 2` TLC finds `AckedExecuted` violated, because
  a command whose number is below the session's last is answered from the table and
  not executed. Groups are the sequences of commands their logs commit. Leader hints
  and backoff choose where an attempt goes, and every place is allowed.
- Moves. A scan page is one key; pairs have one size, so byte limits are limits on
  their number. A read carries no session. A call begins when it is first sent,
  which makes `LogReadsFresh` ask for more, not less. Freshness is stated of reads through the
  log only: `StateMachine.Get` checks the shard under its mutex and reads after releasing it
  (`kv/statemachine.go:306`), and a purge in between makes a key that exists look
  absent. One `MoveShard` and one other
  reload run in a router at a time. A shard moves once: `DESIGN.md:375-377` names
  requests delayed across two moves as not covered by the design, and
  `DESIGN.md:385-388` that a write retried after a move may be applied again. A router
  that dies keeps its cached map in the model; one that starts afresh reloads it,
  which is the same to everyone else.
- Not modelled: generated code, the simulator (a test harness), benchmarks,
  metrics, commands, the key hash (pure), the merge of a scan over groups.

## Possible extensions

1. The node driver: settling of proposals and reads when leadership is lost.
2. `Snapshot` and `Restore` of the state machine over `DurableMap`.
3. Snapshot transfer over FIFO streams, with its liveness; elections with timers;
   a move that is run again finishes.
4. Proofs: log matching and `StateMachineSafety`; `PurgedElsewhere`.
