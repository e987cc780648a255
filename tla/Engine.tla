------------------------------ MODULE Engine --------------------------------
(***************************************************************************)
(* The storage engine of storage/db.go: group commit through the WAL into  *)
(* a memtable, the flusher, the compactor and Restore, which rewrite the   *)
(* table set and the MANIFEST one at a time, readers that pin a version,   *)
(* and Open after a crash.  mu is held for single steps; installMu is      *)
(* held by the job, from its create to its end.  A goroutine that waits on *)
(* bgCond is in asleep until someone broadcasts.                           *)
(*                                                                         *)
(* A memtable is known by its WAL segment and a table by its file number,  *)
(* as each has one in the life of a process.  The size of a memtable or a  *)
(* table is the number of its versions.  I/O errors are not modelled.      *)
(***************************************************************************)
EXTENDS LSM, WAL

CONSTANTS
    Keys, Readers,
    Batches,        \* the batches callers write, each a sequence of operations
    Snapshots,      \* the exports Restore is called with, each a set of versions
    Policies,       \* when the WAL is synced: "always", with every append, or at an "interval"
    MemtableSize, maxImmutables, minRun, maxTables,
    MaxGroup, MaxWrites, MaxRestarts, MaxRestores     \* bounds of the model

VARIABLES
    wal, files, man,                    \* the directory: segments, tables, MANIFEST
    mems, cur, seq, flushedSeq, nextNum,    \* memtables, current version, counters
    gone,           \* tables to unlink when the last version lets go of them
    queue, w,       \* wqueue, and how far its head has committed its group
    asleep,         \* who waits on bgCond
    picked,         \* what the two loops picked before they took installMu
    job,            \* who holds installMu, and how far it is
    restoring,      \* the argument of the Restore under way
    rd,             \* the version and sequence number each reader holds; history: what it saw
    up,             \* "open", "down", "opening", or "failed"
    past,           \* history: the maps a crash may return to, and the current one
    policy,         \* Options.Sync
    writes, restarts, restores      \* counted against the bounds

disk == <<wal, files, man>>
tree == <<mems, cur, seq, flushedSeq, nextNum, gone>>
writing == <<queue, w>>
counts == <<policy, writes, restarts, restores>>
vars == <<disk, tree, writing, asleep, picked, job, restoring, rd, up, past, counts>>

None == <<>>
Partial == {[key |-> 0, seq |-> 0, kind |-> "partial", val |-> Absent]}     \* an unfinished table
Idle == [pc |-> "idle", n |-> 0, i |-> 0]
NoPicks == [flush |-> 0, compact |-> None]
NoJob == [kind |-> "none", pc |-> "none", num |-> 0, seg |-> 0]
NoVersion == [mem |-> 0, imm |-> <<>>, tables |-> <<>>]
-----------------------------------------------------------------------------
(* Versions, version.go.                                                   *)

withMemtable(v, seg) == [v EXCEPT !.mem = seg, !.imm = Append(@, v.mem)]

\* Bug: the new table goes behind the older ones.
withFlushed_Last(v, m, t) ==
    [v EXCEPT !.imm = SelectSeq(@, LAMBDA x : x # m), !.tables = @ \o t]

\* t is the new table, or nothing when none of the memtable was left.
withFlushed(v, m, t) ==
    [v EXCEPT !.imm = SelectSeq(@, LAMBDA x : x # m), !.tables = t \o @]

\* The tables with the run inputs replaced by out, in its place.
Replaced(tables, inputs, out) ==
    LET i == CHOOSE x \in DOMAIN tables : tables[x] = inputs[1]
    IN  SubSeq(tables, 1, i - 1) \o out \o SubSeq(tables, i + Len(inputs), Len(tables))

withCompacted(v, inputs, out) == [v EXCEPT !.tables = Replaced(@, inputs, out)]

\* A version lives while it is current or a reader holds it: its refs.
Live(c, r) == {c} \cup {r[x].v : x \in {y \in Readers : r[y] # None}}

TablesOf(vs) == UNION {Range(v.tables) : v \in vs}

MemtablesOf(vs) == UNION {{v.mem} \cup Range(v.imm) : v \in vs}

Keep(f, D) == [x \in DOMAIN f \cap D |-> f[x]]

Without(f, D) == [x \in DOMAIN f \ D |-> f[x]]

\* The release of versions: a table that is gone loses its file with the last
\* version that has it, a memtable its memory.
unref(fs, ms, g, live) ==
    /\ files' = Without(fs, g \ TablesOf(live))
    /\ gone' = g \cap TablesOf(live)
    /\ mems' = Keep(ms, MemtablesOf(live))

\* The tiers a reader of v consults, in its order.
Tiers(v) ==
    <<mems[v.mem]>> \o [i \in DOMAIN v.imm |-> mems[Reverse(v.imm)[i]]]
    \o [i \in DOMAIN v.tables |-> IF v.tables[i] \in DOMAIN files THEN files[v.tables[i]] ELSE {}]

Contents(v, n) == [k \in Keys |-> Get(Tiers(v), k, n)]

Broadcast == asleep' = {}
-----------------------------------------------------------------------------
(* Write and commit.                                                       *)

\* A caller puts its batch in the queue. None does while Restore runs.
Write_(ops) ==
    /\ up = "open" /\ restoring = None
    /\ Len(queue) < MaxGroup /\ writes < MaxWrites
    /\ writes' = writes + 1
    /\ queue' = Append(queue, [id |-> writes', ops |-> ops])
    /\ UNCHANGED <<disk, tree, w, asleep, picked, job, restoring, rd, up, past, policy,
                   restarts, restores>>

\* The head of the queue takes what is in it as its group.
TakeGroup ==
    /\ up = "open" /\ w.pc = "idle" /\ queue # <<>>
    /\ w' = [pc |-> "room", n |-> Len(queue), i |-> 0]
    /\ UNCHANGED <<disk, tree, queue, asleep, picked, job, restoring, rd, up, past, counts>>

\* Between the check for room and the wait, mu is not released. Rotation syncs.
makeRoom ==
    /\ up = "open" /\ w.pc = "room" /\ "writer" \notin asleep
    /\ LET full == Cardinality(mems[cur.mem]) >= MemtableSize
           stall == full /\ Len(cur.imm) >= maxImmutables
       IN  /\ asleep' = IF stall THEN asleep \cup {"writer"} ELSE asleep
           /\ w' = IF stall THEN w ELSE [w EXCEPT !.pc = "append"]
           /\ wal' = IF full /\ ~stall THEN Rotate(wal) ELSE wal
           /\ past' = IF full /\ ~stall THEN <<Last(past)>> ELSE past
    /\ UNCHANGED <<files, man, tree, queue, picked, job, restoring, rd, up, counts>>

\* The records of the group; batch.encode stores the sequence of the first operation.
Payloads ==
    [b \in 1..w.n |->
        [seq |-> seq + 1 + FoldLeft(+, 0, [x \in 1..b - 1 |-> Len(queue[x].ops)]),
         id  |-> queue[b].id,
         ops |-> queue[b].ops]]

\* The operations of the group, in order, as versions.
GroupVersions ==
    LET vs == UNION {Versions(p) : p \in Range(Payloads)}
    IN  [i \in 1..Cardinality(vs) |-> CHOOSE e \in vs : e.seq = seq + i]

AppendGroup ==
    /\ up = "open" /\ w.pc = "append"
    /\ wal' = Write(wal, Payloads)
    /\ w' = [w EXCEPT !.pc = IF policy = "always" THEN "sync" ELSE "install"]
    /\ UNCHANGED <<files, man, tree, queue, asleep, picked, job, restoring, rd, up, past, counts>>

SyncGroup ==
    /\ up = "open" /\ w.pc = "sync"
    /\ wal' = Sync(wal)
    /\ w' = [w EXCEPT !.pc = "install"]
    /\ UNCHANGED <<files, man, tree, queue, asleep, picked, job, restoring, rd, up, past, counts>>

\* A segment that was started for this group has a memtable of its own.
InstallMemtable ==
    /\ up = "open" /\ w.pc = "install"
    /\ w' = [w EXCEPT !.pc = "put"]
    /\ IF Segment(wal) # cur.mem
       THEN /\ cur' = withMemtable(cur, Segment(wal))
            /\ mems' = (Segment(wal) :> {}) @@ mems
            /\ Broadcast
       ELSE UNCHANGED <<cur, mems, asleep>>
    /\ UNCHANGED <<disk, seq, flushedSeq, nextNum, gone, queue, picked, job, restoring, rd, up,
                   past, counts>>

Put ==
    /\ up = "open" /\ w.pc = "put" /\ w.i < Len(GroupVersions)
    /\ mems' = [mems EXCEPT ![cur.mem] = @ \cup {GroupVersions[w.i + 1]}]
    /\ w' = [w EXCEPT !.i = @ + 1]
    /\ UNCHANGED <<disk, cur, seq, flushedSeq, nextNum, gone, queue, asleep, picked, job,
                   restoring, rd, up, past, counts>>

\* What a batch sets, by key.
Effect(ops, id) ==
    [k \in {op.key : op \in Range(ops)} |->
        LET i == Max({x \in DOMAIN ops : ops[x].key = k})
        IN  IF ops[i].kind = "put" THEN id ELSE Absent]

Effects(batches) == [i \in DOMAIN batches |-> Effect(batches[i].ops, batches[i].id)]

\* The calls under way. To the caller a Restore is a batch that sets every key.
Pending ==
    IF restoring = None THEN Effects(queue)
    ELSE <<[k \in Keys |-> Scan(<<restoring.vs>>, k, MaxSeq(restoring.vs))]>>

Promise == INSTANCE DurableMap WITH
    NoView  <- None,
    pending <- Pending,
    view    <- [r \in Readers |-> IF rd[r] = None THEN None ELSE rd[r].saw]

\* seq.Store: readers that come now see the group. Its writers return.
Publish ==
    /\ up = "open" /\ w.pc = "put" /\ w.i = Len(GroupVersions)
    /\ seq' = seq + w.i
    /\ queue' = SubSeq(queue, w.n + 1, Len(queue))
    /\ w' = Idle
    /\ LET states == Promise!Through(Last(past), Effects(queue), w.n)
       IN  past' = IF policy = "always" THEN <<Last(states)>> ELSE past \o states
    /\ UNCHANGED <<disk, mems, cur, flushedSeq, nextNum, gone, asleep, picked, job, restoring, rd,
                   up, counts>>

\* Sync, by a caller or by syncLoop.
SyncWAL ==
    /\ up = "open" /\ policy = "interval"
    /\ wal' = Sync(wal)
    /\ past' = <<Last(past)>>
    /\ UNCHANGED <<files, man, tree, writing, asleep, picked, job, restoring, rd, up, counts>>
-----------------------------------------------------------------------------
(* flushLoop, compactLoop and Restore.                                     *)

PickFlush ==
    /\ up = "open" /\ picked.flush = 0 /\ "flush" \notin asleep
    /\ IF cur.imm = <<>>
       THEN asleep' = asleep \cup {"flush"} /\ UNCHANGED picked
       ELSE picked' = [picked EXCEPT !.flush = cur.imm[1]] /\ UNCHANGED asleep
    /\ UNCHANGED <<disk, tree, writing, job, restoring, rd, up, past, counts>>

PickCompact ==
    /\ up = "open" /\ picked.compact = None /\ "compact" \notin asleep
    /\ LET sizes == [i \in DOMAIN cur.tables |-> Cardinality(files[cur.tables[i]])]
           p == pickCompaction(sizes, minRun, maxTables)
       IN  IF p = NoPick
           THEN asleep' = asleep \cup {"compact"} /\ UNCHANGED picked
           ELSE picked' = [picked EXCEPT !.compact = SubSeq(cur.tables, p[1], p[2])] /\ UNCHANGED asleep
    /\ UNCHANGED <<disk, tree, writing, job, restoring, rd, up, past, counts>>

\* flush takes installMu, and gives up when Restore has discarded the memtable.
LockFlush ==
    /\ up = "open" /\ job = NoJob /\ picked.flush # 0
    /\ IF cur.imm = <<>> \/ cur.imm[1] # picked.flush
       THEN picked' = [picked EXCEPT !.flush = 0] /\ UNCHANGED job
       ELSE job' = [NoJob EXCEPT !.kind = "flush", !.pc = "create"] /\ UNCHANGED picked
    /\ UNCHANGED <<disk, tree, writing, asleep, restoring, rd, up, past, counts>>

\* compact, likewise.
LockCompact ==
    /\ up = "open" /\ job = NoJob /\ picked.compact # None
    /\ IF picked.compact[1] \notin Range(cur.tables)
       THEN picked' = [picked EXCEPT !.compact = None] /\ UNCHANGED job
       ELSE job' = [NoJob EXCEPT !.kind = "compact", !.pc = "create"] /\ UNCHANGED picked
    /\ UNCHANGED <<disk, tree, writing, asleep, restoring, rd, up, past, counts>>

\* Restore, whose caller must not write concurrently.
Restore(vs) ==
    /\ up = "open" /\ job = NoJob /\ queue = <<>> /\ restores < MaxRestores
    /\ restores' = restores + 1
    /\ restoring' = [vs |-> vs]
    /\ job' = [NoJob EXCEPT !.kind = "restore", !.pc = "create"]
    /\ UNCHANGED <<disk, tree, writing, asleep, picked, rd, up, past, policy, writes,
                   restarts>>

\* allocNum, and a file that must not be there yet.
CreateTable ==
    /\ up = "open" /\ job.pc = "create"
    /\ IF nextNum \in DOMAIN files
       THEN up' = "failed" /\ UNCHANGED <<files, nextNum, job>>
       ELSE /\ nextNum' = nextNum + 1
            /\ files' = (nextNum :> Partial) @@ files
            /\ job' = [job EXCEPT !.pc = "finish", !.num = nextNum]
            /\ UNCHANGED up
    /\ UNCHANGED <<wal, man, mems, cur, seq, flushedSeq, gone, writing, asleep, picked, restoring,
                   rd, past, counts>>

\* The output of a compaction is the oldest table.
Bottom == Last(picked.compact) = Last(cur.tables)

NewTable ==
    CASE job.kind = "flush"   -> Filtered(mems[picked.flush], FALSE)
      [] job.kind = "compact" -> Filtered(UNION {files[n] : n \in Range(picked.compact)}, Bottom)
      [] job.kind = "restore" -> restoring.vs

\* The table is written and synced. flush and compact remove one with nothing in it,
\* Restore keeps it until its end.
FinishTable ==
    /\ up = "open" /\ job.pc = "finish"
    /\ files' = IF NewTable = {} /\ job.kind # "restore" THEN Without(files, {job.num})
                ELSE [files EXCEPT ![job.num] = NewTable]
    /\ job' = [job EXCEPT !.pc = IF job.kind = "restore" THEN "rotate" ELSE "manifest"]
    /\ UNCHANGED <<wal, man, tree, writing, asleep, picked, restoring, rd, up, past, counts>>

\* What the job made, as a list of no table or one.
Made == IF job.num \in DOMAIN files /\ files[job.num] # {} THEN <<job.num>> ELSE <<>>

RotateRestore ==
    /\ up = "open" /\ job.pc = "rotate"
    /\ wal' = Rotate(wal)
    /\ past' = <<Last(past)>>
    /\ job' = [job EXCEPT !.pc = "manifest", !.seg = Segment(wal')]
    /\ UNCHANGED <<files, man, tree, writing, asleep, picked, restoring, rd, up, counts>>

\* Bug: the memtables that wait for their flush are forgotten.
oldestSegment_Active == cur.mem

oldestSegment == IF cur.imm # <<>> THEN cur.imm[1] ELSE cur.mem

\* The file is written whole under another name; the rename makes it one step.
writeManifest(m) == man' = m

WriteManifest ==
    /\ up = "open" /\ job.pc = "manifest"
    /\ flushedSeq' = CASE job.kind = "flush" -> Max({flushedSeq, MaxSeq(mems[picked.flush])})
                       [] job.kind = "compact" -> flushedSeq
                       [] job.kind = "restore" -> MaxSeq(restoring.vs)
    /\ seq' = IF job.kind = "restore" THEN Max({seq, flushedSeq'}) ELSE seq
    /\ writeManifest(
           [nextNum |-> nextNum,
            lastSeq |-> flushedSeq',
            logNum  |-> CASE job.kind = "flush" -> picked.flush + 1
                          [] job.kind = "compact" -> oldestSegment
                          [] job.kind = "restore" -> job.seg,
            tables  |-> CASE job.kind = "flush" -> Made \o cur.tables
                          [] job.kind = "compact" -> Replaced(cur.tables, picked.compact, Made)
                          [] job.kind = "restore" -> Made])
    /\ job' = [job EXCEPT !.pc = "install"]
    /\ UNCHANGED <<wal, files, mems, cur, nextNum, gone, writing, asleep, picked, restoring, rd, up,
                   past, counts>>

\* Bug: the sleepers are not woken.
InstallFlush_Quiet ==
    /\ up = "open" /\ job.kind = "flush" /\ job.pc = "install"
    /\ cur' = withFlushed(cur, picked.flush, Made)
    /\ unref(files, mems, gone, Live(cur', rd))
    /\ job' = [job EXCEPT !.pc = "delete"]
    /\ UNCHANGED <<wal, man, seq, flushedSeq, nextNum, writing, asleep, picked, restoring, rd, up,
                   past, counts>>

InstallFlush ==
    /\ up = "open" /\ job.kind = "flush" /\ job.pc = "install"
    /\ cur' = withFlushed(cur, picked.flush, Made)
    /\ unref(files, mems, gone, Live(cur', rd))
    /\ Broadcast
    /\ job' = [job EXCEPT !.pc = "delete"]
    /\ UNCHANGED <<wal, man, seq, flushedSeq, nextNum, writing, picked, restoring, rd, up, past, counts>>

\* Bug: the inputs are marked after the old version has been released.
InstallCompact_MarkLate ==
    /\ up = "open" /\ job.kind = "compact" /\ job.pc = "install"
    /\ cur' = withCompacted(cur, picked.compact, Made)
    /\ files' = Without(files, gone \ TablesOf(Live(cur', rd)))
    /\ gone' = (gone \cup Range(picked.compact)) \cap TablesOf(Live(cur', rd))
    /\ mems' = Keep(mems, MemtablesOf(Live(cur', rd)))
    /\ Broadcast
    /\ job' = NoJob
    /\ picked' = [picked EXCEPT !.compact = None]
    /\ UNCHANGED <<wal, man, seq, flushedSeq, nextNum, writing, restoring, rd, up, past, counts>>

\* The inputs are marked gone, then the version without them is installed.
InstallCompact ==
    /\ up = "open" /\ job.kind = "compact" /\ job.pc = "install"
    /\ cur' = withCompacted(cur, picked.compact, Made)
    /\ unref(files, mems, gone \cup Range(picked.compact), Live(cur', rd))
    /\ Broadcast
    /\ job' = NoJob
    /\ picked' = [picked EXCEPT !.compact = None]
    /\ UNCHANGED <<wal, man, seq, flushedSeq, nextNum, writing, restoring, rd, up, past, counts>>

\* The restored table is the only one; what readers still hold goes with them.
InstallRestore ==
    /\ up = "open" /\ job.kind = "restore" /\ job.pc = "install"
    /\ cur' = [mem |-> job.seg, imm |-> <<>>, tables |-> Made]
    /\ unref(files, (job.seg :> {}) @@ mems, gone \cup Range(cur.tables), Live(cur', rd))
    /\ job' = [job EXCEPT !.pc = "delete"]
    /\ past' = Pending
    /\ restoring' = None
    /\ UNCHANGED <<wal, man, seq, flushedSeq, nextNum, writing, asleep, picked, rd, up, counts>>

\* The end of flush: WAL segments below the memtable's are no longer needed.
EndFlush ==
    /\ up = "open" /\ job.kind = "flush" /\ job.pc = "delete"
    /\ wal' = DeleteBefore(wal, picked.flush + 1)
    /\ job' = NoJob
    /\ picked' = [picked EXCEPT !.flush = 0]
    /\ UNCHANGED <<files, man, tree, writing, asleep, restoring, rd, up, past, counts>>

EndRestore ==
    /\ up = "open" /\ job.kind = "restore" /\ job.pc = "delete"
    /\ files' = IF Made = <<>> THEN Without(files, {job.num}) ELSE files
    /\ Broadcast
    /\ wal' = DeleteBefore(wal, job.seg)
    /\ job' = NoJob
    /\ UNCHANGED <<man, tree, writing, picked, restoring, rd, up, past, counts>>
-----------------------------------------------------------------------------
(* Readers: Get, Scan and Export take the version and the sequence number  *)
(* under one hold of mu, read at leisure, and let go.                      *)

acquire(r) ==
    /\ up = "open" /\ rd[r] = None
    /\ rd' = [rd EXCEPT ![r] = [v |-> cur, seq |-> seq, saw |-> Last(past)]]
    /\ UNCHANGED <<disk, tree, writing, asleep, picked, job, restoring, up, past, counts>>

Release(r) ==
    /\ up = "open" /\ rd[r] # None
    /\ rd' = [rd EXCEPT ![r] = None]
    /\ unref(files, mems, gone, Live(cur, rd'))
    /\ UNCHANGED <<wal, man, cur, seq, flushedSeq, nextNum, writing, asleep, picked, job, restoring,
                   up, past, counts>>
-----------------------------------------------------------------------------
(* Crashes, Close and Open.                                                *)

\* All that was in memory.
Lost ==
    /\ mems' = <<>> /\ cur' = NoVersion /\ seq' = 0 /\ flushedSeq' = 0 /\ nextNum' = 0 /\ gone' = {}
    /\ w' = Idle /\ asleep' = {} /\ picked' = NoPicks /\ job' = NoJob
    /\ rd' = [r \in Readers |-> None]

Crash ==
    /\ up \in {"open", "opening"} /\ restarts < MaxRestarts
    /\ restarts' = restarts + 1
    /\ up' = "down"
    /\ wal' \in AfterCrash(wal)
    /\ Lost
    /\ UNCHANGED <<files, man, queue, restoring, past, policy, writes, restores>>

\* Close waits for the two loops to end, and syncs the WAL. A write that waits for
\* room fails.
Close ==
    /\ up = "open" /\ restarts < MaxRestarts
    /\ w.pc \in {"idle", "room"} /\ job = NoJob /\ picked = NoPicks
    /\ restarts' = restarts + 1
    /\ up' = "down"
    /\ wal' = Sync(wal)
    /\ past' = <<Last(past)>>
    /\ Lost
    /\ UNCHANGED <<files, man, queue, restoring, policy, writes, restores>>

\* Bug: tables that no MANIFEST names stay.
removeStrayTables_None ==
    /\ up = "down"
    /\ up' = "opening"
    /\ UNCHANGED <<disk, tree, writing, asleep, picked, job, restoring, rd, past, counts>>

removeStrayTables ==
    /\ up = "down"
    /\ files' = Keep(files, Range(man.tables))
    /\ up' = "opening"
    /\ UNCHANGED <<wal, man, tree, writing, asleep, picked, job, restoring, rd, past, counts>>

\* The rest of Open: the tables are opened, the segments from logNum on replayed,
\* each into a memtable of its own, and the older ones deleted.
Open ==
    /\ up = "opening"
    /\ UNCHANGED <<files, man, w, asleep, picked, job, rd, counts>>
    /\ LET recs == SelectSeq(Replayed(wal), LAMBDA x : x.seg >= man.logNum)
           segs == {x.seg : x \in Range(recs)}
           vs(s) == UNION {Versions(x.rec) : x \in {y \in Range(recs) : y.seg = s}}
           bad == Corrupt(wal) \/ \E n \in Range(man.tables) : n \notin DOMAIN files \/ files[n] = Partial
       IN  IF bad
           THEN up' = "failed" /\ UNCHANGED <<wal, tree, queue, restoring, past>>
           ELSE /\ up' = "open"
                /\ wal' = DeleteBefore(OpenWAL(wal), man.logNum)
                /\ cur' = [mem |-> Segment(wal'), imm |-> SetToSortSeq(segs, <), tables |-> man.tables]
                /\ mems' = [s \in segs \cup {Segment(wal')} |-> IF s \in segs THEN vs(s) ELSE {}]
                /\ seq' = Max({man.lastSeq} \cup {MaxSeq(vs(s)) : s \in segs})
                /\ flushedSeq' = man.lastSeq
                /\ nextNum' = man.nextNum
                /\ past' = <<Contents(cur, seq)'>>
                /\ queue' = <<>> /\ restoring' = None
                /\ UNCHANGED gone
-----------------------------------------------------------------------------
\* A store that was just opened on tables, newest first, with nothing in its WAL.
Opened(tables) ==
    /\ wal = NewWAL
    /\ files = [i \in DOMAIN tables |-> Reverse(tables)[i]]
    /\ man = [nextNum |-> Len(tables) + 1, lastSeq |-> MaxSeq(UNION Range(tables)), logNum |-> 1,
              tables |-> [i \in DOMAIN tables |-> Len(tables) + 1 - i]]
    /\ mems = 1 :> {}
    /\ cur = [mem |-> 1, imm |-> <<>>, tables |-> man.tables]
    /\ seq = man.lastSeq /\ flushedSeq = man.lastSeq /\ nextNum = man.nextNum
    /\ gone = {} /\ queue = <<>> /\ w = Idle /\ asleep = {} /\ picked = NoPicks
    /\ job = NoJob /\ restoring = None /\ rd = [r \in Readers |-> None] /\ up = "open"
    /\ past = <<Contents(cur, seq)>>

Init == Opened(<<>>) /\ policy \in Policies /\ writes = 0 /\ restarts = 0 /\ restores = 0

Commit == TakeGroup \/ makeRoom \/ AppendGroup \/ SyncGroup \/ InstallMemtable \/ Put \/ Publish

flushLoop == PickFlush \/ LockFlush

compactLoop == PickCompact \/ LockCompact

Job ==
    \/ CreateTable \/ FinishTable \/ RotateRestore \/ WriteManifest
    \/ InstallFlush \/ InstallCompact \/ InstallRestore \/ EndFlush \/ EndRestore

Next ==
    \/ \E b \in Batches : Write_(b)
    \/ \E s \in Snapshots : Restore(s)
    \/ \E r \in Readers : acquire(r) \/ Release(r)
    \/ Commit \/ SyncWAL \/ flushLoop \/ compactLoop \/ Job
    \/ Crash \/ Close \/ removeStrayTables \/ Open

\* The flusher runs, and so does whoever holds installMu.
Fairness == WF_vars(flushLoop) /\ WF_vars(Job)

Spec == Init /\ [][Next]_vars /\ Fairness
-----------------------------------------------------------------------------
TypeOK ==
    /\ up \in {"open", "down", "opening"}
    /\ \A s \in DOMAIN wal : wal[s].synced \in 0..Len(wal[s].recs)
    /\ up = "open" =>
        /\ \A n \in DOMAIN files \cup Range(man.tables) : n < nextNum
        /\ gone \subseteq DOMAIN files
        /\ MemtablesOf(Live(cur, rd)) = DOMAIN mems
        /\ asleep \subseteq {"writer", "flush", "compact"}
        /\ w.n <= Len(queue)

\* Writes, syncs, flushes, compactions, restores and crashes keep the promise of
\* DurableMap: batches take effect whole and in order, and whatever of them was on
\* disk when the process died, Open finds a state no older than the last sync.
Implements == Promise!Spec

\* What Get finds is the map: now, and for a reader, as long as it reads, the map as it
\* was when it began, whatever is written, flushed, merged, unlinked or restored.
ReadsAgree ==
    up = "open" =>
        /\ Contents(cur, seq) = Last(past)
        /\ \A r \in Readers : rd[r] # None => Contents(rd[r].v, rd[r].seq) = rd[r].saw

\* The first tier that has a key has its newest version, so Get, which stops there,
\* agrees with Scan and Export, which merge all: the tables stay in the order of their
\* age.
TiersInOrder ==
    up = "open" => \A v \in Live(cur, rd) :
        LET tiers == Tiers(v)
            copy == exportIter(UNION Range(tiers), seq)
        IN  \A k \in Keys : /\ Get(tiers, k, seq) = Scan(tiers, k, seq)
                           /\ Get(tiers, k, seq) = Get(<<copy>>, k, seq)

\* When nothing is running and no one reads, the table files are those of the current
\* version, and the WAL has no records older than its memtables.
NothingLeftBehind ==
    (up = "open" /\ job = NoJob /\ \A r \in Readers : rd[r] = None) =>
        /\ DOMAIN files = Range(cur.tables)
        /\ \A s \in DOMAIN wal : wal[s].recs # <<>> => s >= oldestSegment

\* A write that waits for the flusher gets its room.
StallEnds == "writer" \in asleep ~> "writer" \notin asleep
=============================================================================
