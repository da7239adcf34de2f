# Specifications of ShardForgeDB

TLA+ modules of the storage engine, the replication journal, pull replication,
planned failover, the background worker, the in-process replica store, the
sharded store, the vector store and the routing proxy of ShardForgeDB, with the
TLC runs that check them on small instances and the TLAPS proofs of their safety
properties for instances of any size.

`PROJECT.json` lists the components, the runs, the faulty variants each property
is tried against, the source lines each definition stands for, the hazards and
the theorems.

## 1. The system

ShardForgeDB is a key-value store. An **engine** keeps one directory: a
write-ahead log, a MemTable, SSTables with Bloom sidecars and a manifest. A
**node** serves one engine over HTTP. A primary also keeps a replication
**journal**; a follower pulls it, on demand or by a **background worker**. A
**failover** is planned by an operator: quiesce the primary, let the follower
catch up, promote it. Apart from the nodes there are an in-process
leader/follower **replica store**, a **shard store** over a hash ring, a
gateway and a proxy that route by the ring, and tools.

| Component | State it keeps | Operations | What makes it correct | What is hard |
|---|---|---|---|---|
| Storage engine (`engine`, `wal`, `memtable`, `sstable`, `bloom`) | log, tables, sidecars, manifest on disk; MemTable, handles, counters in memory | Open, Put, Delete, Get, Scan, Flush, Compact, Close | an acknowledged write is read until overwritten; the manifest names complete tables; maintenance changes no answer | a crash between any two files of Flush and Compact; undoing a failed step; partial frames; two number spaces for records |
| Journal (`replnet/durable_log.go`, `journal_baseline.go`) | records, baseline; index, next number, poisoned flag | OpenDurableLog, Append, EntriesAfter, CreateJournalBaseline, Close | what was acknowledged stays; numbers without gaps; history never rewritten | failed rollback; partial tails; power loss; the last number; starting at a baseline |
| Replica sync (`node/server.go`, `handlers.go`, `replnet/replicator.go`, `state_store.go`) | both engines, journal, cursor in memory and on disk | PUT, DELETE, explain, SyncFromPrimary, apply, restart | the follower holds the prefix its cursor says and catches up | concurrent handlers and appliers; crash between engine and cursor |
| Quiesce and promotion (`node/handlers.go`, `quiesce.go`, `replnet/*_store.go`, `quiesce_intent.go`) | intent, quiesce record, baseline, promotion record, cursor; role, gate, barrier | quiesce, retry, promote, role at startup | at most one writable primary; nothing acknowledged missing; the fence is final | requests past the gate; syncs past the barrier; a crash between any two records |
| Background worker (`node/background_sync.go`) | goroutine, status, backoff, failure count | start, stop, doSync, restart after a failed promotion | goes on after failures, is given back, ends with Close | start racing stop; Close with `s.mu` held; skipped syncs |
| Replica store (`replica`) | log, COMMIT, an APPLIED and an engine per replica, manifest; indexes, pause and lag in memory | Open, Put, Delete, Get, Scan, ReplicateOnce, ReplicateAll, pause, lag, Flush, Compact, Close | committed means durable; followers see committed operations only, in order | each step of a write may fail; operations applied twice after a restart |
| Shard store and ring (`shard`) | SHARDING.json, one engine per shard; ring and options in memory | Open, Put, Get, Delete, Scan, Flush, Compact, Close | each key has one shard, the same after a reopen with whatever options are accepted; the shards are one dictionary | an Open that fails half way; a scan that is no snapshot; a shard that closed itself |
| Gateway and proxy (`gateway`, `proxy`, `node/client.go`) | ring and node list, fixed at start; the server's life | PUT, GET, DELETE, requests to all nodes, status, Close, a restart with another configuration | same key, same node; no stale read; Close lets requests end | timeouts and late answers; Close with `s.mu` held; keys that move without their data |
| Operations tools (`ops`) | none | rebalance plan, failure simulation, health | the plan predicts the rings | weights, ties between points |
| Vector store (`vector`) | an index in memory over the records of an engine | Open, Upsert, Delete, Get, Search, Flush, Close | the index is what the engine holds; a search answers the best of one moment | failed writes between engine and index; the reload; sorting outside the lock |
| In-memory log, cluster metadata, dashboard, trace, bench, logging, configuration, commands | none that is shared | validation, reports, wiring | - | - |

How the components meet:

* the node's write handlers call `eng.Put` and then `durableLog.Append`, with no
  lock around both; a primary's quiesce record contains the journal's last
  number, and a promotion turns that number into the new journal's baseline;
* the worker, POST /replication/sync and POST /replication/apply all end in
  `applyReplicationEntriesLocked`; a promotion excludes the three by a barrier,
  the flag `syncInProgress` and `replicationMutationMu`;
* `Close` stops the worker, then the HTTP server, then journal and engine;
* the replica, shard and vector stores call engines and nothing else;
* the proxy's handlers call the gateway, which calls one node for a key and every
  node for the rest; the tools build the same ring from the same configuration.

## 2. The modules

| Module | Models | Its state and actions |
|---|---|---|
| `KVStore` | the abstract specification of the engine: a dictionary in which an acknowledged write is durable and one that failed may surface at a restart | `store`, `acked`, `unsure`; `Acknowledge`, `Refuse`, `Stop`, `StopInWrite` |
| `StorageEngine` | `internal/engine` with `wal` and `memtable`, and the files of `sstable` and `bloom` | Put, Delete, Open, Close are one step each (they change one file under `e.mu`); Flush and Compact are split by `pc` at each change of the disk, with the failure of each step and a crash everywhere |
| `DurableLog` | the journal and its baseline | one action per call and per way it can fail; `tail` is what a cut write leaves, `synced` what a power loss cannot take |
| `ReplicaSync` | a primary and a follower: write handlers, journal, pulls, applies, cursors | a handler is split between engine and journal; an apply is split at each entry between engine and `lastApplied`, and before the cursor file |
| `Cutover` | quiesce, promotion and the resolution of the role at startup | the handlers are split at each lock and each saved file; `issued` are the quiesce records in the operator's hands |
| `BackgroundSync` | the worker's goroutine and Start, Close, promotion and HTTP syncs beside it | split at each wait, lock and flag; `muHeld` is the `s.mu` that Close keeps; a promotion goes on step by step to its record (`record`), before which a failure undoes it and after which it does not |
| `ReplicaStore` | `internal/replica` | every operation holds `s.mu`: one action, with a variant for each step it may stop at; ReplicateAll is a sequence of rounds |
| `HashRing` | both consistent-hash rings | a ring is the member found at each occupied hash; points of equal hash stand in any order (gateway, sorted by hash alone) or in that of the shard IDs |
| `ShardStore` | `internal/shard` over engines that keep the promises of `KVStore` | one action per call; Open chooses or compares the manifest; a scan is split at each shard; an engine may fail a write, an Open, or close itself in a Flush |
| `Gateway` | `internal/gateway`, `internal/proxy`, the node's client, and the plans of `internal/ops` | a request is accepted, its body read, routed, served, answered and its answer taken in steps of their own; a given-up write stays in `late`; Close is split around Shutdown; Restart takes another configuration |
| `VectorStore` | `internal/vector` over a `KVStore` | a write changes engine and index in one step under `s.mu`; a search is split at the lock it takes and where it releases it |
| `MC...` | instances for TLC | symmetry sets, vectors, hashes |
| `StorageEngineProofs`, `DurableLogProofs`, `ReplicaSyncProofs` (with `BackgroundSync`), `CutoverProofs`, `ReplicaStoreProofs`, `ShardStoreProofs`, `GatewayProofs`, `VectorStoreProofs` | the proofs | section 5 |

Components meet at abstract specifications instead of being pasted together:
`StorageEngine` implements `KVStore` (the property `Implements`, a refinement
mapping in which `store` is what a reader, or a restart, would be told), and the
modules above it use an engine as such a dictionary: `VectorStore` instantiates
`KVStore` for its engine and takes its steps. What is built on engines is shown to
be such a dictionary again: `VectorStore` (with `store` the index while it is open,
the engine while it is closed) and `ShardStore` (with `store[k]` what the shard of
`k` holds) implement `KVStore` as well. `ReplicaSync` uses the journal as the list
that `DurableLog` shows it to be.

Abstractions. Keys, values and operations are model values or small numbers
(keys of the engine are ordered, because tables have bounds). A frame, record or
file is whole, torn or absent; checksums and layout are not spelled out. A Bloom
filter is the set of keys it accepts. A rename is atomic. A crash is the death of
a process and keeps what the system was given; only `DurableLog` also has power
losses. Every count of faults, crashes and writes that would make the state space
infinite is a `Max...` constant, kept in `used`.

Several definitions are followed by a sibling marked "Faulty variant": the same
definition with a plausible mistake. A specification never uses them. Putting one
in the place of the definition it mirrors must break the property that
`PROJECT.json` names with it, in that property's own run, which shows that the
property can see the mistake.

## 3. The runs

Every run stops where its bounds are used up, which is why deadlock is not
checked.

### Runs that pass

| Run | Module | Asks |
|---|---|---|
| `eng_restart` | `StorageEngine` | `ManifestComplete`, `HandlesMatchManifest`, `Durable`, and the refinement of `KVStore` |
| `eng_compact` | `StorageEngine` | `MaintenanceKeepsReads`, `ScanMatchesGet` (with ExplainGet), `ListedFilesImmutable`, `LossOnlyWhenBuried` |
| `log` | `DurableLog` | `AcksSurvive`, `OnlyHeaderBlocks`, `ReadsExact`, `AppendOnly` |
| `sync` | `ReplicaSync` | `PrefixState`, `MirrorsPrimary`, `CursorCovered`, `CatchesUp` |
| `cutover` | `Cutover` | `AtMostOneWritable`, `PromotedComplete`, `StartupResolves`, `QuiesceIsFinal`, `OneQuiesceRecord` |
| `bg` | `BackgroundSync` | `WorkerRestored`, `NothingAfterClose`, `KeepsSyncing`, `CloseReturnsAlone` |
| `rep` | `ReplicaStore` | `OnlyCommittedApplied`, `LeaderServesAcked`, `FollowerBetween`, `AllCaughtUp`, `ReplicateAllReturns` |
| `shard` | `ShardStore` | `OneHome`, `ScanIsCurrent`, and the refinement of `KVStore` |
| `gateway` | `Gateway` | `AckedVisible`, `ServedOnce`, `MovesAsPlanned`, `NoneRefused`, `CloseReturns` |
| `vector` | `VectorStore` | `SearchIsSnapshot`, and the refinement of `KVStore` |

Every module also states its types (`TypeOK`), which no run checks by itself: they
are part of the inductive invariants of section 5, and so proved. The definitions
between the properties of a module and its `IInv` are the other parts of these
invariants.

The bounds and why they are enough:

* `eng_restart`: 2 keys, 3 writes, 3 openings, 1 I/O error, crashes without
  number. Two keys give tables with bounds and filters that differ; three
  openings let a crash happen in the recovery from a crash; three writes let a
  key be overwritten and deleted on both sides of a flush. Compaction is left to
  the next run: after a restart it is wrong (below), and one wrong step would hide
  the rest.
* `eng_compact`: 2 keys, 4 writes, one life of the engine, one compaction, one
  I/O error, one partial frame, a filter with a false positive. A compaction needs
  two tables, so that each may hold two keys, one of them a tombstone.
* `log`: 4 sequence numbers, so that the last one, which must not be given out,
  is reached; 3 openings, 2 failing operations, 2 power losses, every kind of
  partial record, every baseline.
* `sync`: one key written twice (PUT or DELETE), batches of one entry for the
  sync and of up to two for an apply, one failure of each kind and one crash of
  each side. All properties are about single keys or numbers; a second key adds
  nothing to the order of the writes to one.
* `cutover`: 3 writes by 2 concurrent requests, 3 quiesce IDs, 2 failing file
  operations, 1 failing append, 3 crashes: enough to fail, crash, retry and crash
  in the retry of each of the two protocols.
* `bg`: 2 requests, 3 failures (the backoff reaches its maximum), one gap, two
  promotions, each of which may be refused, fail before its record or after it, or
  succeed.
* `rep`: 3 replicas, so that an error at one follower leaves another behind; 2
  logged operations, 2 openings, 2 faults, lag limits "none" and 2.
* `shard`: 1 or 2 shards with 1 or 2 virtual nodes (or the default, 2), so that
  both options can be right, wrong or left out; the hashes give one shard both keys
  or each shard one, with a key that wraps around and two points of equal hash. 3
  openings, 3 writes, 2 faults: a failed Open, a reopening with other options, and
  a write or a scan on what that leaves.
* `gateway`: three nodes of which two or three are configured (see `MCGateway`),
  with weights and 2 virtual nodes, and two restarts, so that a node is added,
  removed, put back and given another weight. All properties are about single
  keys, so one key does; one hash function puts it past the last point, where it
  wraps around, the other gives two nodes a point of one hash. 2 clients make
  concurrent writes to the key.
* `vector`: 3 IDs, one of which begins with 0xff; vectors of two dimensions, so
  that Open may meet a record it refuses, and a zero vector, which one metric
  refuses and another stores; 3 writes around 1 search, 1 fault, 2 openings.

Some properties name their own exception, because the code breaks the statement
without it: `OnlyHeaderBlocks` (a journal cut behind a length field),
`AppendOnly` (power losses), `PrefixState` (a sync and an apply at once),
`MirrorsPrimary` (explain writes, failed appends, crashes of the primary),
`PromotedComplete` (a failed append),
`WorkerRestored` and `KeepsSyncing` (a promotion that failed after its record was
written), `CloseReturnsAlone` (requests in flight), `LossOnlyWhenBuried`,
`CloseReturns` (a GET /status in flight, or a request that waits for its client),
`AckedVisible` (keys that a new ring moved away from
their data), `MovesAsPlanned` (points of equal hash), `Implements` of `VectorStore`
(IDs that begin with 0xff). Section 4 says what happens in each.

Some hazards of `PROJECT.json` therefore have no property, and a note says why. At
these places the code does what no property could state as true: a journal append
that fails (`node/handlers.go:128`), a promoted node quiesced in its turn
(`node/server.go:374`), the deadlocks of the two `Close` (`node/server.go:346`,
`proxy/server.go:150`), a node that is put back with old data
(`ops/rebalance.go:18`), IDs that begin with 0xff (`vector/store.go:219`). The others
are outside the models: power losses of the engine and of SHARDING.json, and a log of
the replica store that cannot be opened again (`replica/log.go:244`).

### Fairness

Only `sync`, `bg`, `rep` and `gateway` use fairness, always weak and only for goroutines
that run by themselves. `ReplicaSync!LiveSpec`: the worker calls SyncFromPrimary
again and again, which `BackgroundSync` shows under its own assumptions, and a
call that neither fails nor crashes takes its steps. `BackgroundSync!WorkerLiveSpec`:
the worker's goroutine, a running promotion, a running Close and a running request
go on; nobody is forced to call any of them, to send the body of a request
(`PromoteReads`) or to take its answer (`PromoteAnswered`, `HandlerAnswered`), and a
promotion need not fail after its record (`PromoteFailsLate`). `ReplicaStore!LiveSpec`: the loop of
ReplicateAll goes on, under a lock that nobody takes from it. `Gateway!Fairness`:
a handler that was started runs, the HTTP client of a node gives a call up at its
timeout, Shutdown notices that the last request is gone; no node is assumed to
answer, and no client of the proxy to send the rest of its body (`BodyRead`) or to
take its answer (`AnswerTaken`), because the `http.Server` has no timeouts
(`proxy/server.go:106`, `:131`). Locks are not
assumed to be fair: what waits for `s.mu` or `replicationMutationMu` is enabled
for good once the holder is done.

## 4. Where code and text disagree

Each of these two runs checks one statement and finds it violated.

* `eng_compact_reopened` (`MaintenanceKeepsReads`): the log numbers its records
  from 1 in each file and `Open` stamps replayed entries with those numbers, below
  the numbers in the tables. A table flushed after a restart can so carry smaller
  numbers than an older one, and the merge of `compact` brings the older value, or
  a deleted key, back. Within one life of the engine the property holds
  (`eng_compact`).
* `sync_two_writers` (`MirrorsPrimary`): two handlers writing one key reach the
  engine in one order and the journal in the other.

Other disagreements met while modelling. They have no run of their own; the
properties that pass name them as exceptions, and the changes given here make TLC
show each one:

* `Replay` stops at a partial frame and leaves it in the file; `Open` appends
  behind it, and the next replay does not reach the new records: it ends there
  without an error, as the model has it, or takes what follows for a corrupt record
  (`wal.go:257-286`) and `Open` is refused, which changes nothing and is no step.
  `docs/ARCHITECTURE.md:62` says the log never silently drops records. `Durable`
  with `MaxTorn = 1` and three openings; `LossOnlyWhenBuried` shows that there is
  no other way to lose a write.
* With 4 length bytes and nothing behind them `io.ReadFull` answers `io.EOF`, which
  `replay` of the journal does not take for a partial tail
  (`durable_log.go:162` says it does): the primary does not start.
  `ReopenSucceeds`.
* The node's `Close` holds `s.mu` while `Shutdown(context.Background())` waits for
  requests, and one of them may wait for `s.mu`, or for its client: a body that does
  not come or an answer nobody takes, without a timeout on the server
  (`node/server.go:258`, `:303`). `CloseReturns` of `BackgroundSync`, which no run
  checks; `CloseReturnsAlone` says that nothing else keeps Close from returning.
* The proxy's `Close` does the same (`proxy/server.go:150`) to a GET /status, whose
  handler calls `Addr`, and waits as long for a PUT whose body stalls
  (`proxy/handlers.go:111`) and for an answer nobody takes. `CloseReturns` of
  `Gateway` without its exceptions.
* A promotion that fails after its record was written (the journal does not open)
  returns with the barrier up, the role still follower and the worker stopped
  (`node/handlers.go:956-964`). That is what the comment at `handlers.go:847` says, and
  `node/server.go:839` speaks of failures before the commit only.
  Until it is restarted, as a primary, the node is an open follower that takes no
  sync and has no worker: `WorkerRestored` without its `IF record`, `KeepsSyncing`
  without `record`.
* `loadIndex` of the vector store ends its scan at the prefix and one byte 0xff: an
  ID that begins with this byte is stored, found until Close, and gone after the
  next Open (`vector/store.go:45` says the entire namespace is reloaded).
  `Implements` with `LowIds == Ids`.
* In the results of `SimulateFailure` a key of a node that is down is affected and
  never "moved", and no other key moves when a node is left out of the ring: the
  count of moved keys is always 0. `MovesAsPlanned` states it as `~impact[k].moved`.
* After a restart `Scan` can answer an older value than `Get`, for the same reason
  as the compaction: `ScanMatchesGet` with one key, two values and `MaxOpens = 2`.
* A record that a crash left whole and not fsynced is taken up and served by the
  next open; a power loss takes it back and its number is given away again:
  `AppendOnly` without its condition.
* A sync and a POST /replication/apply may run at once, both under the shared side
  of `replicationMutationMu` (`docs/BACKGROUND_REPLICATION_DESIGN.md:179` says at
  most one apply is in flight): `PrefixState` without `~mixed`.
* POST /explain/put and /explain/delete write the engine and not the journal, and
  the write handlers drop the error of `durableLog.Append`: `MirrorsPrimary` and
  `PromotedComplete` without their exceptions.
* A promoted node that is quiesced in its turn is writable after a restart, since
  `resolveRuntimeRole` returns before it looks at the quiesce files
  (`docs/MANUAL_PROMOTION_DESIGN.md:86-87` says forever): `QuiesceIsFinal` with
  both nodes in `QuiesceNodes`.
* A skipped sync resets the backoff (`docs/BACKGROUND_REPLICATION_DESIGN.md:136`
  and `:171` say it does not): `Settle` models the code.
* In the replica store a record whose write failed is committed by the next write
  and given to the followers (`store.go:216-217`, `docs/DESIGN.md:1096` and `:1104`
  say it never is): `FailedNeverReplicated`. A follower restarted without its last
  APPLIED answers ahead of its applied index (`docs/DESIGN.md:1080`):
  `FollowerReadsApplied`. `docs/DESIGN.md:1049` still says that the commit index is
  reconstructed from the log, which line 1096 and the code contradict.

## 5. The proofs

Each proof module extends the module it is about; `ReplicaSyncProofs` extends two,
`ReplicaSync` and, for its last section, `BackgroundSync`, the worker that calls what
`ReplicaSync` models. What a proof takes for granted is the `ASSUME` on these modules'
constants and, where a theorem says so, one hypothesis more.
Nothing bounds the number of keys, nodes, requests, restarts, faults or crashes: the
`Max...` constants are any naturals.

A safety property is seldom inductive. Each module therefore ends with named parts
of a stronger `IInv` (`WorkerInv` in `BackgroundSync`). TLC checks it on the instance
of the module's run, and the proof shows `Init => IInv` and that each action keeps
each part. `InductiveInvariant` states `Spec => []IInv`; every `PAlways` states the
property `P` of section 3.

| Module | Theorems beside `InductiveInvariant` | Hypotheses | TLC on `IInv`: distinct states |
|---|---|---|---|
| `StorageEngineProofs` | `TypeCorrect`, `ManifestAlwaysComplete`, `HandlesAlwaysMatch`, `SeqAlwaysFresh`, `LiveTablesUntouched` | - | 428,191 and 757,949 (`eng_restart`, `eng_compact`) |
| | `ReadsInvariant`, `ScanMatchesGetAlways`, `DurableAlways` | conditions inside the formula | the same |
| | `MaintenanceKeepsReadsAlways`, `LossOnlyWhenBuriedAlways` | one life, or no compaction | |
| | `ImplementsDictionary` | the same, and no partial frame | |
| `DurableLogProofs` | `AcksSurviveAlways`, `OnlyHeaderBlocksAlways`, `AppendOnlyAlways`, `ReadsExactAlways` | - | 11,601 |
| `ReplicaSyncProofs` | `CursorCoveredAlways`, `PrefixStateAlways` | - | 1,670,824 (the run's with a second key) |
| | `MirrorsPrimaryAlways`, `UpToDateAgrees` | one write request at a time | |
| | `WorkerInvariant`, `WorkerRestoredAlways`, `NothingAfterCloseAlways` | - | 184,271 (the run `bg`) |
| `CutoverProofs` | `TypeCorrect`, `AtMostOneWritableAlways`, `PromotedCompleteAlways`, `StartupResolvesAlways` | - | 224,612 |
| | `QuiesceIsFinalAlways`, `OneQuiesceRecordAlways` | only the configured primary is asked to quiesce | |
| `ReplicaStoreProofs` | `TypeCorrect`, `OnlyCommittedAppliedAlways`, `LeaderServesAckedAlways`, `FollowerBetweenAlways`, `AllCaughtUpAlways` | - | 484,039 |
| `ShardStoreProofs` | `OneHomeAlways`, `ScanIsCurrentAlways`, `ImplementsDictionary` | - | 194,785 |
| `GatewayProofs` | `NoneRefusedAlways`, `AckedVisibleAlways`, `ServedOnceAlways`, `MovesAsPlannedAlways` | - | 394,381 |
| `VectorStoreProofs` | `SearchIsSnapshotAlways`, `ImplementsDictionary` | - | 1,560,344 |

The hypotheses are not conveniences. Each one excludes what section 4 describes:
"one life, or no compaction" is the negation of `eng_compact_reopened`, "one write
request at a time" that of `sync_two_writers`, "no partial frame" excludes records
appended behind one, and a promoted node that is asked to quiesce is writable
after its next restart. The instances of the passing runs satisfy them.

### The arguments

**The engine, its files.** `IInv` is `TypeOK /\ FileIDs /\ ManifestComplete /\
HandlesMatchManifest /\ SeqBounds`. `ManifestComplete` is not inductive by itself:
a commit keeps it only if the table built before it is complete, and an undo or a
removal keeps it only if the file it removes is not listed. `FileIDs` says both:
the ID being built is above all listed ones, its files are there step by step, and
the tables to remove after a compaction are not listed any more. `SeqFresh` needs
`SeqBounds`: the numbers in the log are bounded by the writes tried, those in the
tables by the manifest's `next_seq`, those of the MemTable by `nextSeq`. A step that
leaves the manifest alone keeps what it lists (`ManifestKept`, `FilesKept`), a
commit adds a complete table (`CommitOK`), the merge takes its entries from its
sources (`MergeFromSources`).

**The engine, its answers.** `Get` goes by position (MemTable, then tables from the
newest), `Scan` and `compact` by sequence number. `ReadsInv` adds to `IInv` that
the table being built is a copy of what it will replace (`Built`), that position
and number order the records of every key alike (`Ordered`), and that the log tells
of every write the MemTable holds (`Logged`). The first makes a commit invisible,
the second makes Scan agree with Get and lets a merge keep the newest record, the
third makes a restart answer as before. `Ordered` is lost in the second life of an
engine, whose log is numbered from 0 again, and `Logged` with the first compaction
after that, since the merge may bring an old value back. `InOrder` (at most one
opening so far) and `Calm` (`InOrder`, or no compaction so far) say up to where the
parts hold, and are conditions on the history, not on the instance, wherever the
property is one of states. `ImplementsDictionary` maps each step to one of `KVStore`:
a successful write to `Acknowledge`, a failed one to `Refuse`, a crash or Close to
`Stop`, a crash in a write to `StopInWrite`, and every step of Flush, Compact and Open
to a stutter.

**The journal.** Records follow the baseline without a gap (`NumberedInv`), an open
log has indexed all that it serves (`OpenInv`), and without a power loss the file
keeps what was ever served (`ServedInv`). The binary search of EntriesAfter is proved
right for an index of any length (`SearchAfterIs`), as a descent: of the windows in
which it is wrong one is narrowest, and a round looks at a narrower one.

**Replica sync.** The follower's engine holds what the entries up to the furthest
one applied make, but for keys that an entry already applied, and to be passed again
after a restart, writes (`EngineInv`); going back to the cursor keeps this because
everything between was applied (`CursorCovered`). With one writer and nothing that
keeps a write from the journal, the primary is ahead of its journal by the write in
flight (`MirrorInv`). `UpToDateAgrees` joins the two: a follower with lag 0 holds
what the idle primary holds.

**Cutover.** `PrimaryInv` ties the primary's files to its memory and to the quiesce
request under way, `IssuedInv` says that a record in the operator's hands is the
final record on the primary's disk, `AppliedInv` that the follower's engine holds what
its cursors passed, `PromoteInv` what each stage of a promotion has secured. A
promotion record then implies a fenced primary whose journal ends at the follower's
cursor.

**The worker.** A worker ends only when it was cancelled, and is cancelled only by a
promotion under way, by one that has written its record, or by Close (`WorkerOK`);
who has `syncInProgress` is pulling (`BusyOK`); Close holds `s.mu` from the worker's
end to its own, and a promotion that holds the journal's lock has seen the worker go
(`CloseOK`). The barrier is up from a promotion's first checks until it fails early,
and for good once the record is written, so that no sync begins behind it
(`BarrierOK`). That a promotion that fails before its record finds the status
"stopped", on which the restart depends, follows from `WorkerOK` and `CloseOK`; that
one that fails after it leaves nothing running, from `BarrierOK`.

**The replica store.** `IInv` speaks of two answers of each engine: the one it gives
and the one it would give once reopened. For the leader both are at or after the
last acknowledged write (`LeaderInv`). For a follower each key of both is as some
prefix of the log has it, from the follower's index on (`BetweenInv`): a restart goes
back to APPLIED, and operations applied again leave every key at or after the prefix
they end (`AppliedAgain`).

**The shard store.** The options in memory are those in SHARDING.json (`ManifestInv`),
whatever Open is called with, so that every entry stays where reads look
(`OneHome`), for any ring. A scan has found of
each shard behind it what that shard held at one moment (`ScanInv`).

**Gateway and proxy.** About rings alone: a search ends at a configured node, and a
key moves between two rings only from or to a node whose points changed
(`KeyStays`), for every hash function and all weights above 0 (which the validation
of a cluster's configuration guarantees and `GatewayAssumption` states). About the
proxy: a number names one write (`NumbersInv`), so that what a node comes to serve,
late or not, never replaces an acknowledged write by one that this write had
replaced (`HeldInv`).

**The vector store.** Most of the argument is about data. What Search returns are the
k best only if its comparison orders the candidates, and that of cosines is one of
fractions: it is transitive because no denominator is zero (`HigherOrders`), and total
because equal scores are decided by the ID (`BeforeOrders`). A sorted order then
exists, lists every candidate once, and its first k are the best (`SortExists`,
`RankedIsBest`). A sum over the components is a number for vectors of any length, and
that of a vector with itself is positive unless the vector is zero (`DotInt`,
`DotPositive`); both are descents, like the search of the journal. About the state:
an open store's index is what its engine holds, but for the IDs that Open does not
load, and all its vectors have one dimension (`IndexInv`); what a search has copied is
an index there was while it ran, of vectors as long as its query (`SearchInv`). By
`IndexInv` what a reader is told is what the engine holds, open or closed, so that
`ImplementsDictionary` maps each write, failed write and stop to its like in `KVStore`
and opening, flushing and searching to stutters.

### Only model-checked

* All liveness (`CatchesUp`, `KeepsSyncing`, `CloseReturnsAlone`, `CloseReturns`,
  `ReplicateAllReturns`): liveness under fairness, and ENABLED, are out of the proof
  system's reach.
* What a definition by recursion or a fold computes for every input, when no descent
  on a number like those of `SearchAfterIs` and `DotPositive` says it: the library's
  induction theorems take an operator as a parameter, which the provers cannot
  instantiate.
* The two statements of section 4, which are false.

## 6. What is not modelled

* The layout of frames, records, SSTables and sidecars, checksums, the index
  search of an SSTable and the hashing of the Bloom filter: data, abstracted to
  what the engine relies on. A module of the two searches is planned.
* Power loss for the engine (the code does not fsync the manifest's directory,
  `manifest.go:168-170` says so) and for the replica store (`store.go:667-673`).
* Power loss for the shard store: SHARDING.json is not fsynced
  (`shard/manifest.go:68`), but neither are the writes of its engines. An `os.Stat`
  that fails on a manifest that is there (`shard/store.go:463`) makes Open write a
  new one; no state of the model has a directory that can be written and not read.
* That a quiesce ends. `writeGate.Quiesce` waits for the write handlers past the gate
  (`node/quiesce.go:42`), and these read the client's body behind it
  (`node/handlers.go:117`): a stalled PUT keeps a quiesce waiting. `Cutover` has no
  fairness and states safety only.
* ExplainScan, statistics, HTTP formatting, configuration: no state of their own.
* Of the vector store, metadata and the rounding of scores.
* The in-memory replication log (`replnet/log.go`): only tests construct it.
* Cluster metadata, the health report, dashboard, trace, bench, logging, commands:
  no protocol state.

## 7. The plan

Done, in this order: `KVStore` and `StorageEngine` (everything else rests on the
engine), `DurableLog`, `ReplicaSync`, `Cutover`, `BackgroundSync`, `ReplicaStore`,
the proofs of the engine's structural invariants, `HashRing` with `Gateway` and
`ShardStore`, `VectorStore`; then the proofs of the safety properties of every module,
of the engine's answers, and of the three refinements of `KVStore`.

Next, in order of what they would tell:

1. The searches and the codec: `Reader.Get` of an SSTable against a reference
   definition, by the descent that `SearchAfterIs` uses; Bloom bits with the
   no-false-negative theorem.
2. Power loss in the engine model, with the manifest's rename that may come back.
3. A composition of `Cutover` with the journal's baseline: a second follower that
   pulls from the promoted node, and the replication gap (HTTP 409) it may meet.
