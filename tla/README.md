# A formal model of RuVector's state-keeping core

RuVector is a vector database with a graph database, a distributed tier and
many numeric libraries around it. The repository holds some two hundred crates;
most of them compute (indexes, attention, min-cut, neural networks), and what
can go wrong in them is a number. This project is about the parts that keep
*state shared by several actors*: the database file and its pool, the vector
database over it, collections, graph transactions, consensus between nodes,
replication and the cluster's membership. They are written in TLA+, checked with
TLC on small instances, and, where it is worth it, proved with TLAPS for every
instance.

- [Inventory](#inventory)
- [Plan](#plan)
- [The modules and the code](#the-modules-and-the-code)
- [The runs](#the-runs)
- [Fairness](#fairness)
- [What is proved](#what-is-proved)
- [Where code and documents disagree](#where-code-and-documents-disagree)
- [What is not modelled](#what-is-not-modelled)

To repeat the checks, in this directory: `tlc -config MCStoragePool.cfg
MCStoragePool` (and likewise for each row of the table of runs), and
`tlapm StorageProofs.tla`. `PROJECT.json` maps every definition to the
lines it stands for and lists runs, hazards and theorems.

## Inventory

### Storage pool — `ruvector-core/src/storage.rs`

*State.* `DB_POOL`, a process-wide mutex around a map from paths to slots; a
slot is a mutex around a `Weak<Database>`; each `VectorStorage` owns an
`Arc<PathSlot>` and an `Arc<Database>`; redb's lock on the file.
*Operations.* `VectorStorage::new` (claim the slot, lock it, upgrade the
`Weak` or create and initialise a database, publish), `Drop` (lock, drop or
close, unlock, release the slot).
*Interactions.* Called by every `VectorDB` and so by every collection;
threads meet at the pool mutex, at a slot mutex and at the file.
*Hard.* A handle is dropped while the path is opened again; two last handles
drop together; initialisation fails half way; the file is removed by somebody
else; two spellings of one path.
*Correct when* handles on one path share one database, a path never has two
slots, the map does not grow with dead entries, no file stays open after its
last handle, and an open does not fail on a lock of its own process.

### VectorDB — `ruvector-core/src/vector_db.rs`, `storage.rs`, `storage_memory.rs`, `index/`

*State.* Two tables (vectors, metadata) and a stored configuration in redb, or
two concurrent maps in memory; per `VectorDB` value an index behind an
`RwLock`: `FlatIndex` (a map) or `HnswIndex` (a graph of numbered points that
only grows, with `vectors`, `id_to_idx`, `idx_to_id`).
*Operations.* `new` (load or save the configuration, rebuild the index row by
row), `insert`, `insert_batch`, `delete`, `search`.
*Interactions.* Storage first and index second, under no common lock; search
reads the storage while it holds the index's read lock; several instances may
share a file through the pool, each with an index of its own.
*Hard.* Anything between the two steps of a write: searches, other writes of the
same id, reopening, a crash; between the two maps of the memory backend; two
openings of a new file; failing batches; ids that are inserted again.
*Correct when* index and storage agree on every id no operation is in the
middle of, a search returns nothing deleted, nothing superseded and no id
twice, and the configuration in use is the one stored; or it is known what may
set them apart, and until when.

### Graph transactions — `ruvector-graph/src/transaction.rs`

*State.* Version lists per node, edge and hyperedge in concurrent maps,
`active_txns`, `committed_txns`, a counter of ids; per transaction a start time
and a buffer.
*Operations.* `begin`, `write_*`, `delete_*`, `commit`, `rollback`, `read_*`,
`Clone` of the manager, dropping a handle.
*Interactions.* Threads share the maps; a commit holds one list's lock at a
time. Times come from the wall clock in microseconds.
*Hard.* Commits that overlap readers and each other; clock readings that are
equal; clones that hand out one id twice.
*Correct when* nothing uncommitted is visible, nothing committed is lost, and
what a transaction sees does not move under it, save where the code lets it.

### Raft — `ruvector-raft`

*State.* Term, vote, log, commit index, role, `next_index` and `match_index`,
votes received, the leader hint. All of it in memory.
*Operations.* Handlers of election and heartbeat timeouts, of the client's
commands, and of `RequestVote` and `AppendEntries` with their responses;
`InstallSnapshot` is acknowledged and ignored.
*Interactions.* One loop per node takes messages from a channel. The crate has
no transport, and nothing in it builds an `AppendEntries` request with entries.
*Hard.* Late, repeated and reordered messages, competing candidates, logs that
diverge, restarts.
*Correct when* a term has one leader, votes are cast once, logs match, a leader
does not rewrite its log, and what is committed stays.

### Replica set and failover — `ruvector-replication/src/replica.rs`, `failover.rs`

*State.* The roles of the replicas, `primary_id`, `quorum_size`; the failover
manager's policy, failure counts and `failover_in_progress`.
*Operations.* Add, remove, promote, demote; the monitoring task (list, read
health, count, claim the flag, select, promote, give the flag up); manual
failover.
*Interactions.* Monitoring tasks and the program share the set behind a lock,
which is free between the steps of a failover.
*Hard.* `start_monitoring` may be called twice; the set changes between the
selection and the promotion; a selection finds no candidate; `primary_id` is
kept beside the roles.
*Correct when* there is never more than one primary, a quorum is a majority of
the voters, one failover runs at a time, and a set that can get a primary does.

### Replication log and streams — `ruvector-replication/src/sync.rs`, `stream.rs`

*State.* The sequence number, the log (a concurrent map), per stream a
checkpoint; per session a task with `current_sequence` and a bounded channel.
*Operations.* `append`, `get_range`, `truncate_before`, `stream_from`, `resume`,
`set_checkpoint`, `clear_checkpoint`.
*Interactions.* The task reads the log key by key while entries come and go, and
sends batches to a consumer that may end at any time; sessions of one stream
share its checkpoint.
*Hard.* Entries appended or truncated under a running `get_range`; a full or
closed channel; a resume while an earlier task still runs.
*Correct when* what a session sends is in the order of the log, what it leaves
out has a reason, the checkpoint covers only what was sent, and a consumer that
reads on catches up.

### DAG consensus — `ruvector-cluster/src/consensus.rs`

*State.* Per node pending transactions, vertices with parents and vector clocks,
the set of final ones, the node's clock. *Operations.* `submit`, `create_vertex`,
`add_vertex`, `finalize_vertices`, `prune_old_vertices`. *Interactions.* Vertices
travel between nodes in any order; a node's methods share maps and locks, none
of which is held over a method.
*Hard.* Tips are listed before the clock is locked; pruning between the check of
the parents and the insertion; finalisation on incomplete knowledge.
*Correct when* clocks follow the parents, a node that has a vertex had its
parents, and a final vertex has a quorum of confirmations.

### Delta consensus — `ruvector-delta-consensus/src/lib.rs`, `causal.rs`

*State.* A vector clock, a pending queue, the ids applied. *Operations.*
`create_delta`, `receive`, `try_deliver_pending`, `clear_history`.
*Hard.* Causal gaps, duplicates, deltas that are forgotten, and threads between
the checks of `receive` and the delivery.
*Correct when* deltas are applied in causal order, each once, none that is ready
waits, and the clock of a delta is after those it depends on.

### Collections — `ruvector-collections/src/manager.rs`

*State.* Concurrent maps of collections and aliases, a directory per collection,
`aliases.json`; each collection is a `VectorDB` on a file of its own, and so in
the storage pool. *Operations.* `new` with its loading, create, delete and get;
create, switch and delete of aliases. *Hard.* Check and act on two maps without a
common lock; clients that keep what was deleted; crashes and failing steps between
map, directory and file; one file for the aliases of all callers. *Correct when* a
restart finds what the map has and nothing else, and aliases stand for
collections.

### Cluster membership and shards — `ruvector-cluster/src/lib.rs`, `shard.rs`

*State.* The consistent-hashing ring, the map of nodes, the map of shard
assignments. *Operations.* `start`, `add_node`, `remove_node`, `assign_shard`.
*Hard.* Ring, nodes and shards are changed one after the other and without a
common lock; two locks are nested in two orders. *Correct when* every shard ends
up where the last ring wants it, nodes and ring agree, and calls end.

### The others

Server and CLI map requests on the above. The distributed graph has a
coordinator, gossip and shard placement whose remote calls are stubs. The
conflict resolvers of replication are pure functions that nothing calls. The
rest (index kernels, caches, mathematics, learning, language-model runtime,
PostgreSQL extension, coherence engine, RVF, RuVix, RVM, agents, edge, bindings)
is listed with a reason in `PROJECT.json`.

## Plan

The order follows what everything else rests on, then what is concurrent.

| | Modules | State |
|---|---|---|
| 1 | `StoragePool`, `SharedFile`, `StorageProofs` | done; safety and refinement proved |
| 2 | `VectorDb`, `StorageProofs` | done; safety proved |
| 3 | `GraphTxn`, `GraphTxnProofs` | done; safety proved |
| 4 | `Raft`, `RaftProofs` | done; safety proved |
| 5 | `ReplicaSet`, `Failover`, `ReplicationProofs` | done; safety proved |
| 6 | `ChangeStream`, `ReplicationProofs` | done; safety proved |
| 7 | `DeltaConsensus`, `CausalBroadcast`, `DeltaConsensusProofs` | done; safety and refinement proved |
| 8 | `DagConsensus`, `DagConsensusProofs` | done; safety proved |
| 9 | `Collections`, `CollectionsProofs` | done; safety proved |
| 10 | `Cluster`, `ClusterProofs` | done; safety proved |
| 11 | An abstract specification of `VectorDb` (one map with searches on it) and of `Collections` (the collections of a directory), with the refinements | to be stated and proved |
| 12 | The distributed graph, when its remote calls are more than stubs | open |

No module declares a `RECURSIVE` operator, so that theorems can be stated about
every module. What a loop of the code computes over a sequence is written in
closed form where a theorem rests on it: what a batch leaves of an id in
`VectorDb` is its last entry with that id (`Places`), which a fold would say only
for the lengths one tries.

## The modules and the code

| Module | Models | State |
|---|---|---|
| `StoragePool` | `VectorStorage::new`, `drop`, `release_slot_if_unused` | `pool` is `DB_POOL`; `guard` and `weak` are the two halves of a `PathSlot`; `slot`, `db`, `path` are the fields of a handle; `file` is redb's lock; `dir` is the directory |
| `SharedFile` | the promise: which file a handle sees | `at`, `sees`, `dir` |
| `VectorDb` | `VectorDB`, both storages, both indexes | `vec`, `meta`, `config` are the tables; `inst` is the state of each `VectorDB`, with the locals of `new`; `index`; `op` is the program counter and the locals of each thread |
| `GraphTxn` | `TransactionManager`, `Transaction` | `versions`, `active`, `committed`; `next` is the counter of each clone; `txn` is the buffer and the progress of the commit; `clock` |
| `Raft` | `RaftNode` and its helpers | `srv` is all of a node, `msgs` what the network keeps |
| `ReplicaSet` | `ReplicaSet` | `role` (with the members), `primary` is `primary_id`, `quorum` |
| `Failover` | `FailoverManager` over a `ReplicaSet` | `silent` are members past the heartbeat timeout; `failures`, `inProgress`, `auto`; `mon` is where each task is |
| `ChangeStream` | `ReplicationLog`, `ReplicationStream` and its consumers | `sequence`, `entries`, `checkpoint`; `task` holds the locals of the task `stream_from` spawns; `buffer` is the channel |
| `DeltaConsensus` | `DeltaConsensus` | `delta` are the deltas made, `clock`, `pending`, `applied` those of a replica; `op` is where each thread is in `receive` |
| `CausalBroadcast` | the promise: deltas in causal order | `deps`, `made`, `got` |
| `DagConsensus` | `DagConsensus` on every node | `vertex` are the vertices made; `present`, `finalized`, `clock`, `pending` per node; `creating`, `adding`, `confirmed` are the locals of its methods |
| `Collections` | `CollectionManager`, its directories and clients | `collections`, `aliases` are the maps; `disk`, `aliasFile` the files; `pool` the databases open; `held` what clients keep |
| `Cluster` | `ClusterManager`, `ShardManager` | `ring`, `nodes`, `shards`; `op` the locals of each call, from which the locks held follow |
| `StorageProofs`, `ReplicationProofs` | theorems about the modules of a crate: `StoragePool` with `SharedFile` and `VectorDb`; `Failover` and `ChangeStream` | see [What is proved](#what-is-proved) |
| `...Proofs` | theorems about the module they are named for | the same |
| `MC...` | constants of the instances | see [The runs](#the-runs) |

**Steps.** An action is what runs without another actor being able to look.
The pool mutex's critical sections take no other lock and are one action each;
what runs under a slot's mutex is slow and is split. A redb transaction is one
action; the two maps of the memory backend are written in two. A commit of a
graph transaction is one action per key, since that is how long a list is
locked. A Raft handler runs to its end before the loop takes the next message
and is one action, with the step down to a newer term in it. In the other modules an action
is what one lock covers, or one pass over a concurrent map; a sweep whose order
matters (`truncate_before`, `get_range`, the rebalancing of shards) goes key by
key. A file is written by truncating it first, which is an action of its own.

**Reference counts** are not variables: `Arc::strong_count` is the number of
clients that hold a clone, and is computed where the code reads it. In the
states `abandon` and `closing` the last clone is gone, `Weak::upgrade` fails and
the file is still locked, which is the window the slot's mutex is there for.

**History.** Some variables are not in the code and only remember: `truncated`,
`overtaken` and `skipped` (`ChangeStream`), `delivered` (`DeltaConsensus`),
`contested` (`Cluster`), `reused`, `failed`, `muddled` and `stray`
(`Collections`), `cut`, `unsettled` and `stale` (`VectorDb`), `overwritten` and
`chosen` (`ReplicaSet`). No guard reads them, but for the bound `MaxDelivered`.
Several hold what a property excepts. Such an exception names a race or a failure
that the code does not stand, and the state it leaves ends in the model when it
ends in the code: `stale` with the rebuild of the index, `cut` with the delete
that takes the orphan away, `failed` when the name is removed or created again,
`muddled` when a save of the aliases ends on its own.

**Data.** A vector is a value with a dimension; a search may find every live
point, which stands for every query and a large `k`, and a hit keeps the vector
its score was computed from so that it can be compared to the stored one. A
Raft command is the leader that took it. A graph value is a model value.

**What stands for code that is not here.** `Erase` and the inodes are the file
system; `FileLocked` is redb's lock; `Crash` is the death of the process; `Fault`
is a system call that fails, and `Written` what `std::fs::write` may leave of a
file that another writer has written since it was truncated;
`Tick` moves the system clock forward, by any amount, while equal readings come
from not moving it (a clock that is set back is not modelled). In `Raft` the
network may keep a message and deliver it any number of times, or lose it, and
`SendEntries` is a sender that goes by `next_index` as the comments of
`state.rs` describe it: the crate builds heartbeats only. The delta and DAG
modules have the same network: what was created may reach a replica in any
order, again and again, or never. In `ChangeStream` the consumer and its channel
are tokio's.

## The runs

| Run | Instance | Shows | States |
|---|---|---|---|
| `pool` | 3 threads, 2 paths with a file each, symmetric | No entry of the pool is leaked, no open meets a lock of its own process, and the pool implements `SharedFile` | 3 thousand |
| `pool_live` | 2 threads, 2 paths that are one file | Opens may meet the lock of their own process; every open and drop ends | 6 thousand |
| `vdb` | both backends, 2 threads that write one id, a second id of one of them, vectors of 2 dimensions, 2 options, 2 instances on the file | What may set index and storage apart, what explains a hit, which metadata outlives its vector, who runs with another configuration than the stored one; operations end | 0.39 million |
| `graph_txn` | 3 transactions of 2 managers, a node and an edge, 2 clock readings | No dirty version, no lost write, and the two ways a snapshot moves | 2.3 million |
| `raft` | 3 nodes, 2 terms, 2 messages kept, logs up to 2 | One leader per term, logs match, a leader appends only | 0.36 million |
| `raft_match` | the same | A [disagreement](#where-code-and-documents-disagree): TLC must find `MatchIsReplicated` violated | |
| `delta` | 2 replicas, 3 deltas, 2 threads on one replica, one `clear_history` | Causal order (implements `CausalBroadcast`), clocks, delivery once, nothing ready waits, `receive` ends | 0.33 million |
| `failover` | 2 tasks, 2 replicas, 3 sets to begin with, one change by the program | One primary, majorities, one failover at a time, a primary appears | 0.36 million |
| `stream` | 3 entries, batches of 2, a channel of 1, 2 sessions, 1 call | Order, explained gaps, what a checkpoint covers, catching up | 0.72 million |
| `dag` | 2 nodes, 4 vertices, quorum 2 | Clocks follow parents, no holes, final means quorum | 0.64 million |
| `collections` | 2 callers with 2 names each, 2 configurations, 5 calls, 2 crashes or failing steps, symmetric | What a restart finds, what it does not bring back, aliases and their file | 0.82 million |
| `cluster` | 3 callers, 2 nodes, 2 shards in one bucket, 3 calls | Shards follow the ring, nodes and ring agree, calls end but for one circle | 0.12 million |

**Why the bounds are enough for the cases named.**

- *Pool.* The critical race needs a thread that drops, one that has claimed and
  one that opens beside them: three. Two paths are needed for a database
  to be mistaken for another's. Five inodes leave a fresh file for each thread
  and each name at any time; slots and databases are as many as threads, since a
  thread holds one of each. Threads, slots, databases and inodes are symmetric
  there; no liveness is checked under symmetry.
- *VectorDb.* Both threads insert and delete the id `a`; one has a second id, so
  that a batch stores two ids, or one id twice, or fails on its second entry.
  Calls go to one instance (`Used`), and one thread also searches
  (`Searchers`); a second instance is opened beside it with either option, reads
  the rows while they are written, and is closed again, which is all that two
  openings of a new file and a write behind an instance's back need. With
  `MaxPoints` = 1 an insert begins while the HNSW graph is empty; inserts that
  overlap, and a batch with one id twice, give an id several points, with deletes
  before, between and after. A rebuild starts afresh, and a flat index has no
  bound.
- *GraphTxn.* A writer of a node and an edge (a torn read needs two keys), a
  second writer of the node, and a reader that writes nothing. Two clock
  readings give equal and different times. Hyperedges are written by the same
  action as the others and are empty here. Transactions are not used twice, so
  the system may stop and deadlock is not checked.
- *Raft.* `Stands` says who may stand for which term: one candidate in term 1,
  two in term 2, which gives a stale leader, a split vote and a candidate
  overtaken. `Feeds` says to whom a leader's entries go, `MaxLog` how
  long a leader's log gets by commands: enough for a follower to have an entry
  that a later leader overwrites by two of its own. With `MaxInFlight` = 2 two
  messages can be reordered and each repeated at will; a message kept is
  received at any later time, so late votes and replies of an earlier term occur.
- *DeltaConsensus.* Two threads on one replica give every interleaving of
  `receive` with itself; three deltas a chain, a fork and a join. `exclusive`
  chooses at the start whether callers serialise their calls; what needs it says
  so. `MaxDelivered` stops new calls, never one that runs.
- *Failover.* Two tasks race for the flag; the sets are a pair, a primary alone
  and a secondary without a primary, so that selections succeed and fail.
  `Threshold` = 2 needs a count to survive a round. One change of the program
  at any point covers a set that changes inside a failover.
- *ChangeStream.* A batch of two over three entries: an entry is overtaken when
  its key is read first; a batch ends in the middle of the log; a truncation of
  two is a gap as wide as a batch. A channel of one makes the task wait. The one
  call is a truncation, a checkpoint set or cleared, or a `stream_from` of any
  number; sessions that start at 0 or at the checkpoint are not counted.
  `MaxSequence` bounds the entries and the numbers callers name, so that these
  lie below, at and beyond the end of the log.
- *DagConsensus.* Four vertices are a diamond; the quorum is both nodes, so a
  vertex is confirmed, pruned and confirmed from the other side.
- *Collections.* Each caller has a collection and its alias, in either role, and
  both save `aliases.json`; five calls create, alias, delete and create again,
  or let two saves race while a third mends the file. Two faults put a crash into
  the recovery of another, a crash after a failure, and a failure after a crash.
  Callers with their names, the names of a caller and the configurations are
  symmetric; no liveness is checked there.
- *Cluster.* Two callers change nodes, both of them one node, a third starts the
  manager or assigns shards. The shards prefer opposite nodes, so every change
  moves one, and share a bucket, so that their locks meet.

Runs whose calls or entries are bounded may come to rest and do not check
deadlock; there the liveness properties say what must happen before.

**What each property would catch.** Every property has a mutant in
`PROJECT.json`: a definition of the model changed the way a bug would change
the code (a guard dropped, a count off by one, a lock given up early, a rebuild
forgotten), under which TLC finds the property violated. The mutated operators
stand in the modules, beside the definitions they replace, marked `Mutant`.

## Fairness

Safety needs none. The liveness properties are checked under

- weak fairness of the steps of a thread that is inside a method: it is running
  code (`pool_live`, `vdb`, `delta`, `cluster`), and in `failover` of the
  monitoring tasks, which sleep between rounds and never return;
- in `stream`, weak fairness of each session's task, which the runtime polls,
  and of a consumer that still has its receiver, since `CatchesUp` is about
  consumers that keep reading;
- strong fairness of taking a slot's mutex (`pool_live`) and an index's write
  lock (`vdb`). Both are `parking_lot` locks, which hand over to a waiting thread
  eventually and do not let a waiting writer be overtaken by readers for ever;
  weak fairness would let a stream of other holders starve a thread. In
  `cluster` the announcement of a writer is modelled and calls are bounded, so
  weak fairness is enough.

Nothing is assumed of what callers decide to do: to open, to drop, to insert,
to search, to append, to detach or to crash is never forced. No liveness is
stated for Raft, which has no transport and no sender of entries, none for
graph transactions and collections, which wait for nothing, and none for the
DAG, where a vertex may never reach another node.

## What is proved

Eight modules hold theorems; all are about every value of the constants, under
the assumptions named in the modules, and about the same definitions the runs
check. Every invariant and every action property of the passing runs is proved,
and both refinements. Type correctness is proved for each of the ten
components, so most runs leave it out (`vdb` and `collections` check it).

| Module | Theorems |
|---|---|
| `StorageProofs` | on the pool: `PoolSafety`, `HandlesShareDatabase`, `NoLockoutWithoutAliases`, `PoolImplementsSharedFile`; on `VectorDb`: `VectorDbTyped`, `NoOrphans`, `OneConfig`, `IndexInStep`, `HitsAreLive`, `SearchesExplained` |
| `GraphTxnProofs` | `GraphTypeOK`, `NothingDirty`, `CommittedStays`, `SnapshotsHold` |
| `RaftProofs` | `RaftTypeOK`, `OneLeaderPerTerm`, `LogsMatch`, `LeadersNeverRewrite` |
| `DeltaConsensusProofs` | `IndInvInvariant`, `DeltaTypeOK`, `ClocksFollowDependencies`, `DeltaImplementsCausalBroadcast`, `NoSecondDelivery`, `QueueOnlyWaits` |
| `ReplicationProofs` | on `Failover`: `FailoverTypeOK`, `NeverTwoPrimaries`, `QuorumsAreMajorities`, `FailoversExclude`; on `ChangeStream`: `StreamTyped`, `SessionsInLogOrder`, `SessionGapsExplained`, `CheckpointCovers` |
| `DagConsensusProofs` | `DagTypeOK`, `ClocksFollowDag`, `NoHoles`, `FinalHasQuorum` |
| `ClusterProofs` | `ClusterTypeOK`, `ShardsEndUpInPlace`, `NodesAndRingAgree` |
| `CollectionsProofs` | `CollectionsTyped`, `MapSurvives`, `DeletedStaysAway`, `AliasesStand` |

Each has an inductive invariant, checked with TLC on a small instance before it
was proved (but for Raft's `HistoryInv`, which quantifies over all histories: only
what follows from it can be evaluated), and a lemma per action. `StorageProofs` and
`ReplicationProofs` extend two components each; since names must not meet there,
those of `StoragePool` begin with `Pool`, those of `ChangeStream` with `Stream`.

**Hypotheses.** Most theorems have none but the assumptions on the constants.
Where the code gets something right only for callers that keep apart, the
theorem says so, and without the hypothesis TLC finds the property violated
(each was dropped on a small instance). The races of `VectorDb` and the shared
`aliases.json` need no hypothesis, since the properties say what comes of them:

| Hypothesis | Theorems | Without it |
|---|---|---|
| no two paths are one file | `NoLockoutWithoutAliases` | the pool goes by path; the second spelling meets redb's lock (run `pool_live`) |
| `exclusive`, in the property itself | `NoSecondDelivery`, `QueueOnlyWaits` | two calls of `receive` pass the check for duplicates together |
| `OwnNames`: no name has two callers | `MapSurvives`, `AliasesStand` | a delete removes the directory that a create has just made |

### The storage pool

For any number of threads, paths, names, files, slots and databases, under
`PoolAssumption` alone (`NameOf` is a function from paths to names, and `None` is
none of the values), `StorageProofs` proves:

| Theorem | States |
|---|---|
| `PoolSafety` | `PoolTypeOK`, `OneSlotPerPath`, `NoLeakedEntry`, `OnlyClientsKeepFilesOpen` are invariants |
| `HandlesShareDatabase` | `SharedDatabase` is an invariant: handles have one database exactly when they are on one path |
| `NoLockoutWithoutAliases` | when no two paths name one file, `NoSelfLockout` is an invariant |
| `PoolImplementsSharedFile` | `PoolSpec => ImplementsSharedFile` |

None of the invariants is inductive as it stands: that handles share a database
needs to know that the slot's `Weak` points at the database of every handle on
that path, and that holds only because whoever changes either has the slot's
mutex. The inductive invariant `IndInv` is the conjunction of

- `PoolTypeOK` and `PcShape`: which references a thread has in which state;
- `PoolInv`: a thread's slot is the pool's slot for its path, a slot serves
  one path, no dead entry;
- `GuardOwner`: a thread is in a locked state exactly when it owns the guard;
- `WeakInv`: a handle's database is the one its slot points at, what a slot
  points at is held, and a thread that creates or closes is alone on the slot;
- `FileInv`: a database belongs to one path, an open file has an owner.

Each part has a lemma of its own that every step preserves it, with a case per
action that can disturb it. `NoLockoutWithoutAliases` adds a second invariant on
top (`NameInode`: the name and the open database of an inode belong
together), which is where the hypothesis on `NameOf` comes in; the run
`pool_live` is the instance in which it does not hold. The refinement maps a
handle to the path it has open and the file its database has: creating a
database is `OpenFile`, reusing one is `Join`, a drop is `Leave`, and all else
stutters or changes the directory. That an opened file is nobody else's, which
`OpenFile` asks for, is `FileLocked` and `FileInv`.

### VectorDb

The theorems are about any number of threads and instances, which may write one
id and open one file at the same time. `BaseInv` holds throughout: types, what a
call carries (the instance stays open, the hits are those of the locked index),
and the index by itself (`IndexOK`: the number mapped for an id that has a vector
is that of a live point with that vector). Three invariants stand on it:

- `MetaInv`, for `NoOrphans`: metadata without a vector is what a `delete` of the
  memory backend, between its two maps, is about to remove, or what an insert
  wrote behind a delete that came between its own two maps (`cut`), until a
  delete or the end of the backend takes it away. An insert that has not been cut
  brings metadata only to an id that has its vector (`MetaComes`).
- `ConfigInv`, for `OneConfig`: while an instance is about to save its
  configuration none is stored, no other is about to, and none is open; whoever
  is otherwise is `unsettled`, which is decided where an opening finds somebody
  in that place.
- `SyncInv`, for the rest: the rows that `new` has read are the stored ones, and
  those it has not are still to be read (`RowsSync`); what a call has stored is
  still what the storage has (`CallSync`); an open index agrees with the storage
  on every id that is not `Pending`; each for the ids the index is not `stale`
  for. An id becomes stale for an index when it is written through another
  instance while the index is there, or by a call that overlaps with another one
  on it, and the index is rebuilt free of stale ids. As the properties do,
  `SyncInv` speaks of the persistent backend; the memory backend is gone with its
  instance.

That a batch stores, and the index takes, the last of several entries with one
id needs a last position of a set of positions, which comes from the library's
theorem on minimal elements of a well-founded relation (`WFMin`): an induction
that needs no operator as a parameter.

### Graph transactions

`NoDirtyVersion` and `CommittedWritesKept` rest on what a commit in progress has
still to write: `WritesPlannedOrMade` (each buffered write is in the plan or in a
list), `FinishedHasNoPlan`, `CommitHasTime` and `PlansAreWrites`. That two
commits of one id interleave does not matter, since each step appends to one
list and takes nothing away. `SnapshotsHold` is an action property: a step that
changes what a reader sees appends a version or marks one as deleted, with a time
that is the commit's. A version later than the reader changes nothing for it, so
the commit is one whose time the reader has reached, which is still writing; or
the mark replaces an earlier one, which is a second delete. The version a read
picks is the last visible one (`LastPosition`).

### Raft

`ElectionSafety` needs the votes that are on their way. `VoteInv` says that what
a candidate has counted was cast (`CountedAreCast`), that a grant in flight was
cast in that term and for that candidate (`GrantsAreCast`), that a vote counts
once however often its message is delivered (`CountedOnce`, `GrantedOnce`,
`CountedOrGranted`), and that a leader has a majority (`LeadersHaveQuorum`). Two
leaders of a term would have two majorities, which share a voter, who has one
vote. That majorities intersect is proved from the cardinality theorems of the
library.

`LogMatching` needs the logs of leaders that no longer lead. The code keeps no
such thing and the model has no variable for it; the invariant, `HistoryInv`,
says that there is a record of the terms (who led, with which votes, with which
log when it last led) that agrees with the state: the votes of a past leader
still stand (`VotesStand`), so that nobody else ever leads its term; a leader
has the recorded log (`LeadersRecorded`); every log is, up to each of its
entries, the recorded log of the entry's term (`LogsDerived`); and a request to
append is an excerpt of the log of the leader of its term (`Excerpt`). Two logs
with an entry of one term at one index are then prefixes of one recorded log.
Each step that elects a leader or appends to a leader's log shows how the record
changes. `LeaderAppendOnly` follows: a request of its own term would be the
leader's own.

### Delta consensus

`IndInv` is `TypeOK`, what a thread carries between two locks (`CarryInv`),
what a queue holds (`QueueInv`), that a replica's clock is at or after all it has
applied (`ClockInv`), and `DependenciesHappenBefore`. The refinement maps a
delivery to `Take` and a creation to `Publish`; a delivery of what was delivered
before, by an overlapping call or after `clear_history`, stutters.

`ExclusiveInv` adds what holds of callers that serialise their calls: one thread
is inside a replica, what it has found of its delta and of the queue still
holds, and unless it is draining nothing in the queue is ready (`OneCall`); as
long as no history was cleared, what was delivered is in the applied set, and
neither in the queue nor on the way (`Remembered`). The two together are
inductive; each needs the other, since a delta leaves the queue by being found
ready.

### Replica set and failover

`OnePrimary` and `QuorumIsMajority` are inductive together with the types of the
set: every operation of `ReplicaSet` keeps them, whoever calls it. That
failovers exclude each other is the ownership of `failover_in_progress`.

### Replication log and streams

The invariant of a session says what a task knows at each point: while it reads,
every key between `current_sequence` and the next one was found, was truncated,
or was not appended yet; a batch that waits for the channel lies behind all that
was sent, and `current_sequence` is its last entry. That the last entry exists is
part of the invariant too (`HasLast`), which takes the place of an induction
over finite sets. `Covered` is what was truncated, sent or overtaken by some
session, or left out by a caller (`skipped`: what `stream_from(n)` or
`set_checkpoint(n)` named beyond the checkpoint of the time). That it only grows
carries `CheckpointWasSent` over a resume: a session starts behind covered
numbers, whatever its caller named, and so does what it writes.

### DAG consensus

`IndInv` adds to the properties what a method carries from one lock to the next
(`CarryInv`) and that the final vertices of a node are vertices (`KnownInv`).
`FinalizedHasQuorum` uses that confirmations are counted over what the node has,
which is a part of what was created, and that created vertices do not change.

### Cluster

`ShardsFollowRing` is inductive with the types: a call that changes the ring has
yet to look at every shard, and looks at one with the ring locked. For
`NodesMatchRing` two more parts say that an uncontested node is changed by one
call (`OneChanges`) and what that call has written so far (`RingWritten`).

### Collections

`TypeInv` holds for any callers: types, and that what the map, a client or a
running create refers to is open in the pool.

`DeletedStaysAway` needs nothing of the callers either, since a create inserts
into the map after it wrote the metadata and a delete lists the directory after
it took the collection out of the map: readable metadata of a name the map does
not have is in the hands of a call that is about to insert it or to remove it
(`HandledInv`), whoever wrote it; or its removal or loading failed. After a crash,
`new` loads it. Without the exception `failed` TLC finds the property violated; a
failing create and a crash at any step need no exception.

`NameInv` says how far a call has got with its name, step by step (`Midway`),
what `new` has loaded or will (`Loading`), and what a crash or a failing step may
leave on disk (`Restartable`): with names of their own, nobody but that call
changes them, and a name no call is about is `Settled`, which gives
`MapSurvives`. It covers every point of a crash, since it speaks of the disk while
the manager is down.

`AliasInv` is about two things. The first holds however saves overlap and fail:
what an alias stands for a restart finds, and what an alias hides it does not
(`Restored`), because a method looks at both names before it changes the map
(`AliasStep`), and their owner is in no other call. The second, `Tidy`, holds
while saves neither overlap nor fail: one caller is in `save_aliases`, its copy is
the map, and of the names of all others the file has what the map has. When that
is over (`muddled`), a save that ends on its own with what the map has restores
it, which is proved as the step that makes `Tidy` true again; what `new` loads
from the file before is `stray`. That a write leaves a mixture (`Torn`) when
another writer has been at the file since it was truncated is in the model
(`Written`). The constants `None`, `Empty` and `Torn` are assumed not to be among
the values they stand beside.

Metadata is written to the file that was opened: one that was unlinked meanwhile
stays so (`Rewritten`), while a file of the same name that was made since would
be taken for it. That can happen only to callers that share names. A failing
`new` (of the whole manager) leaves what a crash leaves and is part of `Crash`.

### Only model-checked

The six liveness properties (`PoolOperationsEnd`, `OperationsEnd`,
`ReceiveEnds`, `PrimaryAppears`, `CatchesUp`, `CallsEnd`) and the violation of
`MatchIsReplicated`. Liveness and `ENABLED` are out of reach of this prover, as are
`RECURSIVE` operators, which no module uses, and induction by the library's
theorems with an operator as a parameter. `CatchesUp` and `PrimaryAppears` also
rest on bounds of their runs: a finite log, and a finite number of changes.

## Where code and documents disagree

`raft_match` is a run that TLC must find violated by what the code does: a
follower answers a heartbeat with its own last index, and the leader takes it for
`match_index` (`node.rs:293`, against `state.rs:174`); the commit index follows
it. The commit properties of Raft (what is committed stays) are left out while
they fail for this reason; `Committable`, the guard on entries of the leader's
own term, is in the model for when they can be stated.

The following came up while modelling. They are no runs; the properties are
stated so that they say what does hold.

- *VectorDB.* Inserting an id again leaves the old point of the HNSW graph
  mapped; after a delete, searches return the deleted id (`index/hnsw.rs:371`).
  Two openings of a new file both save a configuration, and one runs with options
  the file does not have (`vector_db.rs:143`, against `:103`); `ConfigAgrees`
  excepts these (`unsettled`) and no others. Two instances on one file do not
  see each other's changes until they are reopened (`vector_db.rs:94`), and two
  calls on one id may reach storage and index in opposite orders (`:337`,
  `:431`); both are `stale` in `IndexMatchesStorage`, `HitsAreStored` and
  `HitsExplained`. A delete between the two maps of an insert leaves metadata
  without a vector in the memory backend (`storage_memory.rs:51`, `:126`), which
  `NoOrphanMetadata` excepts as `cut`.
- *Graph transactions.* A delete marks the last version only; of an id that was
  updated, the earlier version is visible again (`transaction.rs:176`). Commits
  become visible key by key to a reader that began after the commit read the
  clock (`transaction.rs:132`, against `transaction_tests.rs:259`).
  `SnapshotStable` states what does hold of snapshots: they move only while
  a commit whose time the reader has reached is still writing, or by a second
  delete.
- *Raft.* Nothing of `PersistentState` is ever written; a node that starts again
  votes twice in a term (`node.rs:130`, against `state.rs:42`).
- *Failover.* A selection without a candidate leaves `failover_in_progress` set
  for good (`failover.rs:289`). `min_quorum` and `prevent_split_brain` are never
  read, any silent replica triggers a failover, failure counts outlive it, and
  adding the primary's id again leaves `primary_id` at a replica that is none.
- *Streams.* An entry whose key is read before it is appended, with a later one
  read after, is never delivered. A truncated gap of a batch or more in front of
  a session stops it for good (`Stalled`). The checkpoint follows the channel and
  not the consumer, and the task of an abandoned session may write its own over
  it. After `stream_from(n)` an automatic checkpoint covers what lies up to `n`,
  sent or not, although it is documented as the last sequence number processed
  (`stream.rs:101`, `:191`); `CheckpointWasSent` excepts what a caller left out
  this way, or by `set_checkpoint(n)` (`skipped`).
- *DAG.* The comparator of `get_finalized_order` puts the later vertex first
  (`consensus.rs:287`, against `:272`), and is not transitive on concurrent
  vertices, which `sort_by` does not allow.
- *Delta consensus.* Overlapping calls deliver a delta twice, or leave one parked
  after its dependency was drained; a replica's own deltas are not in its applied
  set; `clear_history` makes deltas new again and strands what depends on them;
  what is delivered from the queue is not reported to the caller; `max_pending`
  is never enforced.
- *Collections.* A client that keeps a deleted collection keeps its database in
  the pool, and a new collection of the name joins it, with old vectors and a
  file that is gone. A crash while `aliases.json` is written makes `new` fail from
  then on. A `remove_dir_all` that fails leaves a collection that is gone from the
  map and that the next restart loads (`manager.rs:155`); `new` passes over
  collections it cannot open and says nothing (`:403`). Callers that share names
  race (`lib.rs:11` says "Thread-safe"); in the run they have names of their own.
  They still share `aliases.json`: `save_aliases` copies the map and writes the
  file later, so the older of two copies may be written last (`:446`, `:454`), and
  a save that fails leaves the map changed and the file not (`:248`). In both
  cases the file is wrong until the next save, and `AliasesResolve` says so
  (`muddled`, `stray`).
- *Cluster.* `rebalance_shards` holds an entry of the shard map and waits to read
  the ring; `assign_shard` reads the ring and waits for the entry; with a writer
  announced on the ring in between, all three wait for ever (`lib.rs:346`,
  `:336`, `:241`). An add and a remove of one node that overlap may leave ring
  and nodes disagreeing. Removing the last node leaves shards that name it.
  `start` does not put the own node into the ring and fails when nothing else is
  discovered. Shards assigned by hand beyond `shard_count` are not rebalanced.

## What is not modelled

- *Of the modelled parts:* path validation, distances, metadata filters and
  rescoring, serialisation of an index; reads of a transaction's own
  buffer; `InstallSnapshot` and log compaction, which the Raft node never
  uses; restarts of a Raft node; lag, status and health history of replicas,
  which nothing in the crate changes or reads to decide; sending to replicas in
  `SyncManager`, a stub; hybrid logical clocks, CRDT types, conflict resolution
  and the gossip outbox of delta consensus; signatures, conflict detection and
  statistics of the DAG; collection names and statistics; health checks,
  discovery, router and load balancer of the cluster, on which none of its state
  depends; disk corruption; a system clock that is set back.
- *Parts left for later:* the distributed graph, whose remote calls are stubs.
- *Parts left out:* numeric kernels and learning (floating point, one thread),
  bindings, user interfaces and examples (no state of their own), the
  PostgreSQL extension (under a server that is not in the repository), RVF,
  RuVix and RVM (systems of their own).
