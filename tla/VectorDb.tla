------------------------------ MODULE VectorDb ------------------------------
(***************************************************************************)
(* VectorDB of crates/ruvector-core: a storage backend (redb or memory)    *)
(* and, in every VectorDB value, an index over it.                         *)
(*                                                                         *)
(* insert, insert_batch and delete change the storage first and the index  *)
(* second, with no lock across the two; search holds the index read lock   *)
(* while it fetches the stored entry of every hit; VectorDB::new reads the *)
(* stored configuration, then rebuilds its index from the stored rows.     *)
(* Threads run these operations on instances of VectorDB that may share    *)
(* one database file (see StoragePool).                                    *)
(*                                                                         *)
(* A vector is a value with a dimension; distance is not modelled: a       *)
(* search finds every point it could return for some query and a large k.  *)
(***************************************************************************)
EXTENDS Naturals, Sequences, SequencesExt

CONSTANTS
    Threads,        \* callers of VectorDB
    Instances,      \* VectorDB values on one path
    Ids, Vectors, Metas,
    Options,        \* what callers of new ask for: a dimension and an index
    DimOf,          \* the dimension of each vector
    Batches,        \* argument lists of insert and insert_batch
    Used,           \* bound: the instances the threads call
    Searchers,      \* bound: the threads that search
    MayWrite,       \* bound: the ids each thread inserts and deletes
    Backends,       \* "persistent": a redb file; "memory": a memory:// path, or
                    \* a build without the storage feature
    MaxPoints,      \* bound: an insert begins while the graph has fewer points
    Absent          \* no vector, metadata or configuration

ASSUME VectorDbAssumption ==
    /\ Backends \subseteq {"persistent", "memory"}
    /\ Options \subseteq [dim : Nat, kind : {"flat", "hnsw"}]
    /\ DimOf \in [Vectors -> Nat]
    /\ Batches \subseteq Seq([id : Ids, vec : Vectors, meta : Metas \cup {Absent}])
    /\ Used \subseteq Instances /\ Searchers \subseteq Threads
    /\ MayWrite \in [Threads -> SUBSET Ids]
    /\ MaxPoints \in Nat
    /\ Absent \notin Vectors \cup Metas \cup Options

VARIABLES
    backend,        \* the storage this is
    vec,            \* VECTORS_TABLE: id -> vector or Absent
    meta,           \* METADATA_TABLE: id -> metadata or Absent
    config,         \* the options in CONFIG_TABLE, or Absent
    inst,           \* state of each instance, with the locals of new
    index,          \* the index of each instance
    op,             \* what each thread is in the middle of
    cut,            \* history: ids whose vector was deleted between the vector
                    \* and the metadata of an insert
    unsettled,      \* history: instances that were opened while another was
                    \* about to save a configuration
    stale           \* history: of each instance, ids written without its index
                    \* being told, or by two calls that overlap on it

vars == <<backend, vec, meta, config, inst, index, op, cut, unsettled, stale>>

history == <<cut, unsettled, stale>>

-----------------------------------------------------------------------------
(* The indexes.  HnswIndex keeps a graph of numbered points, to which it   *)
(* only ever adds, and three maps; FlatIndex keeps the map of vectors.  A  *)
(* point is live while idx_to_id has an entry for it.                      *)

EmptyIndex(kind) == [kind    |-> kind,
                     vectors |-> [x \in Ids |-> Absent],
                     graph   |-> <<>>,
                     idx     |-> [x \in Ids |-> 0]]

\* The places of id x in batch b.  The entries are stored in order: of an id
\* that is there twice the last vector stays, and the last metadata there is.
Places(b, x) == {n \in DOMAIN b : b[n].id = x}

StoreVectors(t, b) ==
    [x \in Ids |-> IF Places(b, x) = {} THEN t[x] ELSE b[Max(Places(b, x))].vec]

\* The metadata table is written only for entries that have metadata.
StoreMetas(t, b) ==
    LET with(x) == {n \in Places(b, x) : b[n].meta # Absent}
    IN  [x \in Ids |-> IF with(x) = {} THEN t[x] ELSE b[Max(with(x))].meta]

\* Mutant: id_to_idx gets next_idx after it was incremented.
IndexAddBatchOffByOne(ix, b) ==
    [ix EXCEPT
       !.vectors = StoreVectors(@, b),
       !.graph = @ \o [n \in DOMAIN b |-> [id |-> b[n].id, vec |-> b[n].vec, live |-> TRUE]],
       !.idx = [x \in Ids |-> IF Places(b, x) = {} THEN @[x]
                              ELSE Len(ix.graph) + Max(Places(b, x)) + 1]]

\* add_batch, and add of one entry: the points are numbered in the order of
\* the batch.
IndexAddBatch(ix, b) ==
    IF ix.kind = "flat"
    THEN [ix EXCEPT !.vectors = StoreVectors(@, b)]
    ELSE [ix EXCEPT
            !.vectors = StoreVectors(@, b),
            !.graph = @ \o [n \in DOMAIN b |-> [id |-> b[n].id, vec |-> b[n].vec, live |-> TRUE]],
            !.idx = [x \in Ids |-> IF Places(b, x) = {} THEN @[x]
                                   ELSE Len(ix.graph) + Max(Places(b, x))]]

\* Mutant: remove forgets idx_to_id.
IndexRemoveKeepsPoint(ix, x) ==
    [ix EXCEPT !.vectors[x] = Absent, !.idx[x] = 0]

IndexRemove(ix, x) ==
    IF ix.vectors[x] = Absent \/ ix.kind = "flat"
    THEN [ix EXCEPT !.vectors[x] = Absent]
    ELSE [ix EXCEPT !.vectors[x] = Absent,
                    !.graph[ix.idx[x]].live = FALSE,
                    !.idx[x] = 0]

\* What search can return: a hit is an id, the vector whose distance is the
\* score, and the number of the point.
IndexHits(ix) ==
    IF ix.kind = "flat"
    THEN {[id |-> x, scored |-> ix.vectors[x], point |-> 0] :
              x \in {y \in Ids : ix.vectors[y] # Absent}}
    ELSE IF \A x \in Ids : ix.vectors[x] = Absent
    THEN {}
    ELSE {[id |-> ix.graph[n].id, scored |-> ix.graph[n].vec, point |-> n] :
              n \in {m \in DOMAIN ix.graph : ix.graph[m].live}}

-----------------------------------------------------------------------------

Idle == [at |-> "idle"]

Closed == [at |-> "closed"]

Init ==
    /\ backend \in Backends
    /\ vec = [x \in Ids |-> Absent]
    /\ meta = [x \in Ids |-> Absent]
    /\ config = Absent
    /\ inst = [i \in Instances |-> Closed]
    /\ index = [i \in Instances |-> EmptyIndex("flat")]
    /\ op = [c \in Threads |-> Idle]
    /\ cut = {} /\ unsettled = {}
    /\ stale = [i \in Instances |-> {}]

\* Threads inside an operation of instance i.
Using(i) == {c \in Threads : op[c] # Idle /\ op[c].i = i}

\* Mutant: search lets go of the index before it fetches the entries.
IndexNeverLocked(i) == TRUE

\* The write lock of index i is free: no search of it is under way.
IndexUnlocked(i) == \A c \in Using(i) : op[c].at # "enrich"

StoredIds == {x \in Ids : vec[x] # Absent}

-----------------------------------------------------------------------------
(* VectorDB::new                                                           *)

Savers == {i \in Instances : inst[i].at = "save"}

\* An instance that is opened while another is about to save its configuration
\* may read one that does not stay, or add a second one.
OpenBesideSavers(i) ==
    unsettled' = IF Savers = {} THEN unsettled
                 ELSE unsettled \cup {i} \cup (IF config = Absent THEN Savers ELSE {})

\* Mutant: the requested options win.
OpenIgnoresConfig(i, o) ==
    /\ inst[i] = Closed /\ backend = "persistent"
    /\ inst' = [inst EXCEPT ![i] =
         [at |-> IF config = Absent THEN "save" ELSE "list", opt |-> o]]
    /\ OpenBesideSavers(i)
    /\ UNCHANGED <<backend, vec, meta, config, index, op, cut, stale>>

\* load_config: the stored options win over the requested ones.
OpenLoadConfig(i, o) ==
    /\ backend = "persistent" /\ inst[i] = Closed
    /\ inst' = [inst EXCEPT ![i] =
         IF config = Absent THEN [at |-> "save", opt |-> o]
         ELSE [at |-> "list", opt |-> config]]
    /\ OpenBesideSavers(i)
    /\ UNCHANGED <<backend, vec, meta, config, index, op, cut, stale>>

\* The memory backend stores no configuration and belongs to one instance,
\* which is the only one then.
OpenMemory(i, o) ==
    /\ backend = "memory" /\ \A j \in Instances : inst[j] = Closed
    /\ inst' = [inst EXCEPT ![i] = [at |-> "list", opt |-> o]]
    /\ UNCHANGED <<backend, vec, meta, config, index, op, history>>

OpenSaveConfig(i) ==
    /\ inst[i].at = "save"
    /\ config' = inst[i].opt
    /\ inst' = [inst EXCEPT ![i].at = "list"]
    /\ UNCHANGED <<backend, vec, meta, index, op, history>>

\* all_ids: one read transaction.
OpenListIds(i) ==
    /\ inst[i].at = "list"
    /\ inst' = [inst EXCEPT ![i] =
         [at |-> "load", opt |-> inst[i].opt, todo |-> StoredIds, rows |-> <<>>]]
    /\ UNCHANGED <<backend, vec, meta, config, index, op, history>>

\* get of one listed id, each in a read transaction of its own; an id that is
\* gone by now is skipped.
OpenLoadRow(i, x) ==
    /\ inst[i].at = "load" /\ x \in inst[i].todo
    /\ inst' = [inst EXCEPT
         ![i].todo = @ \ {x},
         ![i].rows = IF vec[x] = Absent THEN @
                     ELSE Append(@, [id |-> x, vec |-> vec[x]])]
    /\ UNCHANGED <<backend, vec, meta, config, index, op, history>>

\* The histories of an instance end with it.
Forget(i) ==
    /\ unsettled' = unsettled \ {i}
    /\ stale' = [stale EXCEPT ![i] = {}]

\* Mutant: the index is not rebuilt.
OpenWithoutRebuild(i) ==
    /\ inst[i].at = "load" /\ inst[i].todo = {}
    /\ inst' = [inst EXCEPT ![i] = [at |-> "open", opt |-> inst[i].opt]]
    /\ UNCHANGED <<backend, vec, meta, config, index, op, history>>

\* add_batch into the new index; HnswIndex refuses a row of another dimension,
\* and then new fails.
OpenFinish(i) ==
    LET rows == inst[i].rows
        refused == /\ inst[i].opt.kind = "hnsw"
                   /\ \E n \in DOMAIN rows : DimOf[rows[n].vec] # inst[i].opt.dim
    IN
    /\ inst[i].at = "load" /\ inst[i].todo = {}
    /\ IF refused
       THEN inst' = [inst EXCEPT ![i] = Closed] /\ Forget(i) /\ UNCHANGED index
       ELSE /\ inst' = [inst EXCEPT ![i] = [at |-> "open", opt |-> inst[i].opt]]
            /\ index' = [index EXCEPT ![i] = IndexAddBatch(EmptyIndex(inst[i].opt.kind), rows)]
            /\ UNCHANGED <<unsettled, stale>>
    /\ UNCHANGED <<backend, vec, meta, config, op, cut>>

\* The memory backend goes with its instance, and the process.
DropStorage ==
    IF backend = "memory"
    THEN vec' = [x \in Ids |-> Absent] /\ meta' = [x \in Ids |-> Absent] /\ cut' = {}
    ELSE UNCHANGED <<vec, meta, cut>>

\* The last reference to the VectorDB goes: no operation of it is under way.
Close(i) ==
    /\ inst[i].at = "open" /\ Using(i) = {}
    /\ inst' = [inst EXCEPT ![i] = Closed]
    /\ index' = [index EXCEPT ![i] = EmptyIndex("flat")]
    /\ DropStorage /\ Forget(i)
    /\ UNCHANGED <<backend, config, op>>

\* The process dies.  redb's committed transactions survive.
Crash ==
    /\ \E i \in Instances : inst[i] # Closed
    /\ inst' = [i \in Instances |-> Closed]
    /\ index' = [i \in Instances |-> EmptyIndex("flat")]
    /\ op' = [c \in Threads |-> Idle]
    /\ unsettled' = {} /\ stale' = [i \in Instances |-> {}]
    /\ DropStorage
    /\ UNCHANGED <<backend, config>>

-----------------------------------------------------------------------------
(* insert and insert_batch; insert is a batch of one                       *)

Accepts(i, e) == DimOf[e.vec] = inst[i].opt.dim

\* What a thread may call, as long as the bound is not reached.
MayInsert(c, i, b) ==
    /\ op[c] = Idle /\ inst[i].at = "open"
    /\ \A n \in DOMAIN b : b[n].id \in MayWrite[c]
    /\ Len(index[i].graph) < MaxPoints

\* Some thread is between the storage and the index with id x.
Pending(i, x) ==
    \E c \in Using(i) :
        \/ op[c].at \in {"remove", "unmeta"} /\ op[c].id = x
        \/ /\ op[c].at \in {"add", "vector", "metadata"}
           /\ \E n \in DOMAIN op[c].entries : op[c].entries[n].id = x

\* The ids xs are written to the storage through instance i: the other instances
\* are not told, and on i a call on the same id may reach the index first.
WrittenThrough(i, xs) ==
    stale' = [j \in Instances |->
        IF j = i THEN stale[j] \cup {x \in xs : Pending(i, x)}
        ELSE IF inst[j].at \in {"load", "open"} THEN stale[j] \cup xs ELSE stale[j]]

\* redb: one write transaction for all entries.  An entry of another dimension
\* aborts it, and nothing has changed.
InsertPersistent(c, i, b) ==
    /\ backend = "persistent" /\ MayInsert(c, i, b)
    /\ \A n \in DOMAIN b : Accepts(i, b[n])
    /\ vec' = StoreVectors(vec, b)
    /\ meta' = StoreMetas(meta, b)
    /\ op' = [op EXCEPT ![c] = [at |-> "add", i |-> i, entries |-> b]]
    /\ WrittenThrough(i, {b[n].id : n \in DOMAIN b})
    /\ UNCHANGED <<backend, config, inst, index, cut, unsettled>>

\* MemoryStorage goes through the entries one by one.
InsertMemory(c, i, b) ==
    /\ backend = "memory" /\ MayInsert(c, i, b)
    /\ op' = [op EXCEPT ![c] =
         IF b = <<>> THEN [at |-> "add", i |-> i, entries |-> b]
         ELSE [at |-> "vector", i |-> i, entries |-> b, next |-> 1]]
    /\ UNCHANGED <<backend, vec, meta, config, inst, index, history>>

\* The entry's vector is stored, or its dimension is wrong and the call
\* returns the error with the entries before it in place and none indexed.
MemoryStoreVector(c) ==
    LET e == op[c].entries[op[c].next] IN
    /\ op[c].at = "vector"
    /\ IF Accepts(op[c].i, e)
       THEN vec' = StoreVectors(vec, <<e>>) /\ op' = [op EXCEPT ![c].at = "metadata"]
       ELSE op' = [op EXCEPT ![c] = Idle] /\ UNCHANGED vec
    /\ UNCHANGED <<backend, meta, config, inst, index, history>>

MemoryStoreMetadata(c) ==
    LET o == op[c] IN
    /\ o.at = "metadata"
    /\ meta' = StoreMetas(meta, <<o.entries[o.next]>>)
    /\ op' = [op EXCEPT ![c] =
         IF o.next = Len(o.entries) THEN [at |-> "add", i |-> o.i, entries |-> o.entries]
         ELSE [o EXCEPT !.at = "vector", !.next = @ + 1]]
    /\ UNCHANGED <<backend, vec, config, inst, index, history>>

\* index.write(), add or add_batch.
AddToIndex(c) ==
    /\ op[c].at = "add" /\ IndexUnlocked(op[c].i)
    /\ index' = [index EXCEPT ![op[c].i] = IndexAddBatch(@, op[c].entries)]
    /\ op' = [op EXCEPT ![c] = Idle]
    /\ UNCHANGED <<backend, vec, meta, config, inst, history>>

-----------------------------------------------------------------------------
(* delete                                                                  *)

MayDelete(c, i, x) == op[c] = Idle /\ inst[i].at = "open" /\ x \in MayWrite[c]

\* After the storage: the index is touched only when the id was stored.
AfterDelete(i, x, deleted) ==
    IF deleted THEN [at |-> "remove", i |-> i, id |-> x] ELSE Idle

\* redb: both tables in one transaction.
DeletePersistent(c, i, x) ==
    /\ backend = "persistent" /\ MayDelete(c, i, x)
    /\ vec[x] # Absent \/ meta[x] # Absent
    /\ vec' = [vec EXCEPT ![x] = Absent]
    /\ meta' = [meta EXCEPT ![x] = Absent]
    /\ op' = [op EXCEPT ![c] = AfterDelete(i, x, vec[x] # Absent)]
    /\ WrittenThrough(i, {x})
    /\ UNCHANGED <<backend, config, inst, index, cut, unsettled>>

\* An insert has stored the vector of x and not yet its metadata.
BetweenMaps(x) ==
    \E c \in Threads :
        /\ op[c].at = "metadata"
        /\ op[c].entries[op[c].next].id = x /\ op[c].entries[op[c].next].meta # Absent

\* The two maps of MemoryStorage are written one after the other.
DeleteMemoryVector(c, i, x) ==
    /\ backend = "memory" /\ MayDelete(c, i, x)
    /\ vec' = [vec EXCEPT ![x] = Absent]
    /\ op' = [op EXCEPT ![c] =
         [at |-> "unmeta", i |-> i, id |-> x, deleted |-> vec[x] # Absent]]
    /\ cut' = IF BetweenMaps(x) THEN cut \cup {x} ELSE cut
    /\ UNCHANGED <<backend, meta, config, inst, index, unsettled, stale>>

\* Mutant: delete forgets the metadata.
DeleteMemoryKeepsMetadata(c) ==
    /\ op[c].at = "unmeta"
    /\ op' = [op EXCEPT ![c] = AfterDelete(op[c].i, op[c].id, op[c].deleted)]
    /\ UNCHANGED <<backend, vec, meta, config, inst, index, history>>

DeleteMemoryMetadata(c) ==
    /\ op[c].at = "unmeta"
    /\ meta' = [meta EXCEPT ![op[c].id] = Absent]
    /\ op' = [op EXCEPT ![c] = AfterDelete(op[c].i, op[c].id, op[c].deleted)]
    /\ cut' = IF BetweenMaps(op[c].id) THEN cut ELSE cut \ {op[c].id}
    /\ UNCHANGED <<backend, vec, config, inst, index, unsettled, stale>>

RemoveFromIndex(c) ==
    /\ op[c].at = "remove" /\ IndexUnlocked(op[c].i)
    /\ index' = [index EXCEPT ![op[c].i] = IndexRemove(@, op[c].id)]
    /\ op' = [op EXCEPT ![c] = Idle]
    /\ UNCHANGED <<backend, vec, meta, config, inst, history>>

-----------------------------------------------------------------------------
(* search                                                                  *)

\* The read lock is taken and kept; the hits of the index are collected.
SearchIndex(c, i) ==
    /\ op[c] = Idle /\ inst[i].at = "open"
    /\ op' = [op EXCEPT ![c] =
         [at |-> "enrich", i |-> i, todo |-> IndexHits(index[i]), found |-> {}]]
    /\ UNCHANGED <<backend, vec, meta, config, inst, index, history>>

\* Mutant: a hit that is not stored any more is tried again.
SearchEnrichRetries(c, h) ==
    /\ op[c].at = "enrich" /\ h \in op[c].todo /\ vec[h.id] # Absent
    /\ op' = [op EXCEPT
         ![c].todo = @ \ {h},
         ![c].found = @ \cup {[id |-> h.id, scored |-> h.scored, point |-> h.point,
                               vector |-> vec[h.id]]}]
    /\ UNCHANGED <<backend, vec, meta, config, inst, index, history>>

\* storage.get of one hit: its vector is filled in, or stays absent when the
\* id is not stored any more.
SearchEnrich(c, h) ==
    /\ op[c].at = "enrich" /\ h \in op[c].todo
    /\ op' = [op EXCEPT
         ![c].todo = @ \ {h},
         ![c].found = @ \cup {[id |-> h.id, scored |-> h.scored, point |-> h.point,
                               vector |-> vec[h.id]]}]
    /\ UNCHANGED <<backend, vec, meta, config, inst, index, history>>

\* The results are returned and the read lock goes.
SearchReturn(c) ==
    /\ op[c].at = "enrich" /\ op[c].todo = {}
    /\ op' = [op EXCEPT ![c] = Idle]
    /\ UNCHANGED <<backend, vec, meta, config, inst, index, history>>

-----------------------------------------------------------------------------

Call(c) == \E i \in Used :
    \/ \E b \in Batches : InsertPersistent(c, i, b) \/ InsertMemory(c, i, b)
    \/ \E x \in Ids : DeletePersistent(c, i, x) \/ DeleteMemoryVector(c, i, x)
    \/ c \in Searchers /\ SearchIndex(c, i)

LockIndex(c) == AddToIndex(c) \/ RemoveFromIndex(c)

Continue(c) ==
    \/ MemoryStoreVector(c)
    \/ MemoryStoreMetadata(c)
    \/ DeleteMemoryMetadata(c)
    \/ op[c].at = "enrich" /\ \E h \in op[c].todo : SearchEnrich(c, h)
    \/ SearchReturn(c)

OpenStep(i) ==
    \/ OpenSaveConfig(i)
    \/ OpenListIds(i)
    \/ \E x \in Ids : OpenLoadRow(i, x)
    \/ OpenFinish(i)

Next ==
    \/ \E c \in Threads : Call(c) \/ LockIndex(c) \/ Continue(c)
    \/ \E i \in Instances :
         \/ \E o \in Options : OpenLoadConfig(i, o) \/ OpenMemory(i, o)
         \/ OpenStep(i)
         \/ Close(i)
    \/ Crash

Spec == Init /\ [][Next]_vars

\* Threads inside an operation or inside new keep running, and parking_lot's
\* RwLock does not overtake a waiting writer for ever.
Fairness ==
    /\ \A c \in Threads : WF_vars(Continue(c)) /\ SF_vars(LockIndex(c))
    /\ \A i \in Instances : WF_vars(OpenStep(i))

FairSpec == Spec /\ Fairness

-----------------------------------------------------------------------------
(* Properties                                                              *)

Entry == [id : Ids, vec : Vectors, meta : Metas \cup {Absent}]

Hit == [id : Ids, scored : Vectors, point : Nat]

\* The values each variable takes.
TypeOK ==
    /\ backend \in Backends
    /\ vec \in [Ids -> Vectors \cup {Absent}]
    /\ meta \in [Ids -> Metas \cup {Absent}]
    /\ config \in Options \cup {Absent}
    /\ \A i \in Instances :
         /\ inst[i].at \in {"closed", "save", "list", "load", "open"}
         /\ inst[i] # Closed => inst[i].opt \in Options
         /\ index[i].vectors \in [Ids -> Vectors \cup {Absent}]
         /\ index[i].graph \in Seq([id : Ids, vec : Vectors, live : BOOLEAN])
         /\ index[i].idx \in [Ids -> 0..Len(index[i].graph)]
    /\ \A c \in Threads :
         \/ op[c] = Idle
         \/ /\ op[c].i \in Instances
            /\ \/ op[c].at \in {"add", "vector", "metadata"} /\ op[c].entries \in Batches
               \/ op[c].at \in {"remove", "unmeta"} /\ op[c].id \in Ids
               \/ op[c].at = "enrich" /\ op[c].todo \subseteq Hit
    /\ cut \subseteq Ids /\ unsettled \subseteq Instances
    /\ stale \in [Instances -> SUBSET Ids]

\* An open index holds what the storage holds, for every id that no operation
\* is in the middle of: no lost entry, no ghost, no old vector, after any mix
\* of inserts, deletes, searches, reopenings and crashes.  What sets an index
\* apart for an id, until it is rebuilt, is a write through another instance, or
\* two calls on the id that overlap (vector_db.rs:337 and :431 hold no lock over
\* storage and index).  Without transactions a batch that fails half way leaves
\* rows that are not indexed.
IndexMatchesStorage ==
    backend = "persistent" =>
        \A i \in Instances : inst[i].at = "open" =>
            \A x \in Ids \ stale[i] : ~Pending(i, x) => index[i].vectors[x] = vec[x]

\* The graph has more than one point of x: an old one may still be mapped.
Repeated(ix, x) ==
    \E m, n \in DOMAIN ix.graph : m # n /\ ix.graph[m].id = x /\ ix.graph[n].id = x

\* Everything a search can find for an id that no operation is in the middle
\* of is the stored vector, once: no deleted id, no superseded point.  An id
\* that was inserted twice since the index was built is the exception the HNSW
\* index makes; an id the index is stale for is the other.
HitsAreStored ==
    backend = "persistent" =>
        \A i \in Instances : inst[i].at = "open" =>
            \A h \in IndexHits(index[i]) :
                ~Pending(i, h.id) /\ ~Repeated(index[i], h.id) /\ h.id \notin stale[i] =>
                    /\ h.scored = vec[h.id]
                    /\ \A g \in IndexHits(index[i]) : g.id = h.id => g = h

\* A hit whose stored vector is not the one its score was computed from, or is
\* gone, is explained by an operation on that id that has reached the storage
\* and waits for the search to let go of the index, if the index is not stale
\* for the id.
HitsExplained ==
    backend = "persistent" =>
        \A c \in Threads : op[c].at = "enrich" =>
            \A h \in op[c].found :
                /\ h.vector # h.scored /\ ~Repeated(index[op[c].i], h.id)
                /\ h.id \notin stale[op[c].i]
                => Pending(op[c].i, h.id)

\* Metadata without a vector, which a later insert without metadata brings back
\* to life, is seen only between the two maps of a delete of the memory backend,
\* and stays only when that delete came between the two maps of an insert of the
\* id (storage_memory.rs:51-63 against :126-130).
NoOrphanMetadata ==
    \A x \in Ids : meta[x] # Absent /\ vec[x] = Absent =>
        /\ backend = "memory"
        /\ x \in cut \/ \E c \in Threads : op[c].at = "unmeta" /\ op[c].id = x

\* An open instance runs with the stored configuration: "If opening an existing
\* database, the stored configuration (dimensions, distance metric, etc.) will
\* be used" (vector_db.rs:103).  Those that do not were opened while another
\* was between finding no configuration and saving its own.
ConfigAgrees ==
    backend = "persistent" =>
        \A i \in Instances \ unsettled : inst[i].at = "open" => inst[i].opt = config

-----------------------------------------------------------------------------

\* Operations and openings end, whatever the others do: again and again a thread
\* is in no operation, and an instance not in the middle of new.
OperationsEnd ==
    /\ \A c \in Threads : []<>(op[c] = Idle)
    /\ \A i \in Instances : []<>(inst[i].at \in {"closed", "open"})

=============================================================================
