---------------------------- MODULE StoragePool ----------------------------
(***************************************************************************)
(* The process-wide pool of redb databases behind VectorStorage            *)
(* (crates/ruvector-core/src/storage.rs).                                  *)
(*                                                                         *)
(* Every VectorStorage opened on a path shares one redb Database through a *)
(* per-path slot.  DB_POOL maps the path to an Arc of the slot; the slot   *)
(* is a mutex around a Weak reference to the Database.  A client is one    *)
(* VectorStorage value with the thread that opens and later drops it.      *)
(*                                                                         *)
(* The critical sections of the pool mutex touch only the map and the      *)
(* reference counts of slots, take no other lock, and are one step each.   *)
(* What runs under a slot's mutex is slow (create, initialise, fsync) and  *)
(* is broken into its steps.  A strong count is not a variable: it is the  *)
(* number of clients that hold a clone, read where the code reads it.      *)
(***************************************************************************)

CONSTANTS
    Clients,        \* VectorStorage values, each driven by one thread
    Paths,          \* the PathBuf keys of DB_POOL
    Names,          \* directory entries
    NameOf,         \* the directory entry a path resolves to
    Slots,          \* allocations of a PathSlot
    Databases,      \* allocations of a redb Database
    Inodes,         \* files on disk
    None            \* absent value of every optional field

ASSUME PoolAssumption ==
    /\ NameOf \in [Paths -> Names]
    /\ None \notin Clients \cup Paths \cup Slots \cup Databases \cup Inodes

VARIABLES
    pc,             \* where each client is in new / drop
    path,           \* self.path of each client, or None
    slot,           \* the client's Arc<PathSlot>, or None
    db,             \* the client's Arc<Database>, or None
    pool,           \* DB_POOL: path -> slot or None
    guard,          \* the client that holds the mutex of a slot, or None
    weak,           \* what a slot's Weak points at, or None
    file,           \* the inode a Database has open and locked, or None
    dir             \* the inode a directory entry points at, or None

poolVars == <<pc, path, slot, db, pool, guard, weak, file, dir>>

-----------------------------------------------------------------------------

\* States in which the client holds the mutex of its slot.
Locked == {"opening", "init", "abandon", "dropping", "closing"}

\* States in which the client owns a strong reference to its database; in
\* "abandon" and "closing" the last one is gone and Database::drop is running.
Strong == {"init", "held", "leaving", "dropping"}

PCs == Locked \cup {"idle", "claimed", "held", "leaving", "release"}

\* Arc::strong_count(&db) > 0: the database is not being dropped.
StronglyHeld(d) == \E c \in Clients : pc[c] \in Strong /\ db[c] = d

\* Weak::upgrade succeeds on the contents of the slot.
Upgradable(s) == weak[s] # None /\ StronglyHeld(weak[s])

\* Some Database of this process holds the redb file lock of inode i.
FileLocked(i) == \E d \in Databases : file[d] = i

FreeSlots == {s \in Slots : /\ \A c \in Clients : slot[c] # s
                            /\ \A p \in Paths : pool[p] # s}

FreeDatabases == {d \in Databases : /\ file[d] = None
                                    /\ \A s \in Slots : weak[s] # d}

FreeInodes == {i \in Inodes : ~FileLocked(i) /\ \A n \in Names : dir[n] # i}

PoolInit ==
    /\ pc = [c \in Clients |-> "idle"]
    /\ path = [c \in Clients |-> None]
    /\ slot = [c \in Clients |-> None]
    /\ db = [c \in Clients |-> None]
    /\ pool = [p \in Paths |-> None]
    /\ guard = [s \in Slots |-> None]
    /\ weak = [s \in Slots |-> None]
    /\ file = [d \in Databases |-> None]
    /\ dir = [n \in Names |-> None]

-----------------------------------------------------------------------------
(* VectorStorage::new                                                      *)

\* pool.entry(path).or_default() and Arc::clone, under the pool mutex.
ClaimSlot(c, p) ==
    /\ pc[c] = "idle"
    /\ \E s \in Slots :
         /\ IF pool[p] = None THEN s \in FreeSlots ELSE s = pool[p]
         /\ slot' = [slot EXCEPT ![c] = s]
         /\ pool' = [pool EXCEPT ![p] = s]
         /\ weak' = IF pool[p] = None THEN [weak EXCEPT ![s] = None] ELSE weak
    /\ path' = [path EXCEPT ![c] = p]
    /\ pc' = [pc EXCEPT ![c] = "claimed"]
    /\ UNCHANGED <<db, guard, file, dir>>

\* Mutant: the slot is used without its mutex.
LockToOpenUnguarded(c) ==
    /\ pc[c] = "claimed"
    /\ guard' = [guard EXCEPT ![slot[c]] = c]
    /\ pc' = [pc EXCEPT ![c] = "opening"]
    /\ UNCHANGED <<path, slot, db, pool, weak, file, dir>>

\* slot.lock() at the head of open_pooled.
LockToOpen(c) ==
    /\ pc[c] = "claimed"
    /\ guard[slot[c]] = None
    /\ guard' = [guard EXCEPT ![slot[c]] = c]
    /\ pc' = [pc EXCEPT ![c] = "opening"]
    /\ UNCHANGED <<path, slot, db, pool, weak, file, dir>>

\* The Weak upgrades: reuse the open database and unlock.
Reuse(c) ==
    /\ pc[c] = "opening"
    /\ Upgradable(slot[c])
    /\ db' = [db EXCEPT ![c] = weak[slot[c]]]
    /\ guard' = [guard EXCEPT ![slot[c]] = None]
    /\ pc' = [pc EXCEPT ![c] = "held"]
    /\ UNCHANGED <<path, slot, pool, weak, file, dir>>

\* Database::create opens the file, creating it when the name is not there,
\* and takes redb's lock on it.
CreateDatabase(c) ==
    LET n == NameOf[path[c]] IN
    /\ pc[c] = "opening"
    /\ ~Upgradable(slot[c])
    /\ \E d \in FreeDatabases, i \in Inodes :
         /\ IF dir[n] = None THEN i \in FreeInodes
                             ELSE i = dir[n] /\ ~FileLocked(i)
         /\ db' = [db EXCEPT ![c] = d]
         /\ file' = [file EXCEPT ![d] = i]
         /\ dir' = [dir EXCEPT ![n] = i]
    /\ pc' = [pc EXCEPT ![c] = "init"]
    /\ UNCHANGED <<path, slot, pool, guard, weak>>

\* Mutant: the error path leaves the slot's mutex locked.
CreateFindsFileLockedKeepsGuard(c) ==
    LET n == NameOf[path[c]] IN
    /\ pc[c] = "opening"
    /\ ~Upgradable(slot[c])
    /\ dir[n] # None /\ FileLocked(dir[n])
    /\ pc' = [pc EXCEPT ![c] = "release"]
    /\ UNCHANGED <<path, slot, db, pool, guard, weak, file, dir>>

\* Database::create returns DatabaseAlreadyOpen: a Database of this process
\* has the file locked.
CreateFindsFileLocked(c) ==
    LET n == NameOf[path[c]] IN
    /\ pc[c] = "opening"
    /\ ~Upgradable(slot[c])
    /\ dir[n] # None /\ FileLocked(dir[n])
    /\ guard' = [guard EXCEPT ![slot[c]] = None]
    /\ pc' = [pc EXCEPT ![c] = "release"]
    /\ UNCHANGED <<path, slot, db, pool, weak, file, dir>>

\* Database::create fails for a reason outside this process: an I/O error, or
\* another process that has the file open.  A file it made may stay behind.
CreateFails(c) ==
    LET n == NameOf[path[c]] IN
    /\ pc[c] = "opening"
    /\ ~Upgradable(slot[c])
    /\ \/ dir' = dir
       \/ dir[n] = None /\ \E i \in FreeInodes : dir' = [dir EXCEPT ![n] = i]
    /\ guard' = [guard EXCEPT ![slot[c]] = None]
    /\ pc' = [pc EXCEPT ![c] = "release"]
    /\ UNCHANGED <<path, slot, db, pool, weak, file>>

\* The tables are initialised: publish the Weak and unlock.
Publish(c) ==
    /\ pc[c] = "init"
    /\ weak' = [weak EXCEPT ![slot[c]] = db[c]]
    /\ guard' = [guard EXCEPT ![slot[c]] = None]
    /\ pc' = [pc EXCEPT ![c] = "held"]
    /\ UNCHANGED <<path, slot, db, pool, file, dir>>

\* begin_write, open_table or commit fails: new_db goes out of scope, before
\* the guard does.
InitTablesFails(c) ==
    /\ pc[c] = "init"
    /\ pc' = [pc EXCEPT ![c] = "abandon"]
    /\ UNCHANGED <<path, slot, db, pool, guard, weak, file, dir>>

-----------------------------------------------------------------------------
(* VectorStorage::drop                                                     *)

\* self.pooled.take(): the thread has entered drop and keeps both references.
StartDrop(c) ==
    /\ pc[c] = "held"
    /\ pc' = [pc EXCEPT ![c] = "leaving"]
    /\ UNCHANGED <<path, slot, db, pool, guard, weak, file, dir>>

LockToDrop(c) ==
    /\ pc[c] = "leaving"
    /\ guard[slot[c]] = None
    /\ guard' = [guard EXCEPT ![slot[c]] = c]
    /\ pc' = [pc EXCEPT ![c] = "dropping"]
    /\ UNCHANGED <<path, slot, db, pool, weak, file, dir>>

\* Arc::strong_count(&db) == 1, read while the client owns db.
LastReference(c) == \A o \in Clients \ {c} : ~(pc[o] \in Strong /\ db[o] = db[c])

\* Another handle shares the database: only the count goes down.
DropShared(c) ==
    /\ pc[c] = "dropping"
    /\ ~LastReference(c)
    /\ db' = [db EXCEPT ![c] = None]
    /\ guard' = [guard EXCEPT ![slot[c]] = None]
    /\ pc' = [pc EXCEPT ![c] = "release"]
    /\ UNCHANGED <<path, slot, pool, weak, file, dir>>

\* Mutant: the guard goes before Database::drop runs.
DropLastUnlocksFirst(c) ==
    /\ pc[c] = "dropping"
    /\ LastReference(c)
    /\ weak' = [weak EXCEPT ![slot[c]] = None]
    /\ guard' = [guard EXCEPT ![slot[c]] = None]
    /\ pc' = [pc EXCEPT ![c] = "closing"]
    /\ UNCHANGED <<path, slot, db, pool, file, dir>>

\* The last handle evicts the Weak and starts Database::drop: from here on
\* upgrade would fail, and the file stays locked until CloseDatabase.
DropLast(c) ==
    /\ pc[c] = "dropping"
    /\ LastReference(c)
    /\ weak' = [weak EXCEPT ![slot[c]] = None]
    /\ pc' = [pc EXCEPT ![c] = "closing"]
    /\ UNCHANGED <<path, slot, db, pool, guard, file, dir>>

\* Database::drop has committed, fsynced and released the file lock; then the
\* guard goes.  Also the end of a failed initialisation.
CloseDatabase(c) ==
    /\ pc[c] \in {"closing", "abandon"}
    /\ file' = [file EXCEPT ![db[c]] = None]
    /\ db' = [db EXCEPT ![c] = None]
    /\ guard' = [guard EXCEPT ![slot[c]] = None]
    /\ pc' = [pc EXCEPT ![c] = "release"]
    /\ UNCHANGED <<path, slot, pool, weak, dir>>

\* Mutant: the count is read before the own clone is dropped, and is never one.
ReleaseSlotCountsItself(c) ==
    /\ pc[c] = "release"
    /\ slot' = [slot EXCEPT ![c] = None]
    /\ path' = [path EXCEPT ![c] = None]
    /\ pc' = [pc EXCEPT ![c] = "idle"]
    /\ UNCHANGED <<db, pool, guard, weak, file, dir>>

\* release_slot_if_unused, under the pool mutex: give the clone up, and remove
\* the entry when it is ours and the pool's own reference is the only one left.
ReleaseSlot(c) ==
    LET p == path[c]
        unused == \A o \in Clients \ {c} : slot[o] # slot[c]
    IN
    /\ pc[c] = "release"
    /\ pool' = IF pool[p] = slot[c] /\ unused
               THEN [pool EXCEPT ![p] = None] ELSE pool
    /\ slot' = [slot EXCEPT ![c] = None]
    /\ path' = [path EXCEPT ![c] = None]
    /\ pc' = [pc EXCEPT ![c] = "idle"]
    /\ UNCHANGED <<db, guard, weak, file, dir>>

-----------------------------------------------------------------------------

\* Somebody unlinks the file; an open Database keeps its inode.
Erase(n) ==
    /\ dir[n] # None
    /\ dir' = [dir EXCEPT ![n] = None]
    /\ UNCHANGED <<pc, path, slot, db, pool, guard, weak, file>>

LockSlot(c) == LockToOpen(c) \/ LockToDrop(c)

\* What a thread inside new or drop does once it is past its lock.
Step(c) ==
    \/ Reuse(c)
    \/ CreateDatabase(c)
    \/ CreateFindsFileLocked(c)
    \/ CreateFails(c)
    \/ Publish(c)
    \/ InitTablesFails(c)
    \/ DropShared(c)
    \/ DropLast(c)
    \/ CloseDatabase(c)
    \/ ReleaseSlot(c)

ClientNext(c) ==
    \/ \E p \in Paths : ClaimSlot(c, p)
    \/ StartDrop(c)
    \/ LockSlot(c)
    \/ Step(c)

PoolNext ==
    \/ \E c \in Clients : ClientNext(c)
    \/ \E n \in Names : Erase(n)

PoolSpec == PoolInit /\ [][PoolNext]_poolVars

\* A thread inside new or drop keeps running, and parking_lot's mutex is
\* eventually fair, so a thread cannot be overtaken at a slot for ever.
PoolFairness == \A c \in Clients : WF_poolVars(Step(c)) /\ SF_poolVars(LockSlot(c))

PoolFairSpec == PoolSpec /\ PoolFairness

-----------------------------------------------------------------------------
(* Properties                                                              *)

\* The values each variable takes.
PoolTypeOK ==
    /\ pc \in [Clients -> PCs]
    /\ path \in [Clients -> Paths \cup {None}]
    /\ slot \in [Clients -> Slots \cup {None}]
    /\ db \in [Clients -> Databases \cup {None}]
    /\ pool \in [Paths -> Slots \cup {None}]
    /\ guard \in [Slots -> Clients \cup {None}]
    /\ weak \in [Slots -> Databases \cup {None}]
    /\ file \in [Databases -> Inodes \cup {None}]
    /\ dir \in [Names -> Inodes \cup {None}]

\* All clients between new and the end of drop on one path go through one
\* slot, the one in the pool: a slot is never removed from DB_POOL under a
\* thread that has claimed it but not yet locked it (storage.rs, the reference
\* count check of release_slot_if_unused).
OneSlotPerPath == \A c \in Clients : slot[c] # None => pool[path[c]] = slot[c]

\* DB_POOL keeps no dead entry: an entry's slot is still claimed by some client
\* on that path, so the last drop (or the last failed open) has removed it.
NoLeakedEntry ==
    \A p \in Paths : pool[p] # None =>
        \E c \in Clients : path[c] = p /\ slot[c] = pool[p]

\* Handles on one path share one Database, handles on different paths never do.
SharedDatabase ==
    \A a, b \in Clients :
        pc[a] \in {"held", "leaving"} /\ pc[b] \in {"held", "leaving"} =>
            (db[a] = db[b] <=> path[a] = path[b])

\* The pool keeps no database alive on its own: an open file belongs to a
\* client that holds its Database or is closing it, so a path that is erased
\* after its last handle has dropped is opened afresh.
OnlyClientsKeepFilesOpen ==
    \A d \in Databases : file[d] # None => \E c \in Clients : db[c] = d

\* An open never runs into a file lock of its own process: when it has to
\* create, no Database here, live or half closed, has the file of that name.
NoSelfLockout ==
    \A c \in Clients :
        pc[c] = "opening" /\ ~Upgradable(slot[c]) =>
            LET i == dir[NameOf[path[c]]] IN i # None => ~FileLocked(i)

\* A thread that has entered new or drop comes out of it, whatever the other
\* threads do and whichever step fails.
PoolOperationsEnd ==
    \A c \in Clients : pc[c] \notin {"idle", "held"} ~> pc[c] \in {"idle", "held"}

-----------------------------------------------------------------------------
(* Refinement of SharedFile                                                *)

\* The path a client has open, and the file its handle reads and writes.
SharedAt == [c \in Clients |-> IF pc[c] \in Strong THEN path[c] ELSE None]

SharedSees == [c \in Clients |-> IF pc[c] \in Strong THEN file[db[c]] ELSE None]

Shared == INSTANCE SharedFile WITH at <- SharedAt, sees <- SharedSees

\* The pool implements SharedFile: whatever the interleaving of opens, drops,
\* failures and erasures, a handle sees the file of the handles on its path,
\* and the file the name has now when it is the first.
ImplementsSharedFile == Shared!Spec

=============================================================================
