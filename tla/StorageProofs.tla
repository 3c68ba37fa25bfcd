--------------------------- MODULE StorageProofs ---------------------------
(***************************************************************************)
(* Safety of StoragePool and of VectorDb, for every set of threads, paths, *)
(* files, instances, ids and batches.                                      *)
(*                                                                         *)
(* The pool: all clients on a path go through one slot (OneSlotPerPath and *)
(* PoolInjective), whose mutex one of them holds (GuardOwner); the slot's  *)
(* Weak and the strong references agree whenever nobody is between         *)
(* creating and publishing or between evicting and closing (WeakIsHeld,    *)
(* HeldIsWeak, AloneInside); and a database belongs to one path (OnePath). *)
(*                                                                         *)
(* VectorDb: a call keeps its instance open and a search keeps its index   *)
(* locked (CallOK), and the number an index maps for an id is that of its  *)
(* live point (IndexOK).  Upon this, rows and calls under way agree with   *)
(* the storage (RowsSync, CallSync): where index and storage differ, some  *)
(* thread is between the two (SyncInv), or the index is stale for the id.  *)
(* Metadata without a vector has a delete to answer for it (MetaInv), and  *)
(* who saves a configuration beside others is unsettled (ConfigInv).       *)
(***************************************************************************)
EXTENDS StoragePool, VectorDb, WellFoundedInduction, TLAPS

-----------------------------------------------------------------------------
(* StoragePool                                                             *)

\* Clients that own a published strong reference.
Holding == {"held", "leaving", "dropping"}

\* Clients whose database is not in the Weak: not published yet, or evicted.
Inside == {"init", "abandon", "closing"}

PcShape ==
    \A c \in Clients :
        /\ slot[c] = None <=> pc[c] = "idle"
        /\ path[c] = None <=> pc[c] = "idle"
        /\ db[c] # None <=> pc[c] \in Holding \cup Inside

PoolInjective ==
    \A p, q \in Paths : pool[p] # None /\ pool[p] = pool[q] => p = q

GuardOwner ==
    \A s \in Slots, c \in Clients :
        guard[s] = c <=> pc[c] \in Locked /\ slot[c] = s

HeldIsWeak == \A c \in Clients : pc[c] \in Holding => weak[slot[c]] = db[c]

WeakIsHeld ==
    \A s \in Slots : weak[s] # None =>
        \E c \in Clients : pc[c] \in Holding /\ slot[c] = s

AloneInside ==
    \A c \in Clients : pc[c] \in Inside =>
        /\ weak[slot[c]] = None
        /\ \A o \in Clients : db[o] = db[c] => o = c

OnePath ==
    \A a, b \in Clients : db[a] # None /\ db[a] = db[b] => path[a] = path[b]

OwnedFile == \A c \in Clients : db[c] # None => file[db[c]] # None

PoolInv == OneSlotPerPath /\ PoolInjective /\ NoLeakedEntry

WeakInv == HeldIsWeak /\ WeakIsHeld /\ AloneInside

FileInv == OnePath /\ OwnedFile /\ OnlyClientsKeepFilesOpen

IndInv == PoolTypeOK /\ PcShape /\ PoolInv /\ GuardOwner /\ WeakInv /\ FileInv

-----------------------------------------------------------------------------
(* The inductive invariant, one lemma for each of its parts.               *)

LEMMA InitIndInv == PoolInit => IndInv
BY PoolAssumption DEF PoolInit, IndInv, PoolTypeOK, PcShape, PoolInv, OneSlotPerPath,
   PoolInjective, NoLeakedEntry, GuardOwner, WeakInv, HeldIsWeak, WeakIsHeld,
   AloneInside, FileInv, OnePath, OwnedFile, OnlyClientsKeepFilesOpen, Locked,
   PCs, Holding, Inside

LEMMA TypeStep ==
  ASSUME PoolTypeOK, PcShape, NEW c \in Clients, ClientNext(c)
  PROVE  PoolTypeOK' /\ PcShape'
<1> USE PoolAssumption DEF PoolTypeOK, PcShape, PCs, Locked, Holding, Inside
<1>1. ASSUME NEW p \in Paths, ClaimSlot(c, p) PROVE PoolTypeOK' /\ PcShape'
  BY <1>1 DEF ClaimSlot, FreeSlots
<1>2. CASE LockSlot(c) \/ StartDrop(c) \/ InitTablesFails(c)
  BY <1>2 DEF LockSlot, LockToOpen, LockToDrop, StartDrop, InitTablesFails
<1>3. CASE Reuse(c) \/ Publish(c)
  BY <1>3 DEF Reuse, Publish, Upgradable
<1>4. CASE CreateDatabase(c)
  BY <1>4 DEF CreateDatabase, FreeDatabases, FreeInodes
<1>5. CASE CreateFindsFileLocked(c) \/ CreateFails(c)
  BY <1>5 DEF CreateFindsFileLocked, CreateFails, FreeInodes
<1>6. CASE DropShared(c) \/ DropLast(c) \/ CloseDatabase(c)
  BY <1>6 DEF DropShared, DropLast, CloseDatabase
<1>7. CASE ReleaseSlot(c)
  BY <1>7 DEF ReleaseSlot
<1> QED BY <1>1, <1>2, <1>3, <1>4, <1>5, <1>6, <1>7
        DEF ClientNext, LockSlot, Step

\* Only claiming and releasing touch the pool and the slots clients hold.
LEMMA PoolStep ==
  ASSUME PoolTypeOK, PcShape, PoolInv, NEW c \in Clients, ClientNext(c)
  PROVE  PoolInv'
<1> USE PoolAssumption
        DEF PoolTypeOK, PoolInv, OneSlotPerPath, PoolInjective, NoLeakedEntry
<1>1. ASSUME NEW p \in Paths, ClaimSlot(c, p) PROVE PoolInv'
  BY <1>1 DEF ClaimSlot, FreeSlots, PcShape
<1>2. CASE ReleaseSlot(c)
  BY <1>2 DEF ReleaseSlot, PcShape
<1>3. CASE UNCHANGED <<path, slot, pool>>
  BY <1>3
<1>4. ClientNext(c) => \/ \E p \in Paths : ClaimSlot(c, p)
                       \/ ReleaseSlot(c)
                       \/ UNCHANGED <<path, slot, pool>>
  BY DEF ClientNext, LockSlot, Step, LockToOpen, Reuse, CreateDatabase,
         CreateFindsFileLocked, CreateFails, Publish, InitTablesFails, StartDrop,
         LockToDrop, DropShared, DropLast, CloseDatabase
<1> QED BY <1>1, <1>2, <1>3, <1>4

\* A client leaves the locked states exactly when it gives the mutex up.
LEMMA GuardStep ==
  ASSUME PoolTypeOK, PcShape, GuardOwner, NEW c \in Clients, ClientNext(c)
  PROVE  GuardOwner'
<1> USE PoolAssumption DEF PoolTypeOK, GuardOwner, Locked
<1>1. ASSUME NEW p \in Paths, ClaimSlot(c, p) PROVE GuardOwner'
  BY <1>1 DEF ClaimSlot
<1>2. CASE LockSlot(c)
  BY <1>2 DEF LockSlot, LockToOpen, LockToDrop, PcShape
<1>3. CASE Reuse(c) \/ CreateFindsFileLocked(c) \/ CreateFails(c)
  BY <1>3, PcShape DEF Reuse, CreateFindsFileLocked, CreateFails, PcShape
<1>4. CASE Publish(c) \/ DropShared(c) \/ CloseDatabase(c)
  BY <1>4 DEF Publish, DropShared, CloseDatabase, PcShape
<1>5. CASE CreateDatabase(c) \/ InitTablesFails(c) \/ StartDrop(c) \/ DropLast(c)
  BY <1>5 DEF CreateDatabase, InitTablesFails, StartDrop, DropLast
<1>6. CASE ReleaseSlot(c)
  BY <1>6 DEF ReleaseSlot, PcShape
<1> QED BY <1>1, <1>2, <1>3, <1>4, <1>5, <1>6 DEF ClientNext, Step

\* The Weak and the strong references change together, under the guard.
LEMMA WeakStep ==
  ASSUME IndInv, NEW c \in Clients, ClientNext(c)
  PROVE  WeakInv'
<1> USE PoolAssumption DEF IndInv, PoolTypeOK, PcShape, GuardOwner, WeakInv,
        HeldIsWeak, WeakIsHeld, AloneInside, Holding, Inside, Locked, Strong
<1>1. ASSUME NEW p \in Paths, ClaimSlot(c, p) PROVE WeakInv'
  BY <1>1 DEF ClaimSlot, FreeSlots
<1>2. CASE LockSlot(c) \/ StartDrop(c) \/ InitTablesFails(c)
  BY <1>2 DEF LockSlot, LockToOpen, LockToDrop, StartDrop, InitTablesFails
<1>3. CASE Reuse(c)
  BY <1>3 DEF Reuse, Upgradable, StronglyHeld
<1>4. CASE CreateDatabase(c)
  BY <1>4 DEF CreateDatabase, FreeDatabases, Upgradable, StronglyHeld,
              FileInv, OwnedFile
<1>5. CASE CreateFindsFileLocked(c) \/ CreateFails(c)
  BY <1>5 DEF CreateFindsFileLocked, CreateFails
<1>6. CASE Publish(c)
  BY <1>6 DEF Publish
<1>7. CASE DropShared(c)
  BY <1>7 DEF DropShared, LastReference, PoolInv, OneSlotPerPath, FileInv, OnePath
<1>8. CASE DropLast(c)
  BY <1>8 DEF DropLast, LastReference
<1>9. CASE CloseDatabase(c)
  BY <1>9 DEF CloseDatabase
<1>10. CASE ReleaseSlot(c)
  BY <1>10 DEF ReleaseSlot
<1> QED BY <1>1, <1>2, <1>3, <1>4, <1>5, <1>6, <1>7, <1>8, <1>9, <1>10
        DEF ClientNext, Step

\* A database is created under one path, reached through that path's Weak
\* only, and its file is released when its last owner is done with it.
LEMMA FileStep ==
  ASSUME IndInv, NEW c \in Clients, ClientNext(c)
  PROVE  FileInv'
<1> USE PoolAssumption DEF IndInv, PoolTypeOK, PcShape, FileInv, OnePath, OwnedFile,
        OnlyClientsKeepFilesOpen, Holding, Inside
<1>1. ASSUME NEW p \in Paths, ClaimSlot(c, p) PROVE FileInv'
  BY <1>1 DEF ClaimSlot
<1>2. CASE UNCHANGED <<path, db, file>>
  BY <1>2
<1>3. CASE Reuse(c)
  BY <1>3 DEF Reuse, Upgradable, WeakInv, HeldIsWeak, WeakIsHeld, PoolInv,
              OneSlotPerPath, PoolInjective
<1>4. CASE CreateDatabase(c)
  BY <1>4 DEF CreateDatabase, FreeDatabases
<1>5. CASE DropShared(c)
  BY <1>5 DEF DropShared, LastReference
<1>6. CASE CloseDatabase(c)
  BY <1>6 DEF CloseDatabase, WeakInv, AloneInside
<1>7. CASE ReleaseSlot(c)
  BY <1>7 DEF ReleaseSlot
<1>8. \/ \E p \in Paths : ClaimSlot(c, p)
      \/ UNCHANGED <<path, db, file>>
      \/ Reuse(c) \/ CreateDatabase(c) \/ DropShared(c) \/ CloseDatabase(c)
      \/ ReleaseSlot(c)
  BY DEF ClientNext, LockSlot, Step, LockToOpen, CreateFindsFileLocked,
         CreateFails, Publish, InitTablesFails, StartDrop, LockToDrop, DropLast
<1> QED BY <1>1, <1>2, <1>3, <1>4, <1>5, <1>6, <1>7, <1>8

LEMMA EraseStep ==
  ASSUME IndInv, NEW n \in Names, Erase(n)
  PROVE  IndInv'
BY PoolAssumption DEF Erase, IndInv, PoolTypeOK, PcShape, PoolInv, OneSlotPerPath,
   PoolInjective, NoLeakedEntry, GuardOwner, WeakInv, HeldIsWeak, WeakIsHeld,
   AloneInside, FileInv, OnePath, OwnedFile, OnlyClientsKeepFilesOpen

\* IndInv is an invariant of the pool.
LEMMA Inductive == PoolSpec => []IndInv
<1>1. IndInv /\ [PoolNext]_poolVars => IndInv'
  <2> SUFFICES ASSUME IndInv, [PoolNext]_poolVars PROVE IndInv'
    OBVIOUS
  <2>1. ASSUME NEW c \in Clients, ClientNext(c) PROVE IndInv'
    BY <2>1, TypeStep, PoolStep, GuardStep, WeakStep, FileStep DEF IndInv
  <2>2. ASSUME NEW n \in Names, Erase(n) PROVE IndInv'
    BY <2>2, EraseStep
  <2>3. CASE UNCHANGED poolVars
    BY <2>3 DEF poolVars, IndInv, PoolTypeOK, PcShape, PoolInv, OneSlotPerPath,
       PoolInjective, NoLeakedEntry, GuardOwner, WeakInv, HeldIsWeak, WeakIsHeld,
       AloneInside, FileInv, OnePath, OwnedFile, OnlyClientsKeepFilesOpen
  <2> QED BY <2>1, <2>2, <2>3 DEF PoolNext
<1> QED BY InitIndInv, <1>1, PTL DEF PoolSpec

-----------------------------------------------------------------------------
(* What follows from it.                                                   *)

\* For every number of clients, paths and files: all clients on a path use the
\* slot in DB_POOL, no entry outlives its users, and no file stays open after
\* the last handle on it is gone.
THEOREM PoolSafety ==
  PoolSpec => [](PoolTypeOK /\ OneSlotPerPath /\ NoLeakedEntry /\ OnlyClientsKeepFilesOpen)
<1>1. IndInv => PoolTypeOK /\ OneSlotPerPath /\ NoLeakedEntry /\ OnlyClientsKeepFilesOpen
  BY DEF IndInv, PoolInv, FileInv
<1> QED BY Inductive, <1>1, PTL

\* Handles on one path share one Database, and no two paths share one.
THEOREM HandlesShareDatabase == PoolSpec => []SharedDatabase
<1>1. IndInv => SharedDatabase
  BY DEF IndInv, PoolTypeOK, PcShape, PoolInv, OneSlotPerPath, WeakInv, HeldIsWeak,
         FileInv, OnePath, SharedDatabase, Holding
<1> QED BY Inductive, <1>1, PTL

\* A name and an open database that have the same inode belong together.
NameInode ==
    /\ \A m, n \in Names : dir[m] # None /\ dir[m] = dir[n] => m = n
    /\ \A c \in Clients, n \in Names :
         db[c] # None /\ dir[n] = file[db[c]] => NameOf[path[c]] = n

LEMMA NameInodeInv == PoolSpec => []NameInode
<1> USE PoolAssumption DEF NameInode, IndInv, PoolTypeOK, PcShape, FileInv, OwnedFile,
        Holding, Inside
<1>1. PoolInit => NameInode
  BY DEF PoolInit
<1>2. IndInv /\ IndInv' /\ NameInode /\ [PoolNext]_poolVars => NameInode'
  <2> SUFFICES ASSUME IndInv, IndInv', NameInode, [PoolNext]_poolVars PROVE NameInode'
    OBVIOUS
  <2>1. ASSUME NEW c \in Clients, CreateDatabase(c) PROVE NameInode'
    BY <2>1 DEF CreateDatabase, FreeInodes, FileLocked, FreeDatabases
  <2>2. ASSUME NEW c \in Clients, CreateFails(c) PROVE NameInode'
    BY <2>2 DEF CreateFails, FreeInodes, FileLocked
  <2>3. ASSUME NEW c \in Clients, Reuse(c) PROVE NameInode'
    BY <2>3 DEF Reuse, Upgradable, StronglyHeld, Strong, OnePath
  <2>4. ASSUME NEW c \in Clients, DropShared(c) \/ CloseDatabase(c)
        PROVE  NameInode'
    BY <2>4 DEF DropShared, CloseDatabase, WeakInv, AloneInside
  <2>5. ASSUME NEW c \in Clients,
               ReleaseSlot(c) \/ \E p \in Paths : ClaimSlot(c, p)
        PROVE  NameInode'
    BY <2>5 DEF ReleaseSlot, ClaimSlot
  <2>6. ASSUME NEW n \in Names, Erase(n) PROVE NameInode'
    BY <2>6 DEF Erase
  <2>7. CASE UNCHANGED <<path, db, file, dir>>
    BY <2>7
  <2> QED BY <2>1, <2>2, <2>3, <2>4, <2>5, <2>6, <2>7
          DEF PoolNext, ClientNext, LockSlot, Step, LockToOpen, CreateFindsFileLocked,
              Publish, InitTablesFails, StartDrop, LockToDrop, DropLast, poolVars
<1> QED BY <1>1, <1>2, Inductive, PTL DEF PoolSpec

\* When no two paths name one file, an open never meets a file lock of its own
\* process, whatever opens, drops, failures and erasures it races with.
THEOREM NoLockoutWithoutAliases ==
  ASSUME \A p, q \in Paths : NameOf[p] = NameOf[q] => p = q
  PROVE  PoolSpec => []NoSelfLockout
<1>1. IndInv /\ NameInode => NoSelfLockout
  <2> SUFFICES ASSUME IndInv, NameInode,
                      NEW c \in Clients, pc[c] = "opening", ~Upgradable(slot[c]),
                      NEW d \in Databases, file[d] # None,
                      file[d] = dir[NameOf[path[c]]]
               PROVE  FALSE
    BY DEF NoSelfLockout, FileLocked
  <2> USE PoolAssumption DEF IndInv, PoolTypeOK, PcShape, Holding, Inside
  <2>1. PICK o \in Clients : db[o] = d
    BY DEF FileInv, OnlyClientsKeepFilesOpen
  <2>2. path[o] = path[c]
    BY <2>1 DEF NameInode
  <2>3. slot[o] = slot[c]
    BY <2>2 DEF PoolInv, OneSlotPerPath
  <2>4. pc[o] \in Holding
    BY <2>1, <2>3 DEF GuardOwner, Locked
  <2>5. Upgradable(slot[c])
    BY <2>1, <2>3, <2>4 DEF WeakInv, HeldIsWeak, Upgradable, StronglyHeld, Strong,
       GuardOwner, Locked
  <2> QED BY <2>5
<1> QED BY Inductive, NameInodeInv, <1>1, PTL

-----------------------------------------------------------------------------
(* The refinement.                                                         *)

LEMMA SharedInit == PoolInit => Shared!Init
BY DEF PoolInit, Shared!Init, SharedAt, SharedSees, Strong

\* Every step of a client is a step of SharedFile or leaves its state alone.
LEMMA SharedClientStep ==
  ASSUME IndInv, NEW c \in Clients, ClientNext(c)
  PROVE  [Shared!Next]_(Shared!vars)
<1> USE PoolAssumption DEF IndInv, PoolTypeOK, PcShape, Holding, Inside, Strong
<1> USE DEF Shared!Next, Shared!vars, SharedAt, SharedSees
<1>1. CASE Reuse(c)
  <2>1. PICK o \in Clients : pc[o] \in Strong /\ db[o] = weak[slot[c]]
    BY <1>1 DEF Reuse, Upgradable, StronglyHeld
  <2>2. path[o] = path[c]
    BY <1>1, <2>1 DEF Reuse, Upgradable, WeakInv, WeakIsHeld, HeldIsWeak, PoolInv,
       OneSlotPerPath, PoolInjective, FileInv, OnePath
  <2>3. SharedAt' = [SharedAt EXCEPT ![c] = path[c]]
    BY <1>1 DEF Reuse
  <2>4. SharedSees' = [SharedSees EXCEPT ![c] = SharedSees[o]]
    BY <1>1, <2>1 DEF Reuse
  <2>5. SharedAt[o] = path[c] /\ SharedAt[c] = None /\ path[c] \in Paths
    BY <1>1, <2>1, <2>2 DEF Reuse
  <2>6. dir' = dir
    BY <1>1 DEF Reuse
  <2>7. Shared!Join(c, path[c])
    BY ONLY <2>3, <2>4, <2>5, <2>6 DEF Shared!Join, Shared!Handle, Shared!Open
  <2> QED BY <2>5, <2>7
<1>2. CASE CreateDatabase(c)
  <2>1. \A o \in Clients : pc[o] \in Strong => path[o] # path[c]
    BY <1>2 DEF CreateDatabase, Upgradable, StronglyHeld, PoolInv, OneSlotPerPath,
       GuardOwner, Locked, WeakInv, HeldIsWeak
  <2>2. PICK d \in FreeDatabases, i \in Inodes :
          /\ IF dir[NameOf[path[c]]] = None THEN i \in FreeInodes
             ELSE i = dir[NameOf[path[c]]] /\ ~FileLocked(i)
          /\ db' = [db EXCEPT ![c] = d]
          /\ file' = [file EXCEPT ![d] = i]
          /\ dir' = [dir EXCEPT ![NameOf[path[c]]] = i]
    BY <1>2 DEF CreateDatabase
  <2>3. SharedAt' = [SharedAt EXCEPT ![c] = path[c]]
    BY <1>2 DEF CreateDatabase
  <2>4. SharedSees' = [SharedSees EXCEPT ![c] = i]
    <3>1. \A o \in Clients : pc[o] \in Strong => db[o] # d
      BY <2>2 DEF FreeDatabases, FileInv, OwnedFile
    <3>2. \A o \in Clients \ {c} : SharedSees'[o] = SharedSees[o]
      BY <1>2, <2>2, <3>1 DEF CreateDatabase, FreeDatabases
    <3>3. SharedSees'[c] = i
      BY <1>2, <2>2 DEF CreateDatabase, FreeDatabases
    <3> QED BY <3>2, <3>3
  <2>5. SharedAt[c] = None /\ path[c] \in Paths
    BY <1>2 DEF CreateDatabase
  <2>6. \A o \in Clients : SharedAt[o] # path[c]
    BY <2>1, <2>5
  <2>7. \A o \in Clients : SharedSees[o] # i
    BY <2>2 DEF FreeInodes, FileLocked
  <2>8. /\ dir[NameOf[path[c]]] \in {i, None}
        /\ dir[NameOf[path[c]]] = None => \A n \in Names : dir[n] # i
    BY <2>2 DEF FreeInodes
  <2>9. Shared!OpenFile(c, path[c])
    BY <2>2, <2>3, <2>4, <2>5, <2>6, <2>7, <2>8
       DEF Shared!OpenFile, Shared!Handle, Shared!Open
  <2> QED BY <2>5, <2>9
<1>3. CASE InitTablesFails(c) \/ DropShared(c) \/ DropLast(c)
  <2>1. Shared!Leave(c)
    BY <1>3 DEF InitTablesFails, DropShared, DropLast, Shared!Leave, Shared!Open
  <2> QED BY <2>1
<1>4. CASE CreateFails(c)
  BY <1>4 DEF CreateFails, FreeInodes, Shared!DirectoryChange
<1>5. CASE CloseDatabase(c)
  BY <1>5 DEF CloseDatabase, WeakInv, AloneInside, FileInv
<1>6. ASSUME NEW p \in Paths, ClaimSlot(c, p)
      PROVE  UNCHANGED Shared!vars
  BY <1>6 DEF ClaimSlot
<1>7. CASE ReleaseSlot(c) \/ Publish(c) \/ StartDrop(c) \/ LockSlot(c)
           \/ CreateFindsFileLocked(c)
  BY <1>7 DEF ReleaseSlot, Publish, StartDrop, LockSlot, LockToOpen, LockToDrop,
     CreateFindsFileLocked
<1> QED BY <1>1, <1>2, <1>3, <1>4, <1>5, <1>6, <1>7 DEF ClientNext, Step

\* The pool implements SharedFile.
THEOREM PoolImplementsSharedFile == PoolSpec => ImplementsSharedFile
<1>1. IndInv /\ [PoolNext]_poolVars => [Shared!Next]_(Shared!vars)
  <2>1. ASSUME IndInv, NEW n \in Names, Erase(n) PROVE Shared!DirectoryChange(n)
    BY <2>1 DEF Erase, Shared!DirectoryChange, SharedAt, SharedSees
  <2>2. ASSUME IndInv, UNCHANGED poolVars PROVE UNCHANGED Shared!vars
    BY <2>2 DEF poolVars, Shared!vars, SharedAt, SharedSees
  <2> QED BY <2>1, <2>2, SharedClientStep DEF PoolNext, Shared!Next
<1> QED BY SharedInit, <1>1, Inductive, PTL DEF PoolSpec, ImplementsSharedFile, Shared!Spec

-----------------------------------------------------------------------------
(* VectorDb: the types of calls, instances and indexes                     *)

Row == [id : Ids, vec : Vectors]

Point == [id : Ids, vec : Vectors, live : BOOLEAN]

Index == [kind : {"flat", "hnsw"}, vectors : [Ids -> Vectors \cup {Absent}],
          graph : Seq(Point), idx : [Ids -> Nat]]

Found == [id : Ids, scored : Vectors, point : Nat, vector : Vectors \cup {Absent}]

Opening == [at : {"save", "list", "open"}, opt : Options]
Loading == [at : {"load"}, opt : Options, todo : SUBSET Ids, rows : Seq(Row)]

Adding    == [at : {"add"}, i : Instances, entries : Batches]
Storing   == [at : {"vector", "metadata"}, i : Instances, entries : Batches, next : Nat]
Removing  == [at : {"remove"}, i : Instances, id : Ids]
Unstoring == [at : {"unmeta"}, i : Instances, id : Ids, deleted : BOOLEAN]
Searching == [at : {"enrich"}, i : Instances, todo : SUBSET Hit, found : SUBSET Found]

Calls == {Idle} \cup Adding \cup Storing \cup Removing \cup Unstoring \cup Searching

States == {Closed} \cup Opening \cup Loading

\* The number mapped for an id that has a vector is that of a live point with
\* that vector, and the last point of an id is live only while it has one.
IndexOK(ix) ==
    /\ \A x \in Ids : ix.idx[x] \in 0..Len(ix.graph)
    /\ ix.kind = "hnsw" =>
         /\ \A x \in Ids : ix.vectors[x] # Absent =>
              LET n == ix.idx[x] IN
              /\ n \in DOMAIN ix.graph
              /\ ix.graph[n].id = x /\ ix.graph[n].vec = ix.vectors[x] /\ ix.graph[n].live
         /\ \A n \in DOMAIN ix.graph :
              ix.graph[n].live /\ ~Repeated(ix, ix.graph[n].id) =>
                  ix.vectors[ix.graph[n].id] # Absent

-----------------------------------------------------------------------------
(* Batches and indexes                                                     *)

\* A set of positions has a last one.
LEMMA LastPosition ==
  ASSUME NEW l \in Nat, NEW S \in SUBSET (1..l), S # {}
  PROVE  \E n \in S : \A o \in S : o <= n
<1>1. PICK R : R = OpToRel(<, Nat)
  OBVIOUS
<1>2. IsWellFoundedOn(R, Nat)
  BY <1>1, NatLessThanWellFounded
<1>3. \A a, b \in Nat : <<a, b>> \in R <=> a < b
  BY <1>1 DEF OpToRel
<1>4. \A n \in S : n \in Nat /\ l - n \in Nat
  OBVIOUS
<1> DEFINE Gaps == {l - n : n \in S}
<1>5. Gaps \subseteq Nat /\ Gaps # {}
  BY <1>4
<1>6. \A n \in S : l - n \in Gaps
  OBVIOUS
<1>7. \A g \in Gaps : \E n \in S : g = l - n
  OBVIOUS
<1> HIDE DEF Gaps
<1>8. PICK g \in Gaps : \A h \in Gaps : ~(<<h, g>> \in R)
  BY <1>2, <1>5, WFMin
<1>9. PICK n \in S : g = l - n
  BY <1>7
<1>10. ASSUME NEW o \in S PROVE o <= n
  <2>1. l - o \in Gaps /\ l - o \in Nat /\ l - n \in Nat
    BY <1>4, <1>6
  <2>2. ~(l - o < l - n)
    BY <1>3, <1>8, <1>9, <2>1
  <2>3. l \in Nat /\ o \in Nat /\ n \in Nat
    BY <1>4
  <2> QED
    BY <2>2, <2>3
<1> QED
  BY <1>10

\* The last element of a set of positions is one of them.
LEMMA LastIn ==
  ASSUME NEW l \in Nat, NEW S \in SUBSET (1..l), S # {}
  PROVE  Max(S) \in S
<1>1. PICK n \in S : \A o \in S : n >= o
  <2>1. PICK n \in S : \A o \in S : o <= n
    BY LastPosition
  <2> QED
    BY <2>1
<1> QED
  BY <1>1 DEF Max

\* The last entry of an id in a batch.
LEMMA LastPlace ==
  ASSUME NEW S, NEW b \in Seq(S), NEW x, Places(b, x) # {}
  PROVE  /\ Max(Places(b, x)) \in 1..Len(b) /\ Max(Places(b, x)) \in DOMAIN b
         /\ b[Max(Places(b, x))].id = x
<1>1. Places(b, x) \subseteq 1..Len(b) /\ Len(b) \in Nat /\ DOMAIN b = 1..Len(b)
  BY DEF Places
<1>2. Max(Places(b, x)) \in Places(b, x)
  BY <1>1, LastIn
<1> QED
  BY <1>1, <1>2 DEF Places

IsBatch(b) ==
    /\ \E S : b \in Seq(S)
    /\ \A n \in DOMAIN b : b[n].id \in Ids /\ b[n].vec \in Vectors

\* A batch replaces the vectors of its ids and no others.
LEMMA StoresVectors ==
  ASSUME NEW t \in [Ids -> Vectors \cup {Absent}], NEW b, IsBatch(b)
  PROVE  /\ StoreVectors(t, b) \in [Ids -> Vectors \cup {Absent}]
         /\ \A x \in Ids : Places(b, x) = {} => StoreVectors(t, b)[x] = t[x]
         /\ \A x \in Ids : Places(b, x) # {} =>
              /\ StoreVectors(t, b)[x] = b[Max(Places(b, x))].vec
              /\ StoreVectors(t, b)[x] \in Vectors
<1>1. PICK S : b \in Seq(S)
  BY DEF IsBatch
<1>2. ASSUME NEW x \in Ids, Places(b, x) # {}
      PROVE  b[Max(Places(b, x))].vec \in Vectors
  BY <1>1, <1>2, LastPlace DEF IsBatch
<1> QED
  BY <1>2 DEF StoreVectors

\* The points that add_batch adds.
NewPoints(b) == [n \in DOMAIN b |-> [id |-> b[n].id, vec |-> b[n].vec, live |-> TRUE]]

\* add_batch of an HNSW index adds one point per entry, behind the others.
LEMMA AddsPoints ==
  ASSUME NEW ix \in Index, NEW b, IsBatch(b), ix.kind = "hnsw"
  PROVE  LET new == IndexAddBatch(ix, b) IN
         /\ new \in Index /\ new.kind = "hnsw" /\ new.vectors = StoreVectors(ix.vectors, b)
         /\ Len(new.graph) = Len(ix.graph) + Len(b)
         /\ \A n \in DOMAIN ix.graph : n \in DOMAIN new.graph /\ new.graph[n] = ix.graph[n]
         /\ \A n \in DOMAIN b :
              /\ Len(ix.graph) + n \in DOMAIN new.graph
              /\ new.graph[Len(ix.graph) + n] = [id |-> b[n].id, vec |-> b[n].vec, live |-> TRUE]
         /\ \A n \in DOMAIN new.graph : n \notin DOMAIN ix.graph =>
              n - Len(ix.graph) \in DOMAIN b
         /\ \A x \in Ids : new.idx[x] = IF Places(b, x) = {} THEN ix.idx[x]
                                        ELSE Len(ix.graph) + Max(Places(b, x))
<1> DEFINE new == IndexAddBatch(ix, b)
           idx == [x \in Ids |-> IF Places(b, x) = {} THEN ix.idx[x]
                                 ELSE Len(ix.graph) + Max(Places(b, x))]
           graph == ix.graph \o NewPoints(b)
           vectors == StoreVectors(ix.vectors, b)
<1>1. PICK S : b \in Seq(S)
  BY DEF IsBatch
<1>2. /\ ix.graph \in Seq(Point) /\ ix.vectors \in [Ids -> Vectors \cup {Absent}]
      /\ ix.idx \in [Ids -> Nat] /\ Len(ix.graph) \in Nat
  BY DEF Index
<1>3. new = [ix EXCEPT !.vectors = vectors, !.graph = graph, !.idx = idx]
  BY DEF IndexAddBatch, NewPoints
<1>4. NewPoints(b) \in Seq(Point) /\ Len(NewPoints(b)) = Len(b) /\ DOMAIN b = 1..Len(b)
      /\ Len(b) \in Nat
  <2>1. \A n \in 1..Len(b) : [id |-> b[n].id, vec |-> b[n].vec, live |-> TRUE] \in Point
    BY <1>1 DEF IsBatch, Point
  <2>2. DOMAIN b = 1..Len(b) /\ Len(b) \in Nat
    BY <1>1
  <2>3. NewPoints(b) = [n \in 1..Len(b) |-> [id |-> b[n].id, vec |-> b[n].vec, live |-> TRUE]]
    BY <2>2 DEF NewPoints
  <2> QED
    BY <2>1, <2>2, <2>3
<1>5. idx \in [Ids -> Nat]
  <2>1. \A x \in Ids : Places(b, x) # {} => Max(Places(b, x)) \in Nat
    BY <1>1, LastPlace
  <2> QED
    BY <1>2, <2>1
<1>6. vectors \in [Ids -> Vectors \cup {Absent}]
  BY <1>2, StoresVectors
<1>7. /\ graph \in Seq(Point) /\ Len(graph) = Len(ix.graph) + Len(b)
      /\ DOMAIN graph = 1..(Len(ix.graph) + Len(b)) /\ DOMAIN ix.graph = 1..Len(ix.graph)
      /\ \A n \in 1..Len(ix.graph) : graph[n] = ix.graph[n]
      /\ \A n \in 1..Len(b) : graph[Len(ix.graph) + n] = NewPoints(b)[n]
  <2>1. PICK p, g : p = NewPoints(b) /\ g = ix.graph
    OBVIOUS
  <2>2. p \in Seq(Point) /\ Len(p) = Len(b) /\ g \in Seq(Point)
    BY <1>2, <1>4, <2>1
  <2>3. /\ g \o p \in Seq(Point) /\ Len(g \o p) = Len(g) + Len(p)
        /\ DOMAIN (g \o p) = 1..(Len(g) + Len(p))
        /\ \A n \in 1..Len(g) : (g \o p)[n] = g[n]
        /\ \A n \in 1..Len(p) : (g \o p)[Len(g) + n] = p[n]
    BY <2>2
  <2>4. graph = g \o p
    BY <2>1
  <2>5. DOMAIN g = 1..Len(g)
    BY <2>2
  <2> HIDE DEF graph
  <2> QED
    BY <2>1, <2>2, <2>3, <2>4, <2>5
<1>8. \A n \in DOMAIN b : NewPoints(b)[n] = [id |-> b[n].id, vec |-> b[n].vec, live |-> TRUE]
  BY DEF NewPoints
<1>9. \A x \in Ids : idx[x] = IF Places(b, x) = {} THEN ix.idx[x]
                              ELSE Len(ix.graph) + Max(Places(b, x))
  OBVIOUS
<1> HIDE DEF idx, graph, vectors, new
<1>10. new \in Index /\ new.kind = "hnsw" /\ new.vectors = vectors /\ new.graph = graph /\ new.idx = idx
  BY <1>3, <1>5, <1>6, <1>7 DEF Index
<1>11. \A n \in DOMAIN ix.graph : n \in DOMAIN graph /\ graph[n] = ix.graph[n]
  BY <1>2, <1>4, <1>7
<1>12. \A n \in DOMAIN b :
         /\ Len(ix.graph) + n \in DOMAIN graph
         /\ graph[Len(ix.graph) + n] = [id |-> b[n].id, vec |-> b[n].vec, live |-> TRUE]
  <2>1. \A n \in 1..Len(b) : Len(ix.graph) + n \in DOMAIN graph
    BY <1>2, <1>4, <1>7
  <2> QED
    BY <1>4, <1>7, <1>8, <2>1
<1>13. \A n \in DOMAIN graph : n \notin DOMAIN ix.graph => n - Len(ix.graph) \in DOMAIN b
  BY <1>2, <1>4, <1>7
<1> QED
  BY <1>7, <1>9, <1>10, <1>11, <1>12, <1>13 DEF new, vectors

\* add_batch keeps an index in order.
LEMMA AddBatchOK ==
  ASSUME NEW ix \in Index, IndexOK(ix), NEW b, IsBatch(b)
  PROVE  /\ IndexAddBatch(ix, b) \in Index /\ IndexOK(IndexAddBatch(ix, b))
         /\ IndexAddBatch(ix, b).vectors = StoreVectors(ix.vectors, b)
<1> DEFINE new == IndexAddBatch(ix, b)
<1>v. ix.vectors \in [Ids -> Vectors \cup {Absent}] /\ ix.graph \in Seq(Point) /\ ix.idx \in [Ids -> Nat]
      /\ DOMAIN ix.graph = 1..Len(ix.graph) /\ Len(ix.graph) \in Nat
  BY DEF Index
<1>1. CASE ix.kind = "flat"
  <2>1. StoreVectors(ix.vectors, b) \in [Ids -> Vectors \cup {Absent}]
    BY <1>v, StoresVectors
  <2>2. /\ new = [ix EXCEPT !.vectors = StoreVectors(ix.vectors, b)]
    BY <1>1 DEF IndexAddBatch
  <2>3. /\ new \in Index /\ new.kind = "flat" /\ new.graph = ix.graph /\ new.idx = ix.idx
        /\ new.vectors = StoreVectors(ix.vectors, b)
    <3> HIDE DEF new
    <3> QED
    BY <1>1, <2>1, <2>2 DEF Index
  <2> QED
    BY <2>3 DEF IndexOK
<1>2. CASE ix.kind = "hnsw"
  <2> HIDE DEF new
  <2>0. PICK S : b \in Seq(S)
    BY DEF IsBatch
  <2>1. /\ new \in Index /\ new.kind = "hnsw" /\ new.vectors = StoreVectors(ix.vectors, b)
        /\ Len(new.graph) = Len(ix.graph) + Len(b)
    BY <1>2, AddsPoints DEF new
  <2>2. \A n \in DOMAIN ix.graph : n \in DOMAIN new.graph /\ new.graph[n] = ix.graph[n]
    BY <1>2, AddsPoints DEF new
  <2>3. \A n \in DOMAIN b :
              /\ Len(ix.graph) + n \in DOMAIN new.graph
              /\ new.graph[Len(ix.graph) + n] = [id |-> b[n].id, vec |-> b[n].vec, live |-> TRUE]
    BY <1>2, AddsPoints DEF new
  <2>4. \A n \in DOMAIN new.graph : n \notin DOMAIN ix.graph => n - Len(ix.graph) \in DOMAIN b
    BY <1>2, AddsPoints DEF new
  <2>5. \A x \in Ids : new.idx[x] = IF Places(b, x) = {} THEN ix.idx[x]
                                        ELSE Len(ix.graph) + Max(Places(b, x))
    BY <1>2, AddsPoints DEF new
  <2>6. DOMAIN b = 1..Len(b) /\ Len(b) \in Nat
    BY <2>0
  <2>7. \A x \in Ids : new.idx[x] \in 0..Len(new.graph)
    <3> SUFFICES ASSUME NEW x \in Ids PROVE new.idx[x] \in 0..Len(new.graph)
      OBVIOUS
    <3>1. CASE Places(b, x) = {}
      BY <1>v, <2>1, <2>5, <2>6, <3>1 DEF IndexOK
    <3>2. CASE Places(b, x) # {}
      <4>1. Max(Places(b, x)) \in 1..Len(b)
        BY <2>0, <3>2, LastPlace
      <4> QED
        BY <1>v, <2>1, <2>5, <2>6, <3>2, <4>1
    <3> QED
      BY <3>1, <3>2
  <2>8. ASSUME NEW x \in Ids, new.vectors[x] # Absent
        PROVE  /\ new.idx[x] \in DOMAIN new.graph
               /\ new.graph[new.idx[x]].id = x /\ new.graph[new.idx[x]].vec = new.vectors[x]
               /\ new.graph[new.idx[x]].live
    <3>1. CASE Places(b, x) = {}
      <4>1. new.vectors[x] = ix.vectors[x] /\ new.idx[x] = ix.idx[x]
        <5>1. StoreVectors(ix.vectors, b)[x] = ix.vectors[x]
          BY <1>v, <3>1, StoresVectors
        <5> QED
          BY <2>1, <2>5, <3>1, <5>1
      <4>2. /\ ix.idx[x] \in DOMAIN ix.graph
            /\ ix.graph[ix.idx[x]].id = x /\ ix.graph[ix.idx[x]].vec = ix.vectors[x]
            /\ ix.graph[ix.idx[x]].live
        BY <1>2, <2>8, <4>1 DEF IndexOK
      <4>3. PICK n : n = ix.idx[x]
        OBVIOUS
      <4>4. n \in DOMAIN new.graph /\ new.graph[n] = ix.graph[n] /\ new.idx[x] = n
        BY <2>2, <4>1, <4>2, <4>3
      <4>5. ix.graph[n].id = x /\ ix.graph[n].vec = new.vectors[x] /\ ix.graph[n].live
        BY <4>1, <4>2, <4>3
      <4> QED
        BY <4>4, <4>5
    <3>2. CASE Places(b, x) # {}
      <4> DEFINE l == Max(Places(b, x))
      <4>1. l \in DOMAIN b /\ b[l].id = x
        BY <2>0, <3>2, LastPlace
      <4>2. new.vectors[x] = b[l].vec /\ new.idx[x] = Len(ix.graph) + l
        BY <1>v, <2>1, <2>5, <3>2, StoresVectors
      <4>3. PICK k : k = l
        OBVIOUS
      <4>4. /\ Len(ix.graph) + k \in DOMAIN new.graph
            /\ new.graph[Len(ix.graph) + k] = [id |-> b[k].id, vec |-> b[k].vec, live |-> TRUE]
        BY <2>3, <4>1, <4>3
      <4>5. new.idx[x] = Len(ix.graph) + k /\ b[k].id = x /\ new.vectors[x] = b[k].vec
        BY <4>1, <4>2, <4>3
      <4> QED
        BY <4>4, <4>5
    <3> QED
      BY <3>1, <3>2
  <2>9. ASSUME NEW n \in DOMAIN new.graph, new.graph[n].live, ~Repeated(new, new.graph[n].id)
        PROVE  new.vectors[new.graph[n].id] # Absent
    <3> DEFINE x == new.graph[n].id
    <3>1. CASE n \in DOMAIN ix.graph
      <4>1. new.graph[n] = ix.graph[n]
        BY <2>2, <3>1
      <4>2. x \in Ids
        <5>1. ix.graph[n] \in Point
          BY <1>v, <3>1
        <5> QED
          BY <4>1, <5>1 DEF Point
      <4>3. ~Repeated(ix, x)
        BY <2>2, <2>9 DEF Repeated
      <4>4. ix.vectors[x] # Absent
        BY <1>2, <2>9, <3>1, <4>1, <4>3 DEF IndexOK
      <4>5. Places(b, x) = {} \/ Places(b, x) # {}
        OBVIOUS
      <4> HIDE DEF x
      <4>6. Absent \notin Vectors
        BY VectorDbAssumption
      <4>7. StoreVectors(ix.vectors, b)[x] # Absent
        BY <1>v, <4>2, <4>4, <4>5, <4>6, StoresVectors
      <4> QED
        BY <2>1, <4>7 DEF x
    <3>2. CASE n \notin DOMAIN ix.graph
      <4>1. n - Len(ix.graph) \in DOMAIN b /\ n \in Int
        <5>1. n \in Int
          BY <2>1 DEF Index
        <5> QED
          BY <2>4, <3>2, <5>1
      <4>2. new.graph[n].id = b[n - Len(ix.graph)].id
        <5>1. Len(ix.graph) + (n - Len(ix.graph)) = n
          BY <1>v, <4>1
        <5>2. PICK k : k = n - Len(ix.graph)
          OBVIOUS
        <5>3. Len(ix.graph) + k = n /\ k \in DOMAIN b
          BY <4>1, <5>1, <5>2
        <5>4. new.graph[Len(ix.graph) + k] = [id |-> b[k].id, vec |-> b[k].vec, live |-> TRUE]
          BY <2>3, <5>3
        <5> QED
          BY <5>2, <5>3, <5>4
      <4>3. x \in Ids /\ Places(b, x) # {}
        BY <4>1, <4>2 DEF IsBatch, Places
      <4>4. Absent \notin Vectors
        BY VectorDbAssumption
      <4> HIDE DEF x
      <4>5. StoreVectors(ix.vectors, b)[x] # Absent
        BY <1>v, <4>3, <4>4, StoresVectors
      <4> QED
        BY <2>1, <4>5 DEF x
    <3> QED
      BY <3>1, <3>2
  <2>10. IndexOK(new)
    BY <2>1, <2>7, <2>8, <2>9 DEF IndexOK
  <2> QED
    BY <2>1, <2>10 DEF new
<1> QED
  BY <1>1, <1>2 DEF Index

\* So is a new index.
LEMMA EmptyOK ==
  ASSUME NEW kind \in {"flat", "hnsw"}
  PROVE  /\ EmptyIndex(kind) \in Index /\ IndexOK(EmptyIndex(kind))
         /\ \A x \in Ids : EmptyIndex(kind).vectors[x] = Absent
<1> DEFINE ix == EmptyIndex(kind)
<1>1. /\ ix.kind = kind /\ ix.vectors = [x \in Ids |-> Absent] /\ ix.graph = <<>>
      /\ ix.idx = [x \in Ids |-> 0]
  BY DEF EmptyIndex
<1>2. <<>> \in Seq(Point) /\ DOMAIN <<>> = {} /\ Len(<<>>) = 0
  OBVIOUS
<1>3. ix \in Index
  BY <1>2 DEF EmptyIndex, Index
<1> HIDE DEF ix
<1>4. IndexOK(ix)
  BY <1>1, <1>2 DEF IndexOK
<1> QED
  BY <1>1, <1>3, <1>4 DEF ix

\* remove keeps an index in order and takes the vector of one id away.
LEMMA RemoveOK ==
  ASSUME NEW ix \in Index, IndexOK(ix), NEW x \in Ids
  PROVE  /\ IndexRemove(ix, x) \in Index /\ IndexOK(IndexRemove(ix, x))
         /\ IndexRemove(ix, x).vectors = [ix.vectors EXCEPT ![x] = Absent]
<1> DEFINE new == IndexRemove(ix, x)
           gone == [ix.vectors EXCEPT ![x] = Absent]
<1>0. Absent \notin Vectors
  BY VectorDbAssumption
<1>1. /\ ix.vectors \in [Ids -> Vectors \cup {Absent}] /\ ix.graph \in Seq(Point)
      /\ ix.idx \in [Ids -> Nat] /\ DOMAIN ix.graph = 1..Len(ix.graph) /\ Len(ix.graph) \in Nat
      /\ ix.kind \in {"flat", "hnsw"}
  BY DEF Index
<1>2. gone \in [Ids -> Vectors \cup {Absent}] /\ gone[x] = Absent
      /\ \A y \in Ids : y # x => gone[y] = ix.vectors[y]
  BY <1>1
<1>3. CASE ix.vectors[x] = Absent \/ ix.kind = "flat"
  <2>1. new = [ix EXCEPT !.vectors = gone]
    BY <1>3 DEF IndexRemove
  <2> HIDE DEF new, gone
  <2>2. /\ new \in Index /\ new.kind = ix.kind /\ new.graph = ix.graph /\ new.idx = ix.idx
        /\ new.vectors = gone
    BY <1>2, <2>1 DEF Index
  <2>3. \A y \in Ids : gone[y] # Absent => gone[y] = ix.vectors[y]
    BY <1>2
  <2>4. ix.kind = "hnsw" => \A y \in Ids : gone[y] = ix.vectors[y]
    BY <1>2, <1>3
  <2>5. \A y : Repeated(new, y) <=> Repeated(ix, y)
    BY <2>2 DEF Repeated
  <2>6. \A n \in DOMAIN ix.graph : ix.graph[n].id \in Ids
    <3>1. \A n \in DOMAIN ix.graph : ix.graph[n] \in Point
      BY <1>1
    <3> QED
      BY <3>1 DEF Point
  <2>7. IndexOK(new)
    BY <2>2, <2>4, <2>5, <2>6 DEF IndexOK
  <2> QED
    BY <2>2, <2>7 DEF new, gone
<1>4. CASE ix.vectors[x] # Absent /\ ix.kind # "flat"
  <2> DEFINE l == ix.idx[x]
             graph == [ix.graph EXCEPT ![l].live = FALSE]
             idx == [ix.idx EXCEPT ![x] = 0]
  <2>1. /\ ix.kind = "hnsw" /\ l \in DOMAIN ix.graph /\ ix.graph[l] \in Point
        /\ ix.graph[l].id = x
    BY <1>1, <1>4 DEF IndexOK
  <2>2. new = [ix EXCEPT !.vectors = gone, !.graph = graph, !.idx = idx]
    BY <1>4 DEF IndexRemove
  <2>3. /\ graph \in Seq(Point) /\ DOMAIN graph = DOMAIN ix.graph /\ Len(graph) = Len(ix.graph)
        /\ \A n \in DOMAIN ix.graph : n # l => graph[n] = ix.graph[n]
        /\ graph[l].id = x /\ ~graph[l].live
    <3> DEFINE p == [ix.graph[l] EXCEPT !.live = FALSE]
    <3>1. p \in Point /\ p.id = x /\ ~p.live
      BY <2>1 DEF Point
    <3>2. graph = [ix.graph EXCEPT ![l] = p]
      BY <2>1
    <3> HIDE DEF p, l, graph
    <3> QED
      BY <1>1, <2>1, <3>1, <3>2
  <2>4. /\ idx \in [Ids -> Nat] /\ idx[x] = 0
        /\ \A y \in Ids : y # x => idx[y] = ix.idx[y]
    BY <1>1
  <2> HIDE DEF new, gone, graph, idx
  <2>5. /\ new \in Index /\ new.kind = "hnsw" /\ new.graph = graph /\ new.idx = idx
        /\ new.vectors = gone
    BY <1>2, <2>1, <2>2, <2>3, <2>4 DEF Index
  <2>6. \A y \in Ids : idx[y] \in 0..Len(graph)
    BY <1>1, <2>3, <2>4 DEF IndexOK
  <2>7. ASSUME NEW y \in Ids, gone[y] # Absent
        PROVE  /\ idx[y] \in DOMAIN graph
               /\ graph[idx[y]].id = y /\ graph[idx[y]].vec = gone[y] /\ graph[idx[y]].live
    <3>1. y # x
      BY <1>2, <2>7
    <3>2. /\ ix.idx[y] \in DOMAIN ix.graph
          /\ ix.graph[ix.idx[y]].id = y /\ ix.graph[ix.idx[y]].vec = ix.vectors[y]
          /\ ix.graph[ix.idx[y]].live
      BY <1>2, <2>1, <2>7, <3>1 DEF IndexOK
    <3>3. ix.idx[y] # l
      BY <2>1, <3>1, <3>2
    <3>4. idx[y] = ix.idx[y] /\ gone[y] = ix.vectors[y] /\ graph[ix.idx[y]] = ix.graph[ix.idx[y]]
      BY <1>2, <2>3, <2>4, <3>1, <3>2, <3>3
    <3> QED
      BY <2>3, <3>2, <3>4
  <2>8. ASSUME NEW n \in DOMAIN graph, graph[n].live, ~Repeated(new, graph[n].id)
        PROVE  gone[graph[n].id] # Absent
    <3>1. n # l /\ graph[n] = ix.graph[n] /\ n \in DOMAIN ix.graph
      BY <2>3, <2>8
    <3>2. ix.graph[n].id # x
      BY <2>1, <2>3, <2>5, <2>8, <3>1 DEF Repeated
    <3>3. ix.graph[n] \in Point
      BY <1>1, <3>1
    <3>4. ~Repeated(ix, ix.graph[n].id)
      <4>1. \A m \in DOMAIN ix.graph : graph[m].id = ix.graph[m].id /\ m \in DOMAIN graph
        BY <2>1, <2>3
      <4> QED
        BY <2>5, <2>8, <3>1, <4>1 DEF Repeated
    <3>5. ix.vectors[ix.graph[n].id] # Absent
      BY <2>1, <2>8, <3>1, <3>4 DEF IndexOK
    <3> QED
      BY <1>2, <3>1, <3>2, <3>3, <3>5 DEF Point
  <2>9. IndexOK(new)
    BY <2>5, <2>6, <2>7, <2>8 DEF IndexOK
  <2> QED
    BY <2>5, <2>9 DEF new, gone
<1> QED
  BY <1>3, <1>4

\* What a search finds are ids, vectors and numbers.
LEMMA HitsTyped ==
  ASSUME NEW ix \in Index
  PROVE  IndexHits(ix) \subseteq Hit
<1>1. /\ ix.vectors \in [Ids -> Vectors \cup {Absent}] /\ ix.graph \in Seq(Point)
      /\ DOMAIN ix.graph = 1..Len(ix.graph)
  BY DEF Index
<1>2. \A n \in DOMAIN ix.graph : n \in Nat /\ ix.graph[n].id \in Ids /\ ix.graph[n].vec \in Vectors
  <2>1. \A n \in DOMAIN ix.graph : ix.graph[n] \in Point
    BY <1>1
  <2> QED
    BY <1>1, <2>1 DEF Point
<1> QED
  BY <1>1, <1>2 DEF IndexHits, Hit

\* What a search finds of an id with one point at most.
LEMMA HitsOfOnePoint ==
  ASSUME NEW ix \in Index, IndexOK(ix), NEW h \in IndexHits(ix), ~Repeated(ix, h.id)
  PROVE  /\ h.id \in Ids /\ h.scored = ix.vectors[h.id]
         /\ \A g \in IndexHits(ix) : g.id = h.id => g = h
<1>1. h.id \in Ids
  BY HitsTyped DEF Hit
<1>2. CASE ix.kind = "flat"
  <2>1. IndexHits(ix) = {[id |-> x, scored |-> ix.vectors[x], point |-> 0] :
                           x \in {y \in Ids : ix.vectors[y] # Absent}}
    BY <1>2 DEF IndexHits
  <2> QED
    BY <1>1, <2>1
<1>3. CASE ix.kind = "hnsw"
  <2>1. IndexHits(ix) \subseteq {[id |-> ix.graph[n].id, scored |-> ix.graph[n].vec, point |-> n] :
                                    n \in {m \in DOMAIN ix.graph : ix.graph[m].live}}
    BY <1>3 DEF IndexHits
  <2>2. PICK n \in DOMAIN ix.graph :
          ix.graph[n].live /\ h = [id |-> ix.graph[n].id, scored |-> ix.graph[n].vec, point |-> n]
    BY <2>1
  <2>3. h.id = ix.graph[n].id /\ h.scored = ix.graph[n].vec
    BY <2>2
  <2>4. ix.vectors[h.id] # Absent
    BY <1>3, <2>2, <2>3 DEF IndexOK
  <2>5. /\ ix.idx[h.id] \in DOMAIN ix.graph /\ ix.graph[ix.idx[h.id]].id = h.id
        /\ ix.graph[ix.idx[h.id]].vec = ix.vectors[h.id]
    BY <1>1, <1>3, <2>4 DEF IndexOK
  <2>6. ix.idx[h.id] = n
    BY <2>2, <2>3, <2>5 DEF Repeated
  <2>7. ASSUME NEW g \in IndexHits(ix), g.id = h.id PROVE g = h
    <3>1. PICK m \in DOMAIN ix.graph :
            g = [id |-> ix.graph[m].id, scored |-> ix.graph[m].vec, point |-> m]
      BY <2>1
    <3>2. m = n
      BY <2>2, <2>3, <2>7, <3>1 DEF Repeated
    <3> QED
      BY <2>2, <3>1, <3>2
  <2> QED
    BY <1>1, <2>3, <2>5, <2>6, <2>7
<1> QED
  BY <1>2, <1>3 DEF Index

\* What is known inside call o: the instance stays open, and the hits of a
\* search stay those of the locked index.
CallOK(o) ==
    /\ o # Idle => inst[o.i].at = "open"
    /\ o.at \in {"vector", "metadata"} => o.next \in DOMAIN o.entries
    /\ o.at \in {"vector", "metadata", "unmeta"} => backend = "memory"
    /\ o.at = "enrich" =>
         /\ o.todo \subseteq IndexHits(index[o.i])
         /\ \A h \in o.found :
              [id |-> h.id, scored |-> h.scored, point |-> h.point] \in IndexHits(index[o.i])

CallsOK == op \in [Threads -> Calls] /\ \A c \in Threads : CallOK(op[c])

IndexesOK == index \in [Instances -> Index] /\ \A i \in Instances : IndexOK(index[i])

TablesOK ==
    /\ backend \in Backends
    /\ vec \in [Ids -> Vectors \cup {Absent}]
    /\ meta \in [Ids -> Metas \cup {Absent}]
    /\ config \in Options \cup {Absent}

BaseInv == TablesOK /\ inst \in [Instances -> States] /\ IndexesOK /\ CallsOK

-----------------------------------------------------------------------------
\* A call is told by where it is.
LEMMA CallKinds ==
  ASSUME NEW o \in Calls
  PROVE  /\ o # Idle => o.at # "idle" /\ o.i \in Instances
         /\ o.at = "idle" => o = Idle
         /\ o.at = "add" => o \in Adding
         /\ o.at \in {"vector", "metadata"} => o \in Storing
         /\ o.at = "remove" => o \in Removing
         /\ o.at = "unmeta" => o \in Unstoring
         /\ o.at = "enrich" => o \in Searching
         /\ o.at \in {"idle", "add", "vector", "metadata", "remove", "unmeta", "enrich"}
  BY DEF Calls, Idle, Adding, Storing, Removing, Unstoring, Searching

\* An instance is told by where it is.
LEMMA StateKinds ==
  ASSUME NEW s \in States
  PROVE  /\ s # Closed => s.at # "closed" /\ s.opt \in Options
         /\ s.at = "closed" => s = Closed
         /\ s.at \in {"closed", "save", "list", "load", "open"}
         /\ s.at \in {"save", "list", "open"} => s \in Opening
         /\ s.at = "load" => s \in Loading
  BY DEF States, Closed, Opening, Loading

\* The entries of a batch.
LEMMA BatchIs ==
  ASSUME NEW b \in Batches
  PROVE  /\ IsBatch(b) /\ b \in Seq(Entry)
         /\ \A n \in DOMAIN b : /\ b[n].id \in Ids /\ b[n].vec \in Vectors
                                /\ b[n].meta \in Metas \cup {Absent}
<1>1. b \in Seq(Entry)
  BY VectorDbAssumption DEF Entry
<1>2. \A n \in DOMAIN b : b[n] \in Entry
  BY <1>1
<1>3. \A e \in Entry : e.id \in Ids /\ e.vec \in Vectors /\ e.meta \in Metas \cup {Absent}
  BY DEF Entry
<1> QED
  BY <1>1, <1>2, <1>3 DEF IsBatch

\* The rows that new has read are a batch.
LEMMA RowsAre ==
  ASSUME NEW b \in Seq(Row)
  PROVE  IsBatch(b)
<1>1. \A n \in DOMAIN b : b[n] \in Row
  OBVIOUS
<1> QED
  BY <1>1 DEF IsBatch, Row

\* A batch of one entry.
LEMMA OneEntry ==
  ASSUME NEW e, e.id \in Ids, e.vec \in Vectors
  PROVE  /\ IsBatch(<<e>>)
         /\ \A x \in Ids : Places(<<e>>, x) = IF x = e.id THEN {1} ELSE {}
         /\ Max({1}) = 1
<1>1. <<e>> \in Seq({e}) /\ DOMAIN <<e>> = {1} /\ <<e>>[1] = e
  OBVIOUS
<1>2. IsBatch(<<e>>)
  BY <1>1 DEF IsBatch
<1>3. Max({1}) = 1
  BY DEF Max
<1> QED
  BY <1>1, <1>2, <1>3 DEF Places

\* Storing one entry.
LEMMA StoresOneVector ==
  ASSUME NEW t \in [Ids -> Vectors \cup {Absent}], NEW e, e.id \in Ids, e.vec \in Vectors
  PROVE  StoreVectors(t, <<e>>) = [t EXCEPT ![e.id] = e.vec]
<1>1. \A x \in Ids : Places(<<e>>, x) = IF x = e.id THEN {1} ELSE {}
  BY OneEntry
<1>2. Max({1}) = 1 /\ <<e>>[1] = e
  BY OneEntry
<1>3. StoreVectors(t, <<e>>) = [x \in Ids |-> IF Places(<<e>>, x) = {} THEN t[x]
                                              ELSE <<e>>[Max(Places(<<e>>, x))].vec]
  BY DEF StoreVectors
<1>4. \A x \in Ids : StoreVectors(t, <<e>>)[x] = IF x = e.id THEN e.vec ELSE t[x]
  <2> TAKE x \in Ids
  <2>1. CASE x = e.id
    <3>1. Places(<<e>>, x) = {1}
      BY <1>1, <2>1
    <3> QED
      BY <1>2, <1>3, <2>1, <3>1
  <2>2. CASE x # e.id
    BY <1>1, <1>3, <2>2
  <2> QED
    BY <2>1, <2>2
<1> QED
  BY <1>3, <1>4

\* Positions of a batch that satisfy some condition have a last one.
LEMMA LastOf ==
  ASSUME NEW S, NEW b \in Seq(S), NEW P \in SUBSET (DOMAIN b), P # {}
  PROVE  Max(P) \in P
<1>1. DOMAIN b = 1..Len(b) /\ Len(b) \in Nat
  OBVIOUS
<1> QED
  BY <1>1, LastIn

\* A batch changes the metadata of its ids at most.
LEMMA StoresMetas ==
  ASSUME NEW t \in [Ids -> Metas \cup {Absent}], NEW S, NEW b \in Seq(S),
         \A n \in DOMAIN b : b[n].meta \in Metas \cup {Absent}
  PROVE  /\ StoreMetas(t, b) \in [Ids -> Metas \cup {Absent}]
         /\ \A x \in Ids : Places(b, x) = {} => StoreMetas(t, b)[x] = t[x]
<1> DEFINE with(x) == {n \in Places(b, x) : b[n].meta # Absent}
<1>1. ASSUME NEW x \in Ids, with(x) # {}
      PROVE  b[Max(with(x))].meta \in Metas /\ Places(b, x) # {}
  <2>1. with(x) \in SUBSET (DOMAIN b)
    BY DEF Places
  <2>2. Max(with(x)) \in with(x)
    <3> HIDE DEF with
    <3> QED
      BY <1>1, <2>1, LastOf
  <2> QED
    BY <2>1, <2>2
<1>2. StoreMetas(t, b) = [x \in Ids |-> IF with(x) = {} THEN t[x] ELSE b[Max(with(x))].meta]
  BY DEF StoreMetas
<1> HIDE DEF with
<1> QED
  BY <1>1, <1>2

\* A thread goes on, and no instance and no index changes.
LEMMA CallMoves ==
  ASSUME CallsOK, NEW c \in Threads, NEW o \in Calls, op' = [op EXCEPT ![c] = o],
         UNCHANGED <<backend, inst, index>>, CallOK(o)
  PROVE  CallsOK'
<1>1. op' \in [Threads -> Calls] /\ op'[c] = o /\ \A e \in Threads : e # c => op'[e] = op[e]
  BY DEF CallsOK
<1>2. ASSUME NEW e \in Threads PROVE CallOK(op[e])'
  <2>1. CASE e = c
    BY <1>1, <2>1 DEF CallOK
  <2>2. CASE e # c
    BY <1>1, <2>2 DEF CallOK, CallsOK
  <2> QED
    BY <2>1, <2>2
<1> QED
  BY <1>1, <1>2 DEF CallsOK

\* An instance that no call uses changes.
LEMMA InstMoves ==
  ASSUME CallsOK, NEW i \in Instances, UNCHANGED <<backend, op>>,
         \A j \in Instances : j # i => inst'[j] = inst[j] /\ index'[j] = index[j],
         \A c \in Threads : op[c] # Idle => op[c].i # i
  PROVE  CallsOK'
<1>1. op' \in [Threads -> Calls]
  BY DEF CallsOK
<1>2. ASSUME NEW e \in Threads PROVE CallOK(op[e])'
  <2>1. CASE op[e] = Idle
    <3>1. op[e].at = "idle"
      BY <2>1 DEF Idle
    <3> QED
      BY <2>1, <3>1 DEF CallOK
  <2>2. CASE op[e] # Idle
    <3>1. op[e] \in Calls
      BY DEF CallsOK
    <3>2. op[e].i \in Instances /\ op[e].i # i
      BY <2>2, <3>1, CallKinds
    <3>3. PICK j : j = op[e].i
      OBVIOUS
    <3>4. inst'[j] = inst[j] /\ index'[j] = index[j]
      BY <3>2, <3>3
    <3>5. CallOK(op[e])
      BY DEF CallsOK
    <3> QED
      BY <3>3, <3>4, <3>5 DEF CallOK
  <2> QED
    BY <2>1, <2>2
<1> QED
  BY <1>1, <1>2 DEF CallsOK

\* The index of an instance changes while nobody searches it.
LEMMA IndexMoves ==
  ASSUME CallsOK, NEW c \in Threads, op[c] # Idle, IndexUnlocked(op[c].i),
         op' = [op EXCEPT ![c] = Idle], UNCHANGED <<backend, inst>>,
         \A j \in Instances : j # op[c].i => index'[j] = index[j]
  PROVE  CallsOK'
<1>1. op' \in [Threads -> Calls] /\ op'[c] = Idle /\ \A e \in Threads : e # c => op'[e] = op[e]
  BY DEF CallsOK, Calls
<1>2. ASSUME NEW e \in Threads PROVE CallOK(op[e])'
  <2>1. CASE e = c
    <3>1. Idle.at = "idle"
      BY DEF Idle
    <3> QED
      BY <1>1, <2>1, <3>1 DEF CallOK
  <2>2. CASE e # c
    <3>1. op'[e] = op[e] /\ CallOK(op[e]) /\ op[e] \in Calls
      BY <1>1, <2>2 DEF CallsOK
    <3>2. ASSUME op[e].at = "enrich" PROVE op[e].i \in Instances /\ op[e].i # op[c].i
      <4>1. op[e] # Idle
        BY <3>2 DEF Idle
      <4> QED
        BY <3>1, <3>2, <4>1, CallKinds DEF IndexUnlocked, Using
    <3>3. PICK j : j = op[e].i
      OBVIOUS
    <3>4. op[e].at = "enrich" => index'[j] = index[j]
      BY <3>2, <3>3
    <3> QED
      BY <3>1, <3>3, <3>4 DEF CallOK
  <2> QED
    BY <2>1, <2>2
<1> QED
  BY <1>1, <1>2 DEF CallsOK

\* A thread outside every call.
LEMMA IdleOK ==
  Idle \in Calls /\ CallOK(Idle)
<1>1. Idle.at = "idle"
  BY DEF Idle
<1> QED
  BY <1>1 DEF Calls, CallOK

-----------------------------------------------------------------------------

\* The initial state.
LEMMA BaseInit == Init => BaseInv
<1> SUFFICES ASSUME Init PROVE BaseInv
  OBVIOUS
<1>1. TablesOK
  BY DEF Init, TablesOK
<1>2. inst \in [Instances -> States]
  BY DEF Init, States
<1>3. IndexesOK
  BY EmptyOK DEF Init, IndexesOK
<1>4. CallsOK
  BY IdleOK DEF Init, CallsOK
<1> QED
  BY <1>1, <1>2, <1>3, <1>4 DEF BaseInv

\* Steps of new, and closing.
LEMMA BaseOpen ==
  ASSUME BaseInv, NEW i \in Instances,
         \/ \E o \in Options : OpenLoadConfig(i, o) \/ OpenMemory(i, o)
         \/ OpenStep(i)
         \/ Close(i)
  PROVE  BaseInv'
<1>1. TablesOK /\ inst \in [Instances -> States] /\ IndexesOK /\ CallsOK
  BY DEF BaseInv
<1>2. ASSUME inst[i].at # "open", NEW c \in Threads, op[c] # Idle PROVE op[c].i # i
  BY <1>1, <1>2 DEF CallsOK, CallOK
<1>3. ASSUME NEW s \in States, inst[i].at # "open",
             inst' = [inst EXCEPT ![i] = s], UNCHANGED <<backend, index, op>>, TablesOK'
      PROVE  BaseInv'
  <2>1. inst' \in [Instances -> States] /\ \A j \in Instances : j # i => inst'[j] = inst[j]
    BY <1>1, <1>3
  <2>2. CallsOK'
    BY <1>1, <1>2, <1>3, <2>1, InstMoves
  <2>3. IndexesOK'
    BY <1>1, <1>3 DEF IndexesOK, IndexOK, Repeated
  <2> QED
    BY <1>3, <2>1, <2>2, <2>3 DEF BaseInv
<1>4. ASSUME NEW o \in Options, OpenLoadConfig(i, o) PROVE BaseInv'
  <2>1. PICK s : s = IF config = Absent THEN [at |-> "save", opt |-> o]
                     ELSE [at |-> "list", opt |-> config]
    OBVIOUS
  <2>2. s \in States
    BY <1>1, <2>1 DEF TablesOK, States, Opening
  <2>3. inst[i].at # "open" /\ inst' = [inst EXCEPT ![i] = s] /\ UNCHANGED <<backend, vec, meta, config, index, op>>
    BY <1>4, <2>1 DEF OpenLoadConfig, Closed
  <2>4. TablesOK'
    BY <1>1, <2>3 DEF TablesOK
  <2> QED
    BY <1>3, <2>2, <2>3, <2>4
<1>10. ASSUME NEW o \in Options, OpenMemory(i, o) PROVE BaseInv'
  <2>1. PICK s : s = [at |-> "list", opt |-> o]
    OBVIOUS
  <2>2. s \in States
    BY <2>1 DEF States, Opening
  <2>3. inst[i].at # "open" /\ inst' = [inst EXCEPT ![i] = s] /\ UNCHANGED <<backend, vec, meta, config, index, op>>
    BY <1>10, <2>1 DEF OpenMemory, Closed
  <2>4. TablesOK'
    BY <1>1, <2>3 DEF TablesOK
  <2> QED
    BY <1>3, <2>2, <2>3, <2>4
<1>5. ASSUME OpenSaveConfig(i) PROVE BaseInv'
  <2>1. PICK s : s = [inst[i] EXCEPT !.at = "list"]
    OBVIOUS
  <2>2. inst[i] \in Opening
    BY <1>1, <1>5, StateKinds DEF OpenSaveConfig
  <2>3. s \in States /\ inst[i].opt \in Options
    BY <2>1, <2>2 DEF States, Opening
  <2>4. inst[i].at # "open" /\ inst' = [inst EXCEPT ![i] = s] /\ UNCHANGED <<backend, vec, meta, index, op>>
    BY <1>5, <2>1 DEF OpenSaveConfig
  <2>5. TablesOK'
    BY <1>1, <1>5, <2>3, <2>4 DEF TablesOK, OpenSaveConfig
  <2> QED
    BY <1>3, <2>3, <2>4, <2>5
<1>6. ASSUME OpenListIds(i) PROVE BaseInv'
  <2>1. PICK s : s = [at |-> "load", opt |-> inst[i].opt, todo |-> StoredIds, rows |-> <<>>]
    OBVIOUS
  <2>2. inst[i] \in Opening
    BY <1>1, <1>6, StateKinds DEF OpenListIds
  <2>3. s \in States
    <3>1. inst[i].opt \in Options /\ StoredIds \in SUBSET Ids /\ <<>> \in Seq(Row)
      BY <2>2 DEF Opening, StoredIds
    <3> QED
      BY <2>1, <3>1 DEF States, Loading
  <2>4. inst[i].at # "open" /\ inst' = [inst EXCEPT ![i] = s] /\ UNCHANGED <<backend, vec, meta, config, index, op>>
    BY <1>6, <2>1 DEF OpenListIds
  <2>5. TablesOK'
    BY <1>1, <2>4 DEF TablesOK
  <2> QED
    BY <1>3, <2>3, <2>4, <2>5
<1>7. ASSUME NEW x \in Ids, OpenLoadRow(i, x) PROVE BaseInv'
  <2>0. PICK r : r = IF vec[x] = Absent THEN inst[i].rows
                     ELSE Append(inst[i].rows, [id |-> x, vec |-> vec[x]])
    OBVIOUS
  <2>1. PICK s : s = [inst[i] EXCEPT !.todo = @ \ {x}, !.rows = r]
    OBVIOUS
  <2>2. inst[i] \in Loading
    BY <1>1, <1>7, StateKinds DEF OpenLoadRow
  <2>3. r \in Seq(Row)
    <3>1. vec[x] # Absent => [id |-> x, vec |-> vec[x]] \in Row
      BY <1>1 DEF TablesOK, Row
    <3>2. inst[i].rows \in Seq(Row)
      BY <2>2 DEF Loading
    <3> QED
      BY <2>0, <3>1, <3>2
  <2>4. s \in States
    BY <2>1, <2>2, <2>3 DEF States, Loading
  <2>5. inst[i].at # "open" /\ inst' = [inst EXCEPT ![i] = s] /\ UNCHANGED <<backend, vec, meta, config, index, op>>
    BY <1>7, <2>0, <2>1 DEF OpenLoadRow
  <2>6. TablesOK'
    BY <1>1, <2>5 DEF TablesOK
  <2> QED
    BY <1>3, <2>4, <2>5, <2>6
<1>8. ASSUME OpenFinish(i) PROVE BaseInv'
  <2>1. inst[i] \in Loading /\ inst[i].at # "open" /\ inst[i].opt \in Options
    BY <1>1, <1>8, StateKinds DEF OpenFinish, Loading
  <2>2. TablesOK' /\ UNCHANGED <<backend, vec, meta, config, op>>
    BY <1>1, <1>8 DEF TablesOK, OpenFinish
  <2>3. ASSUME inst' = [inst EXCEPT ![i] = Closed] /\ UNCHANGED index PROVE BaseInv'
    <3>1. Closed \in States
      BY DEF States
    <3> QED
      BY <1>3, <2>1, <2>2, <2>3, <3>1
  <2>4. ASSUME inst' = [inst EXCEPT ![i] = [at |-> "open", opt |-> inst[i].opt]],
               index' = [index EXCEPT ![i] = IndexAddBatch(EmptyIndex(inst[i].opt.kind), inst[i].rows)]
        PROVE  BaseInv'
    <3>1. PICK s : s = [at |-> "open", opt |-> inst[i].opt]
      OBVIOUS
    <3>2. s \in States
      BY <2>1, <3>1 DEF States, Opening
    <3>3. PICK ix : ix = IndexAddBatch(EmptyIndex(inst[i].opt.kind), inst[i].rows)
      OBVIOUS
    <3>4. ix \in Index /\ IndexOK(ix)
      <4>1. inst[i].opt.kind \in {"flat", "hnsw"}
        BY <2>1, VectorDbAssumption
      <4>2. IsBatch(inst[i].rows)
        BY <2>1, RowsAre DEF Loading
      <4> QED
        BY <3>3, <4>1, <4>2, EmptyOK, AddBatchOK
    <3>5. inst' \in [Instances -> States] /\ \A j \in Instances : j # i => inst'[j] = inst[j] /\ index'[j] = index[j]
      BY <1>1, <2>4, <3>1, <3>2 DEF IndexesOK
    <3>6. CallsOK'
      BY <1>1, <1>2, <2>1, <2>2, <3>5, InstMoves
    <3>7. IndexesOK'
      BY <1>1, <2>4, <3>3, <3>4 DEF IndexesOK
    <3> QED
      BY <2>2, <3>5, <3>6, <3>7 DEF BaseInv
  <2> QED
    BY <1>8, <2>3, <2>4 DEF OpenFinish
<1>9. ASSUME Close(i) PROVE BaseInv'
  <2>1. PICK ix : ix = EmptyIndex("flat")
    OBVIOUS
  <2>2. ix \in Index /\ IndexOK(ix)
    BY <2>1, EmptyOK
  <2>3. inst' = [inst EXCEPT ![i] = Closed] /\ index' = [index EXCEPT ![i] = ix]
    BY <1>9, <2>1 DEF Close
  <2>4. inst' \in [Instances -> States] /\ \A j \in Instances : j # i => inst'[j] = inst[j] /\ index'[j] = index[j]
    BY <1>1, <2>3 DEF IndexesOK, States
  <2>5. CallsOK'
    BY <1>1, <1>9, <2>4, InstMoves DEF Close, Using
  <2>6. IndexesOK'
    BY <1>1, <2>2, <2>3 DEF IndexesOK
  <2>7. TablesOK'
    BY <1>1, <1>9 DEF TablesOK, Close, DropStorage
  <2> QED
    BY <2>4, <2>5, <2>6, <2>7 DEF BaseInv
<1> QED
  BY <1>4, <1>5, <1>6, <1>7, <1>8, <1>9, <1>10 DEF OpenStep

\* A crash.
LEMMA BaseCrash ==
  ASSUME BaseInv, Crash
  PROVE  BaseInv'
<1>1. TablesOK'
  BY DEF BaseInv, TablesOK, Crash, DropStorage
<1>2. inst' \in [Instances -> States]
  BY DEF States, Crash
<1>3. IndexesOK'
  BY EmptyOK DEF Crash, IndexesOK
<1>4. CallsOK'
  <2>1. op' \in [Threads -> Calls] /\ \A c \in Threads : op'[c] = Idle
    BY IdleOK DEF Crash
  <2>2. Idle.at = "idle"
    BY DEF Idle
  <2> QED
    BY <2>1, <2>2 DEF CallsOK, CallOK
<1> QED
  BY <1>1, <1>2, <1>3, <1>4 DEF BaseInv

\* The steps that begin an operation.
LEMMA BaseCall ==
  ASSUME BaseInv, NEW c \in Threads, Call(c)
  PROVE  BaseInv'
<1>1. TablesOK /\ inst \in [Instances -> States] /\ IndexesOK /\ CallsOK
  BY DEF BaseInv
<1>2. ASSUME NEW o \in Calls, CallOK(o), op' = [op EXCEPT ![c] = o],
             UNCHANGED <<backend, inst, index>>, TablesOK'
      PROVE  BaseInv'
  <2>1. CallsOK'
    BY <1>1, <1>2, CallMoves
  <2>2. IndexesOK'
    BY <1>1, <1>2 DEF IndexesOK, IndexOK, Repeated
  <2> QED
    BY <1>1, <1>2, <2>1, <2>2 DEF BaseInv
<1>3. ASSUME NEW i \in Instances, NEW b \in Batches, InsertPersistent(c, i, b) PROVE BaseInv'
  <2>1. PICK o : o = [at |-> "add", i |-> i, entries |-> b]
    OBVIOUS
  <2>2. o \in Calls
    BY <2>1 DEF Calls, Adding
  <2>3. CallOK(o)
    <3>1. inst[i].at = "open"
      BY <1>3 DEF InsertPersistent, MayInsert
    <3> QED
      BY <2>1, <3>1 DEF CallOK
  <2>4. IsBatch(b) /\ b \in Seq(Entry) /\ \A n \in DOMAIN b : b[n].meta \in Metas \cup {Absent}
    BY BatchIs
  <2>5. TablesOK'
    BY <1>1, <1>3, <2>4, StoresVectors, StoresMetas DEF TablesOK, InsertPersistent
  <2> QED
    BY <1>2, <1>3, <2>1, <2>2, <2>3, <2>5 DEF InsertPersistent
<1>4. ASSUME NEW i \in Instances, NEW b \in Batches, InsertMemory(c, i, b) PROVE BaseInv'
  <2>1. PICK o : o = IF b = <<>> THEN [at |-> "add", i |-> i, entries |-> b]
                     ELSE [at |-> "vector", i |-> i, entries |-> b, next |-> 1]
    OBVIOUS
  <2>2. o \in Calls
    BY <2>1 DEF Calls, Adding, Storing
  <2>3. b # <<>> => 1 \in DOMAIN b
    <3>1. b \in Seq(Entry)
      BY BatchIs
    <3> QED
      BY <3>1
  <2>4. CallOK(o)
    <3>1. inst[i].at = "open" /\ backend = "memory"
      BY <1>4 DEF InsertMemory, MayInsert
    <3>2. CASE b = <<>>
      BY <2>1, <3>1, <3>2 DEF CallOK
    <3>3. CASE b # <<>>
      BY <2>1, <2>3, <3>1, <3>3 DEF CallOK
    <3> QED
      BY <3>2, <3>3
  <2>5. op' = [op EXCEPT ![c] = o] /\ UNCHANGED <<backend, vec, meta, config, inst, index>>
    BY <1>4, <2>1 DEF InsertMemory
  <2>6. TablesOK'
    BY <1>1, <2>5 DEF TablesOK
  <2> QED
    BY <1>2, <2>2, <2>4, <2>5, <2>6
<1>5. ASSUME NEW i \in Instances, NEW x \in Ids, DeletePersistent(c, i, x) PROVE BaseInv'
  <2>1. PICK o : o = AfterDelete(i, x, vec[x] # Absent)
    OBVIOUS
  <2>2. o \in Calls
    BY <2>1 DEF AfterDelete, Calls, Removing
  <2>3. CallOK(o)
    BY <1>5, <2>1, IdleOK DEF AfterDelete, CallOK, DeletePersistent, MayDelete
  <2>4. TablesOK'
    BY <1>1, <1>5 DEF TablesOK, DeletePersistent
  <2> QED
    BY <1>2, <1>5, <2>1, <2>2, <2>3, <2>4 DEF DeletePersistent
<1>6. ASSUME NEW i \in Instances, NEW x \in Ids, DeleteMemoryVector(c, i, x) PROVE BaseInv'
  <2>1. PICK o : o = [at |-> "unmeta", i |-> i, id |-> x, deleted |-> vec[x] # Absent]
    OBVIOUS
  <2>2. o \in Calls
    BY <2>1 DEF Calls, Unstoring
  <2>3. CallOK(o)
    BY <1>6, <2>1 DEF CallOK, DeleteMemoryVector, MayDelete
  <2>4. TablesOK'
    BY <1>1, <1>6 DEF TablesOK, DeleteMemoryVector
  <2> QED
    BY <1>2, <1>6, <2>1, <2>2, <2>3, <2>4 DEF DeleteMemoryVector
<1>7. ASSUME NEW i \in Instances, SearchIndex(c, i) PROVE BaseInv'
  <2>1. PICK o : o = [at |-> "enrich", i |-> i, todo |-> IndexHits(index[i]), found |-> {}]
    OBVIOUS
  <2>2. o \in Calls
    <3>1. IndexHits(index[i]) \subseteq Hit
      BY <1>1, HitsTyped DEF IndexesOK
    <3> QED
      BY <2>1, <3>1 DEF Calls, Searching
  <2>3. CallOK(o)
    BY <1>7, <2>1 DEF CallOK, SearchIndex
  <2>4. UNCHANGED <<backend, vec, meta, config, inst, index>> /\ op' = [op EXCEPT ![c] = o]
    BY <1>7, <2>1 DEF SearchIndex
  <2>5. TablesOK'
    BY <1>1, <2>4 DEF TablesOK
  <2> QED
    BY <1>2, <2>2, <2>3, <2>4, <2>5
<1> QED
  BY <1>3, <1>4, <1>5, <1>6, <1>7, VectorDbAssumption DEF Call

\* The steps under the write lock of an index.
LEMMA BaseLock ==
  ASSUME BaseInv, NEW c \in Threads, LockIndex(c)
  PROVE  BaseInv'
<1>1. TablesOK /\ inst \in [Instances -> States] /\ IndexesOK /\ CallsOK /\ op[c] \in Calls
  BY DEF BaseInv, CallsOK
<1>2. ASSUME NEW ix \in Index, IndexOK(ix), op[c] # Idle, IndexUnlocked(op[c].i),
             index' = [index EXCEPT ![op[c].i] = ix], op' = [op EXCEPT ![c] = Idle],
             UNCHANGED <<backend, vec, meta, config, inst>>
      PROVE  BaseInv'
  <2>1. TablesOK'
    BY <1>1, <1>2 DEF TablesOK
  <2>2. PICK i \in Instances : i = op[c].i
    BY <1>1, <1>2, CallKinds
  <2>3. index' \in [Instances -> Index] /\ index'[i] = ix /\ \A j \in Instances : j # i => index'[j] = index[j]
    BY <1>1, <1>2, <2>2 DEF IndexesOK
  <2>4. IndexesOK'
    <3>1. \A j \in Instances : IndexOK(index'[j])
      BY <1>1, <1>2, <2>3 DEF IndexesOK
    <3> QED
      BY <2>3, <3>1 DEF IndexesOK, IndexOK, Repeated
  <2>5. CallsOK'
    BY <1>1, <1>2, <2>2, <2>3, IndexMoves
  <2> QED
    BY <1>1, <1>2, <2>1, <2>4, <2>5 DEF BaseInv
<1>3. ASSUME AddToIndex(c) PROVE BaseInv'
  <2>1. op[c] \in Adding /\ op[c] # Idle
    BY <1>1, <1>3, CallKinds DEF AddToIndex, Idle
  <2>2. op[c].i \in Instances /\ op[c].entries \in Batches
    BY <2>1 DEF Adding
  <2>3. PICK ix : ix = IndexAddBatch(index[op[c].i], op[c].entries)
    OBVIOUS
  <2>4. ix \in Index /\ IndexOK(ix)
    BY <1>1, <2>2, <2>3, AddBatchOK, BatchIs DEF IndexesOK
  <2> QED
    BY <1>2, <1>3, <2>1, <2>3, <2>4 DEF AddToIndex
<1>4. ASSUME RemoveFromIndex(c) PROVE BaseInv'
  <2>1. op[c] \in Removing /\ op[c] # Idle
    BY <1>1, <1>4, CallKinds DEF RemoveFromIndex, Idle
  <2>2. op[c].i \in Instances /\ op[c].id \in Ids
    BY <2>1 DEF Removing
  <2>3. PICK ix : ix = IndexRemove(index[op[c].i], op[c].id)
    OBVIOUS
  <2>4. ix \in Index /\ IndexOK(ix)
    BY <1>1, <2>2, <2>3, RemoveOK DEF IndexesOK
  <2> QED
    BY <1>2, <1>4, <2>1, <2>3, <2>4 DEF RemoveFromIndex
<1> QED
  BY <1>3, <1>4 DEF LockIndex

\* The steps inside an operation.
LEMMA BaseContinue ==
  ASSUME BaseInv, NEW c \in Threads, Continue(c)
  PROVE  BaseInv'
<1>1. TablesOK /\ inst \in [Instances -> States] /\ IndexesOK /\ CallsOK
      /\ op[c] \in Calls /\ CallOK(op[c])
  BY DEF BaseInv, CallsOK
<1>2. ASSUME NEW o \in Calls, CallOK(o), op' = [op EXCEPT ![c] = o],
             UNCHANGED <<backend, inst, index>>, TablesOK'
      PROVE  BaseInv'
  <2>1. CallsOK'
    BY <1>1, <1>2, CallMoves
  <2>2. IndexesOK'
    BY <1>1, <1>2 DEF IndexesOK, IndexOK, Repeated
  <2> QED
    BY <1>1, <1>2, <2>1, <2>2 DEF BaseInv
<1>3. ASSUME op[c] \in Storing, op[c].at \in {"vector", "metadata"}
      PROVE  /\ op[c].entries \in Batches /\ op[c].entries \in Seq(Entry)
             /\ op[c].next \in DOMAIN op[c].entries
             /\ op[c].entries[op[c].next].id \in Ids
             /\ op[c].entries[op[c].next].vec \in Vectors
             /\ op[c].entries[op[c].next].meta \in Metas \cup {Absent}
             /\ inst[op[c].i].at = "open" /\ op[c].i \in Instances /\ backend = "memory"
  <2>1. op[c].entries \in Batches /\ op[c].i \in Instances
    BY <1>3 DEF Storing
  <2>2. op[c].next \in DOMAIN op[c].entries
    BY <1>1, <1>3 DEF CallOK
  <2>3. inst[op[c].i].at = "open" /\ backend = "memory"
    <3>1. op[c] # Idle
      BY <1>3 DEF Idle
    <3> QED
      BY <1>1, <1>3, <3>1 DEF CallOK
  <2> QED
    BY <2>1, <2>2, <2>3, BatchIs
<1>4. ASSUME MemoryStoreVector(c) PROVE BaseInv'
  <2> DEFINE e == op[c].entries[op[c].next]
  <2>1. op[c] \in Storing /\ op[c].at = "vector"
    BY <1>1, <1>4, CallKinds DEF MemoryStoreVector
  <2>2. e.id \in Ids /\ e.vec \in Vectors
    BY <1>3, <2>1
  <2>3. CASE Accepts(op[c].i, e)
    <3>1. PICK o : o = [op[c] EXCEPT !.at = "metadata"]
      OBVIOUS
    <3>2. o \in Calls
      BY <2>1, <3>1 DEF Calls, Storing
    <3>3. CallOK(o)
      <4>1. o.at = "metadata" /\ o.i = op[c].i /\ o.entries = op[c].entries /\ o.next = op[c].next
        BY <2>1, <3>1 DEF Storing
      <4> QED
        BY <1>3, <2>1, <4>1 DEF CallOK
    <3>4. vec' = StoreVectors(vec, <<e>>) /\ op' = [op EXCEPT ![c] = o]
          /\ UNCHANGED <<backend, meta, config, inst, index>>
      BY <1>4, <2>3, <3>1 DEF MemoryStoreVector
    <3>5. TablesOK'
      <4> HIDE DEF e
      <4>1. vec' = [vec EXCEPT ![e.id] = e.vec]
        BY <1>1, <2>2, <3>4, StoresOneVector DEF TablesOK
      <4> QED
        BY <1>1, <2>2, <3>4, <4>1 DEF TablesOK
    <3> QED
      BY <1>2, <3>2, <3>3, <3>4, <3>5
  <2>4. CASE ~Accepts(op[c].i, e)
    <3>1. op' = [op EXCEPT ![c] = Idle] /\ UNCHANGED <<backend, vec, meta, config, inst, index>>
      BY <1>4, <2>4 DEF MemoryStoreVector
    <3>2. TablesOK'
      BY <1>1, <3>1 DEF TablesOK
    <3> QED
      BY <1>2, <3>1, <3>2, IdleOK
  <2> QED
    BY <2>3, <2>4
<1>5. ASSUME MemoryStoreMetadata(c) PROVE BaseInv'
  <2>1. op[c] \in Storing /\ op[c].at = "metadata"
    BY <1>1, <1>5, CallKinds DEF MemoryStoreMetadata
  <2>2. PICK o : o = IF op[c].next = Len(op[c].entries)
                     THEN [at |-> "add", i |-> op[c].i, entries |-> op[c].entries]
                     ELSE [op[c] EXCEPT !.at = "vector", !.next = @ + 1]
    OBVIOUS
  <2>3. PICK e : e = op[c].entries[op[c].next]
    OBVIOUS
  <2>4. o \in Calls /\ CallOK(o)
    <3>1. CASE op[c].next = Len(op[c].entries)
      <4>1. o = [at |-> "add", i |-> op[c].i, entries |-> op[c].entries]
        BY <2>2, <3>1
      <4>2. o \in Calls
        BY <1>3, <2>1, <4>1 DEF Calls, Adding
      <4>3. o.at = "add" /\ o.i = op[c].i /\ o.entries = op[c].entries
        BY <4>1
      <4>4. CallOK(o)
        BY <1>3, <2>1, <4>3 DEF CallOK
      <4> QED
        BY <4>2, <4>4
    <3>2. CASE op[c].next # Len(op[c].entries)
      <4>1. o = [op[c] EXCEPT !.at = "vector", !.next = @ + 1]
        BY <2>2, <3>2
      <4>2. o.at = "vector" /\ o.i = op[c].i /\ o.entries = op[c].entries /\ o.next = op[c].next + 1
        BY <2>1, <4>1 DEF Storing
      <4>3. o \in Calls
        <5>1. PICK k \in Nat : k = op[c].next + 1
          BY <2>1 DEF Storing
        <5>2. o = [op[c] EXCEPT !.at = "vector", !.next = k]
          BY <4>1, <5>1
        <5>3. o \in Storing
          BY <2>1, <5>2 DEF Storing
        <5> QED
          BY <5>3 DEF Calls
      <4>4. o.next \in DOMAIN o.entries
        BY <1>3, <2>1, <3>2, <4>2
      <4>5. CallOK(o)
        BY <1>3, <2>1, <4>2, <4>4 DEF CallOK
      <4> QED
        BY <4>3, <4>5
    <3> QED
      BY <3>1, <3>2
  <2>5. op' = [op EXCEPT ![c] = o] /\ meta' = StoreMetas(meta, <<e>>)
        /\ UNCHANGED <<backend, vec, config, inst, index>>
    BY <1>5, <2>2, <2>3 DEF MemoryStoreMetadata
  <2>6. TablesOK'
    <3>1. e.meta \in Metas \cup {Absent}
      BY <1>3, <2>1, <2>3
    <3>2. <<e>> \in Seq({e}) /\ \A n \in DOMAIN <<e>> : <<e>>[n] = e
      OBVIOUS
    <3>3. meta' \in [Ids -> Metas \cup {Absent}]
      BY <1>1, <2>5, <3>1, <3>2, StoresMetas DEF TablesOK
    <3> QED
      BY <1>1, <2>5, <3>3 DEF TablesOK
  <2> QED
    BY <1>2, <2>4, <2>5, <2>6
<1>6. ASSUME DeleteMemoryMetadata(c) PROVE BaseInv'
  <2>1. op[c] \in Unstoring /\ op[c].at = "unmeta"
    BY <1>1, <1>6, CallKinds DEF DeleteMemoryMetadata
  <2>2. PICK o : o = AfterDelete(op[c].i, op[c].id, op[c].deleted)
    OBVIOUS
  <2>3. op[c].i \in Instances /\ op[c].id \in Ids /\ inst[op[c].i].at = "open"
    <3>1. op[c] # Idle
      BY <2>1 DEF Idle
    <3> QED
      BY <1>1, <2>1, <3>1 DEF CallOK, Unstoring
  <2>4. o \in Calls
    <3>1. o = [at |-> "remove", i |-> op[c].i, id |-> op[c].id] \/ o = Idle
      BY <2>2 DEF AfterDelete
    <3>2. PICK j \in Instances, x \in Ids : j = op[c].i /\ x = op[c].id
      BY <2>3
    <3>3. [at |-> "remove", i |-> j, id |-> x] \in Removing
      BY DEF Removing
    <3> QED
      BY <3>1, <3>2, <3>3 DEF Calls
  <2>5. CallOK(o)
    BY <2>2, <2>3, IdleOK DEF AfterDelete, CallOK
  <2>6. op' = [op EXCEPT ![c] = o] /\ meta' = [meta EXCEPT ![op[c].id] = Absent]
        /\ UNCHANGED <<backend, vec, config, inst, index>>
    BY <1>6, <2>2 DEF DeleteMemoryMetadata
  <2>7. TablesOK'
    BY <1>1, <2>6 DEF TablesOK
  <2> QED
    BY <1>2, <2>4, <2>5, <2>6, <2>7
<1>7. ASSUME NEW h, SearchEnrich(c, h) PROVE BaseInv'
  <2>1. op[c] \in Searching /\ op[c].at = "enrich" /\ h \in op[c].todo
    BY <1>1, <1>7, CallKinds DEF SearchEnrich
  <2>2. PICK f : f = [id |-> h.id, scored |-> h.scored, point |-> h.point, vector |-> vec[h.id]]
    OBVIOUS
  <2>3. PICK o : o = [op[c] EXCEPT !.todo = @ \ {h}, !.found = @ \cup {f}]
    OBVIOUS
  <2>4. h \in Hit
    BY <2>1 DEF Searching
  <2>5. f \in Found
    BY <1>1, <2>2, <2>4 DEF Hit, Found, TablesOK
  <2>6. o \in Calls /\ o.at = "enrich" /\ o.i = op[c].i
        /\ o.todo = op[c].todo \ {h} /\ o.found = op[c].found \cup {f}
    BY <2>1, <2>3, <2>5 DEF Calls, Searching
  <2>7. CallOK(o)
    <3>1. h \in IndexHits(index[op[c].i])
      BY <1>1, <2>1 DEF CallOK
    <3>2. [id |-> f.id, scored |-> f.scored, point |-> f.point] = h
      BY <2>2, <2>4 DEF Hit
    <3>3. op[c] # Idle
      BY <2>1 DEF Idle
    <3> QED
      BY <1>1, <2>1, <2>6, <3>1, <3>2, <3>3 DEF CallOK
  <2>8. op' = [op EXCEPT ![c] = o] /\ UNCHANGED <<backend, vec, meta, config, inst, index>>
    BY <1>7, <2>2, <2>3 DEF SearchEnrich
  <2>9. TablesOK'
    BY <1>1, <2>8 DEF TablesOK
  <2> QED
    BY <1>2, <2>6, <2>7, <2>8, <2>9
<1>8. ASSUME SearchReturn(c) PROVE BaseInv'
  <2>1. op' = [op EXCEPT ![c] = Idle] /\ UNCHANGED <<backend, vec, meta, config, inst, index>>
    BY <1>8 DEF SearchReturn
  <2>2. TablesOK'
    BY <1>1, <2>1 DEF TablesOK
  <2> QED
    BY <1>2, <2>1, <2>2, IdleOK
<1> QED
  BY <1>4, <1>5, <1>6, <1>7, <1>8 DEF Continue

\* Every step.
LEMMA BaseStep == BaseInv /\ [Next]_vars => BaseInv'
<1> SUFFICES ASSUME BaseInv, [Next]_vars PROVE BaseInv'
  OBVIOUS
<1>1. CASE UNCHANGED vars
  BY <1>1 DEF vars, BaseInv, TablesOK, IndexesOK, IndexOK, Repeated, CallsOK, CallOK
<1> QED
  BY <1>1, BaseCall, BaseLock, BaseContinue, BaseOpen, BaseCrash DEF Next

\* The histories are of ids and instances.
HistoryOK ==
    /\ cut \subseteq Ids /\ unsettled \subseteq Instances
    /\ stale \in [Instances -> SUBSET Ids]

LEMMA HistoryStep == BaseInv /\ HistoryOK /\ [Next]_vars => HistoryOK'
<1> SUFFICES ASSUME BaseInv, HistoryOK, [Next]_vars PROVE HistoryOK'
  OBVIOUS
<1>1. ASSUME UNCHANGED history PROVE HistoryOK'
  BY <1>1 DEF HistoryOK, history
<1>2. ASSUME NEW i \in Instances, NEW xs \in SUBSET Ids, WrittenThrough(i, xs), UNCHANGED <<cut, unsettled>>
      PROVE  HistoryOK'
  BY <1>2 DEF HistoryOK, WrittenThrough
<1>3. ASSUME NEW c \in Threads, Call(c) PROVE HistoryOK'
  <2>1. ASSUME NEW i \in Instances, NEW b \in Batches, InsertPersistent(c, i, b) PROVE HistoryOK'
    <3>1. {b[n].id : n \in DOMAIN b} \in SUBSET Ids
      BY BatchIs
    <3> QED
      BY <1>2, <2>1, <3>1 DEF InsertPersistent
  <2>2. ASSUME NEW i \in Instances, NEW b \in Batches, InsertMemory(c, i, b) PROVE HistoryOK'
    BY <1>1, <2>2 DEF InsertMemory
  <2>3. ASSUME NEW i \in Instances, NEW x \in Ids, DeletePersistent(c, i, x) PROVE HistoryOK'
    BY <1>2, <2>3 DEF DeletePersistent
  <2>4. ASSUME NEW i \in Instances, NEW x \in Ids, DeleteMemoryVector(c, i, x) PROVE HistoryOK'
    BY <2>4 DEF DeleteMemoryVector, HistoryOK
  <2>5. ASSUME NEW i \in Instances, SearchIndex(c, i) PROVE HistoryOK'
    BY <1>1, <2>5 DEF SearchIndex
  <2> QED
    BY <1>3, <2>1, <2>2, <2>3, <2>4, <2>5, VectorDbAssumption DEF Call
<1>4. ASSUME NEW c \in Threads, LockIndex(c) \/ Continue(c) PROVE HistoryOK'
  <2>1. CASE DeleteMemoryMetadata(c)
    BY <2>1 DEF DeleteMemoryMetadata, HistoryOK
  <2>2. CASE ~DeleteMemoryMetadata(c)
    BY <1>1, <1>4, <2>2 DEF LockIndex, AddToIndex, RemoveFromIndex, Continue, MemoryStoreVector,
                            MemoryStoreMetadata, SearchEnrich, SearchReturn
  <2> QED
    BY <2>1, <2>2
<1>5. ASSUME NEW i \in Instances, NEW o \in Options, OpenLoadConfig(i, o) PROVE HistoryOK'
  BY <1>5 DEF OpenLoadConfig, OpenBesideSavers, Savers, HistoryOK
<1>6. ASSUME NEW i \in Instances, NEW o \in Options, OpenMemory(i, o) PROVE HistoryOK'
  BY <1>1, <1>6 DEF OpenMemory
<1>7. ASSUME NEW i \in Instances, OpenStep(i) PROVE HistoryOK'
  <2>1. CASE OpenFinish(i)
    BY <2>1 DEF OpenFinish, Forget, HistoryOK
  <2>2. CASE ~OpenFinish(i)
    BY <1>1, <1>7, <2>2 DEF OpenStep, OpenSaveConfig, OpenListIds, OpenLoadRow
  <2> QED
    BY <2>1, <2>2
<1>8. ASSUME NEW i \in Instances, Close(i) PROVE HistoryOK'
  BY <1>8 DEF Close, Forget, DropStorage, HistoryOK
<1>9. ASSUME Crash PROVE HistoryOK'
  BY <1>9 DEF Crash, DropStorage, HistoryOK
<1> QED
  BY <1>1, <1>3, <1>4, <1>5, <1>6, <1>7, <1>8, <1>9 DEF Next, vars, history

\* Every variable keeps to its type, for any number of threads, instances, ids
\* and batches, two instances on one file and two writers of one id included:
\* add and remove never map an id to a point that is not in the graph.
THEOREM VectorDbTyped == Spec => []TypeOK
<1>0. Init => HistoryOK
  BY DEF Init, HistoryOK
<1>1. BaseInv /\ HistoryOK => TypeOK
  <2> SUFFICES ASSUME BaseInv, HistoryOK PROVE TypeOK
    OBVIOUS
  <2>1. ASSUME NEW i \in Instances
        PROVE  /\ inst[i].at \in {"closed", "save", "list", "load", "open"}
               /\ inst[i] # Closed => inst[i].opt \in Options
               /\ index[i].vectors \in [Ids -> Vectors \cup {Absent}]
               /\ index[i].graph \in Seq([id : Ids, vec : Vectors, live : BOOLEAN])
               /\ index[i].idx \in [Ids -> 0..Len(index[i].graph)]
    <3>1. index[i] \in Index /\ IndexOK(index[i]) /\ inst[i] \in States
      BY DEF BaseInv, IndexesOK
    <3>2. index[i].idx \in [Ids -> 0..Len(index[i].graph)]
      BY <3>1 DEF Index, IndexOK
    <3> QED
      BY <3>1, <3>2, StateKinds DEF Index, Point
  <2>2. ASSUME NEW c \in Threads, op[c] # Idle
        PROVE  /\ op[c].i \in Instances
               /\ \/ op[c].at \in {"add", "vector", "metadata"} /\ op[c].entries \in Batches
                  \/ op[c].at \in {"remove", "unmeta"} /\ op[c].id \in Ids
                  \/ op[c].at = "enrich" /\ op[c].todo \subseteq Hit
    <3>1. op[c] \in Calls
      BY DEF BaseInv, CallsOK
    <3> QED
      BY <2>2, <3>1, CallKinds DEF Adding, Storing, Removing, Unstoring, Searching
  <2> QED
    BY <2>1, <2>2 DEF BaseInv, TablesOK, TypeOK, HistoryOK
<1> QED
  BY <1>0, <1>1, BaseInit, BaseStep, HistoryStep, PTL DEF Spec

\* A memory backend belongs to the only instance there is.
MemoryOfOne ==
    backend = "memory" =>
        \A i, j \in Instances : inst[i] # Closed /\ inst[j] # Closed => i = j

LEMMA MemoryStep == BaseInv /\ MemoryOfOne /\ [Next]_vars => MemoryOfOne'
<1> SUFFICES ASSUME BaseInv, MemoryOfOne, [Next]_vars PROVE MemoryOfOne'
  OBVIOUS
<1>1. inst \in [Instances -> States]
  BY DEF BaseInv
<1>2. ASSUME UNCHANGED <<backend, inst>> PROVE MemoryOfOne'
  BY <1>2 DEF MemoryOfOne
<1>3. ASSUME NEW c \in Threads, Call(c) \/ LockIndex(c) \/ Continue(c) PROVE MemoryOfOne'
  BY <1>2, <1>3 DEF Call, InsertPersistent, InsertMemory, DeletePersistent, DeleteMemoryVector,
       SearchIndex, LockIndex, AddToIndex, RemoveFromIndex, Continue, MemoryStoreVector,
       MemoryStoreMetadata, DeleteMemoryMetadata, SearchEnrich, SearchReturn
<1>4. ASSUME NEW i \in Instances, NEW o \in Options, OpenLoadConfig(i, o) PROVE MemoryOfOne'
  BY <1>4 DEF OpenLoadConfig, MemoryOfOne
<1>5. ASSUME NEW i \in Instances, NEW o \in Options, OpenMemory(i, o) PROVE MemoryOfOne'
  BY <1>1, <1>5 DEF OpenMemory, MemoryOfOne
<1>6. ASSUME NEW i \in Instances, OpenStep(i) \/ Close(i) PROVE MemoryOfOne'
  <2>1. inst[i] # Closed /\ backend' = backend
    <3>1. inst[i].at # "closed" /\ backend' = backend
      BY <1>6 DEF OpenStep, OpenSaveConfig, OpenListIds, OpenLoadRow, OpenFinish, Close
    <3> QED
      BY <3>1 DEF Closed
  <2>2. \A j \in Instances : j # i => inst'[j] = inst[j]
    BY <1>1, <1>6 DEF OpenStep, OpenSaveConfig, OpenListIds, OpenLoadRow, OpenFinish, Close
  <2> QED
    BY <2>1, <2>2 DEF MemoryOfOne
<1>7. ASSUME Crash PROVE MemoryOfOne'
  BY <1>7 DEF Crash, MemoryOfOne
<1> QED
  BY <1>2, <1>3, <1>4, <1>5, <1>6, <1>7 DEF Next, vars

\* Metadata without a vector: never in one transaction; in the memory backend
\* while a delete is between its maps, or after it was between those of an insert.
MetaComes(o) ==
    o.at = "metadata" /\ o.entries[o.next].meta # Absent =>
        vec[o.entries[o.next].id] # Absent \/ o.entries[o.next].id \in cut

MetaInv ==
    /\ backend = "persistent" => \A x \in Ids : meta[x] # Absent => vec[x] # Absent
    /\ backend = "memory" =>
         /\ \A x \in Ids : meta[x] # Absent /\ vec[x] = Absent =>
              x \in cut \/ \E c \in Threads : op[c].at = "unmeta" /\ op[c].id = x
         /\ \A c \in Threads : MetaComes(op[c])

\* Every step keeps MetaInv: an insert brings metadata to an id without a vector
\* only when a delete has come between its maps.
LEMMA MetaStep == BaseInv /\ MemoryOfOne /\ MetaInv /\ [Next]_vars => MetaInv'
<1> SUFFICES ASSUME BaseInv, MemoryOfOne, MetaInv, [Next]_vars PROVE MetaInv'
  OBVIOUS
<1>0. Absent \notin Vectors
  BY VectorDbAssumption
<1>1. TablesOK /\ inst \in [Instances -> States] /\ CallsOK
      /\ \A c \in Threads : op[c] \in Calls /\ CallOK(op[c])
  BY DEF BaseInv, CallsOK
<1>2. backend \in {"persistent", "memory"}
  BY <1>1, VectorDbAssumption DEF TablesOK
<1>3. ASSUME UNCHANGED <<backend, vec, meta, cut>>, NEW c \in Threads, NEW o, op' = [op EXCEPT ![c] = o],
             op[c].at # "unmeta", o.at # "metadata"
      PROVE  MetaInv'
  <2>1. op'[c] = o /\ \A e \in Threads : e # c => op'[e] = op[e]
    BY <1>1, <1>3 DEF CallsOK
  <2> QED
    BY <1>3, <2>1 DEF MetaInv, MetaComes
<1>4. ASSUME UNCHANGED <<backend, vec, meta, op, cut>> PROVE MetaInv'
  BY <1>4 DEF MetaInv, MetaComes
<1>5. Idle.at = "idle"
  BY DEF Idle
<1>6. ASSUME NEW c \in Threads, Call(c) PROVE MetaInv'
  <2>0. ASSUME op[c] = Idle PROVE op[c].at # "unmeta"
    BY <1>5, <2>0
  <2>1. ASSUME NEW i \in Instances, NEW b \in Batches, InsertPersistent(c, i, b) PROVE MetaInv'
    <3>1. IsBatch(b) /\ b \in Seq(Entry) /\ \A n \in DOMAIN b : b[n].meta \in Metas \cup {Absent}
      BY BatchIs
    <3>2. vec' = StoreVectors(vec, b) /\ meta' = StoreMetas(meta, b) /\ backend = "persistent"
          /\ backend' = backend
      BY <2>1 DEF InsertPersistent
    <3>3. ASSUME NEW x \in Ids, meta'[x] # Absent PROVE vec'[x] # Absent
      <4>1. CASE Places(b, x) = {}
        <5>1. meta'[x] = meta[x] /\ vec'[x] = vec[x]
          BY <1>1, <3>1, <3>2, <4>1, StoresVectors, StoresMetas DEF TablesOK
        <5> QED
          BY <3>2, <3>3, <5>1 DEF MetaInv
      <4>2. CASE Places(b, x) # {}
        <5>1. vec'[x] \in Vectors
          BY <1>1, <3>1, <3>2, <4>2, StoresVectors DEF TablesOK
        <5> QED
          BY <1>0, <5>1
      <4> QED
        BY <4>1, <4>2
    <3> QED
      BY <3>2, <3>3 DEF MetaInv
  <2>2. ASSUME NEW i \in Instances, NEW b \in Batches, InsertMemory(c, i, b) PROVE MetaInv'
    <3>1. PICK o : o = IF b = <<>> THEN [at |-> "add", i |-> i, entries |-> b]
                       ELSE [at |-> "vector", i |-> i, entries |-> b, next |-> 1]
      OBVIOUS
    <3>2. op' = [op EXCEPT ![c] = o] /\ UNCHANGED <<backend, vec, meta, cut>> /\ op[c] = Idle
      BY <2>2, <3>1 DEF InsertMemory, MayInsert, history
    <3>3. o.at # "metadata"
      BY <3>1
    <3> QED
      BY <1>3, <2>0, <3>2, <3>3
  <2>3. ASSUME NEW i \in Instances, NEW x \in Ids, DeletePersistent(c, i, x) PROVE MetaInv'
    BY <1>1, <2>3 DEF MetaInv, DeletePersistent, TablesOK
  <2>4. ASSUME NEW i \in Instances, NEW x \in Ids, DeleteMemoryVector(c, i, x) PROVE MetaInv'
    <3>1. backend = "memory" /\ backend' = backend /\ meta' = meta /\ op[c] = Idle /\ cut \subseteq cut'
          /\ (BetweenMaps(x) => x \in cut')
      BY <2>4 DEF DeleteMemoryVector, MayDelete
    <3>2. vec'[x] = Absent /\ \A y \in Ids : y # x => vec'[y] = vec[y]
      BY <1>1, <2>4 DEF DeleteMemoryVector, TablesOK
    <3>3. op'[c].at = "unmeta" /\ op'[c].id = x /\ \A e \in Threads : e # c => op'[e] = op[e]
      BY <1>1, <2>4 DEF DeleteMemoryVector, CallsOK
    <3>4. ASSUME NEW y \in Ids, meta'[y] # Absent, vec'[y] = Absent
          PROVE  y \in cut' \/ \E e \in Threads : op'[e].at = "unmeta" /\ op'[e].id = y
      <4>1. CASE y = x
        BY <3>3, <4>1
      <4>2. CASE y # x
        <5>1. y \in cut \/ \E e \in Threads : op[e].at = "unmeta" /\ op[e].id = y
          BY <3>1, <3>2, <3>4, <4>2 DEF MetaInv
        <5> QED
          BY <2>0, <3>1, <3>3, <5>1
      <4> QED
        BY <4>1, <4>2
    <3>5. ASSUME NEW e \in Threads PROVE MetaComes(op[e])'
      <4>1. CASE e = c
        BY <3>3, <4>1 DEF MetaComes
      <4>2. CASE e # c
        <5>1. op'[e] = op[e] /\ MetaComes(op[e])
          BY <3>1, <3>3, <4>2 DEF MetaInv
        <5>2. ASSUME op[e].at = "metadata", op[e].entries[op[e].next].meta # Absent
              PROVE  vec'[op[e].entries[op[e].next].id] # Absent \/ op[e].entries[op[e].next].id \in cut'
          <6>1. op[e] \in Storing /\ op[e].next \in DOMAIN op[e].entries
            BY <1>1, <5>2, CallKinds DEF CallOK
          <6>2. PICK y \in Ids : y = op[e].entries[op[e].next].id
            BY <6>1, BatchIs DEF Storing
          <6>3. y = x => BetweenMaps(x)
            BY <5>2, <6>2 DEF BetweenMaps
          <6> QED
            BY <3>1, <3>2, <5>1, <5>2, <6>2, <6>3 DEF MetaComes
        <5> QED
          BY <5>1, <5>2 DEF MetaComes
      <4> QED
        BY <4>1, <4>2
    <3> QED
      BY <3>1, <3>4, <3>5 DEF MetaInv
  <2>5. ASSUME NEW i \in Instances, SearchIndex(c, i) PROVE MetaInv'
    <3>1. PICK o : o = [at |-> "enrich", i |-> i, todo |-> IndexHits(index[i]), found |-> {}]
      OBVIOUS
    <3>2. op' = [op EXCEPT ![c] = o] /\ UNCHANGED <<backend, vec, meta, cut>> /\ op[c] = Idle
      BY <2>5, <3>1 DEF SearchIndex, history
    <3>3. o.at # "metadata"
      BY <3>1
    <3> QED
      BY <1>3, <2>0, <3>2, <3>3
  <2> QED
    BY <1>6, <2>1, <2>2, <2>3, <2>4, <2>5, VectorDbAssumption DEF Call
<1>7. ASSUME NEW c \in Threads, LockIndex(c) PROVE MetaInv'
  <2>1. op' = [op EXCEPT ![c] = Idle] /\ UNCHANGED <<backend, vec, meta, cut>> /\ op[c].at # "unmeta"
    BY <1>7 DEF LockIndex, AddToIndex, RemoveFromIndex, history
  <2> QED
    BY <1>3, <1>5, <2>1
<1>8. ASSUME NEW c \in Threads, Continue(c) PROVE MetaInv'
  <2>1. ASSUME MemoryStoreVector(c) PROVE MetaInv'
    <3> DEFINE e == op[c].entries[op[c].next]
    <3>1. op[c] \in Storing /\ op[c].at = "vector" /\ backend = "memory"
          /\ op[c].next \in DOMAIN op[c].entries
      BY <1>1, <2>1, CallKinds DEF MemoryStoreVector, CallOK
    <3>2. e.id \in Ids /\ e.vec \in Vectors
      BY <3>1, BatchIs DEF Storing
    <3>3. CASE Accepts(op[c].i, e)
      <4>1. vec' = [vec EXCEPT ![e.id] = e.vec]
        <5>1. vec' = StoreVectors(vec, <<e>>)
          BY <2>1, <3>3 DEF MemoryStoreVector
        <5> HIDE DEF e
        <5> QED
          BY <1>1, <3>2, <5>1, StoresOneVector DEF TablesOK
      <4>2. vec'[e.id] # Absent /\ \A y \in Ids : vec[y] # Absent => vec'[y] # Absent
        <5> HIDE DEF e
        <5> QED
          BY <1>0, <1>1, <3>2, <4>1 DEF TablesOK
      <4>3. PICK o : o = [op[c] EXCEPT !.at = "metadata"]
        OBVIOUS
      <4>4. o.at = "metadata" /\ o.entries = op[c].entries /\ o.next = op[c].next
        BY <3>1, <4>3 DEF Storing
      <4>5. op' = [op EXCEPT ![c] = o] /\ UNCHANGED <<backend, meta, cut>>
        BY <2>1, <3>3, <4>3 DEF MemoryStoreVector, history
      <4>6. op'[c] = o /\ \A d \in Threads : d # c => op'[d] = op[d]
        BY <1>1, <4>5 DEF CallsOK
      <4>7. ASSUME NEW y \in Ids, meta'[y] # Absent, vec'[y] = Absent
            PROVE  y \in cut' \/ \E d \in Threads : op'[d].at = "unmeta" /\ op'[d].id = y
        <5>1. y \in cut \/ \E d \in Threads : op[d].at = "unmeta" /\ op[d].id = y
          BY <3>1, <4>2, <4>5, <4>7 DEF MetaInv
        <5> QED
          BY <3>1, <4>5, <4>6, <5>1
      <4>8. ASSUME NEW d \in Threads PROVE MetaComes(op[d])'
        <5>1. CASE d = c
          BY <4>2, <4>4, <4>6, <5>1 DEF MetaComes
        <5>2. CASE d # c
          <6>0. op'[d] = op[d] /\ MetaComes(op[d])
            BY <3>1, <4>6, <5>2 DEF MetaInv
          <6>1. op[d].at = "metadata" => op[d] \in Storing /\ op[d].next \in DOMAIN op[d].entries
            BY <1>1, CallKinds DEF CallOK
          <6>2. op[d].at = "metadata" => op[d].entries[op[d].next].id \in Ids
            BY <6>1, BatchIs DEF Storing
          <6> QED
            BY <4>2, <4>5, <6>0, <6>2 DEF MetaComes
        <5> QED
          BY <5>1, <5>2
      <4> QED
        BY <3>1, <4>5, <4>7, <4>8 DEF MetaInv
    <3>4. CASE ~Accepts(op[c].i, e)
      <4>1. op' = [op EXCEPT ![c] = Idle] /\ UNCHANGED <<backend, vec, meta, cut>>
        BY <2>1, <3>4 DEF MemoryStoreVector, history
      <4> QED
        BY <1>3, <1>5, <3>1, <4>1
    <3> QED
      BY <3>3, <3>4
  <2>2. ASSUME MemoryStoreMetadata(c) PROVE MetaInv'
    <3>1. op[c] \in Storing /\ op[c].at = "metadata" /\ backend = "memory"
          /\ op[c].next \in DOMAIN op[c].entries
      BY <1>1, <2>2, CallKinds DEF MemoryStoreMetadata, CallOK
    <3>2. PICK e : e = op[c].entries[op[c].next]
      OBVIOUS
    <3>3. e.id \in Ids /\ e.vec \in Vectors /\ e.meta \in Metas \cup {Absent}
          /\ (e.meta # Absent => vec[e.id] # Absent \/ e.id \in cut)
      BY <2>2, <3>1, <3>2, BatchIs DEF Storing, MetaInv, MetaComes
    <3>4. PICK o : o = IF op[c].next = Len(op[c].entries)
                       THEN [at |-> "add", i |-> op[c].i, entries |-> op[c].entries]
                       ELSE [op[c] EXCEPT !.at = "vector", !.next = @ + 1]
      OBVIOUS
    <3>5. o.at # "metadata"
      BY <3>1, <3>4 DEF Storing
    <3>6. op' = [op EXCEPT ![c] = o] /\ meta' = StoreMetas(meta, <<e>>) /\ UNCHANGED <<backend, vec, cut>>
      BY <2>2, <3>2, <3>4 DEF MemoryStoreMetadata, history
    <3>7. op'[c] = o /\ \A d \in Threads : d # c => op'[d] = op[d]
      BY <1>1, <3>6 DEF CallsOK
    <3>8. \A y \in Ids : y # e.id \/ e.meta = Absent => meta'[y] = meta[y]
      <4>1. <<e>> \in Seq({e}) /\ \A n \in DOMAIN <<e>> : <<e>>[n].meta \in Metas \cup {Absent}
        BY <3>3
      <4>2. \A y \in Ids : y # e.id => Places(<<e>>, y) = {}
        BY <3>3, OneEntry
      <4>3. meta \in [Ids -> Metas \cup {Absent}]
        BY <1>1 DEF TablesOK
      <4>4. \A y \in Ids : Places(<<e>>, y) = {} => StoreMetas(meta, <<e>>)[y] = meta[y]
        BY <4>1, <4>3, StoresMetas
      <4>5. ASSUME e.meta = Absent, NEW y \in Ids PROVE StoreMetas(meta, <<e>>)[y] = meta[y]
        <5>1. \A n \in DOMAIN <<e>> : <<e>>[n] = e
          OBVIOUS
        <5>2. {n \in Places(<<e>>, y) : <<e>>[n].meta # Absent} = {}
          BY <4>5, <5>1 DEF Places
        <5> QED
          BY <5>2 DEF StoreMetas
      <4> QED
        BY <3>6, <4>2, <4>4, <4>5
    <3>9. ASSUME NEW y \in Ids, meta'[y] # Absent, vec'[y] = Absent
          PROVE  y \in cut' \/ \E d \in Threads : op'[d].at = "unmeta" /\ op'[d].id = y
      <4>1. y \in cut \/ \E d \in Threads : op[d].at = "unmeta" /\ op[d].id = y
        BY <3>1, <3>3, <3>6, <3>8, <3>9 DEF MetaInv
      <4> QED
        BY <3>1, <3>6, <3>7, <4>1
    <3>10. ASSUME NEW d \in Threads PROVE MetaComes(op[d])'
      BY <3>1, <3>5, <3>6, <3>7 DEF MetaInv, MetaComes
    <3> QED
      BY <3>1, <3>6, <3>9, <3>10 DEF MetaInv
  <2>3. ASSUME DeleteMemoryMetadata(c) PROVE MetaInv'
    <3>1. op[c] \in Unstoring /\ op[c].at = "unmeta" /\ backend = "memory"
      BY <1>1, <2>3, CallKinds DEF DeleteMemoryMetadata, CallOK
    <3>2. PICK o : o = AfterDelete(op[c].i, op[c].id, op[c].deleted)
      OBVIOUS
    <3>3. o.at # "metadata"
      BY <1>5, <3>2 DEF AfterDelete
    <3>4. op' = [op EXCEPT ![c] = o] /\ meta' = [meta EXCEPT ![op[c].id] = Absent] /\ UNCHANGED <<backend, vec>>
          /\ (\A y : y \in cut /\ (y # op[c].id \/ BetweenMaps(op[c].id)) => y \in cut')
      BY <2>3, <3>2 DEF DeleteMemoryMetadata
    <3>5. op'[c] = o /\ \A d \in Threads : d # c => op'[d] = op[d]
      BY <1>1, <3>4 DEF CallsOK
    <3>6. ASSUME NEW y \in Ids, meta'[y] # Absent, vec'[y] = Absent
          PROVE  y \in cut' \/ \E d \in Threads : op'[d].at = "unmeta" /\ op'[d].id = y
      <4>1. y # op[c].id /\ meta'[y] = meta[y]
        BY <1>1, <3>4, <3>6 DEF TablesOK
      <4>2. y \in cut \/ \E d \in Threads : op[d].at = "unmeta" /\ op[d].id = y
        BY <3>1, <3>4, <3>6, <4>1 DEF MetaInv
      <4> QED
        BY <3>4, <3>5, <4>1, <4>2
    <3>7. ASSUME NEW d \in Threads PROVE MetaComes(op[d])'
      <4>1. CASE d = c
        BY <3>3, <3>5, <4>1 DEF MetaComes
      <4>2. CASE d # c
        <5>1. op'[d] = op[d] /\ MetaComes(op[d])
          BY <3>1, <3>5, <4>2 DEF MetaInv
        <5>2. op[d].at = "metadata" /\ op[d].entries[op[d].next].meta # Absent
              /\ op[d].entries[op[d].next].id = op[c].id => BetweenMaps(op[c].id)
          BY DEF BetweenMaps
        <5> QED
          BY <3>4, <5>1, <5>2 DEF MetaComes
      <4> QED
        BY <4>1, <4>2
    <3> QED
      BY <3>1, <3>4, <3>6, <3>7 DEF MetaInv
  <2>4. ASSUME NEW h, SearchEnrich(c, h) PROVE MetaInv'
    <3>1. op[c] \in Searching /\ op[c].at = "enrich"
      BY <1>1, <2>4, CallKinds DEF SearchEnrich
    <3>2. PICK f : f = [id |-> h.id, scored |-> h.scored, point |-> h.point, vector |-> vec[h.id]]
      OBVIOUS
    <3>3. PICK o : o = [op[c] EXCEPT !.todo = @ \ {h}, !.found = @ \cup {f}]
      OBVIOUS
    <3>4. op' = [op EXCEPT ![c] = o] /\ UNCHANGED <<backend, vec, meta, cut>>
      BY <2>4, <3>2, <3>3 DEF SearchEnrich, history
    <3>5. o.at = "enrich"
      BY <3>1, <3>3 DEF Searching
    <3> QED
      BY <1>3, <3>1, <3>4, <3>5
  <2>5. ASSUME SearchReturn(c) PROVE MetaInv'
    <3>1. op' = [op EXCEPT ![c] = Idle] /\ UNCHANGED <<backend, vec, meta, cut>> /\ op[c].at # "unmeta"
      BY <2>5 DEF SearchReturn, history
    <3> QED
      BY <1>3, <1>5, <3>1
  <2> QED
    BY <1>8, <2>1, <2>2, <2>3, <2>4, <2>5 DEF Continue
<1>9. ASSUME NEW i \in Instances, NEW o \in Options, OpenLoadConfig(i, o) PROVE MetaInv'
  BY <1>4, <1>9 DEF OpenLoadConfig
<1>13. ASSUME NEW i \in Instances, NEW o \in Options, OpenMemory(i, o) PROVE MetaInv'
  BY <1>4, <1>13 DEF OpenMemory, history
<1>10. ASSUME NEW i \in Instances, OpenStep(i) PROVE MetaInv'
  BY <1>4, <1>10 DEF OpenStep, OpenSaveConfig, OpenListIds, OpenLoadRow, OpenFinish, history
<1>11. ASSUME NEW i \in Instances, Close(i) PROVE MetaInv'
  <2>1. CASE backend = "persistent"
    BY <1>11, <2>1 DEF Close, DropStorage, MetaInv
  <2>2. CASE backend = "memory"
    <3>1. \A c \in Threads : op[c] = Idle
      <4>1. inst[i] # Closed
        BY <1>11 DEF Close, Closed
      <4>2. ASSUME NEW c \in Threads, op[c] # Idle PROVE op[c].i = i
        <5>1. op[c].i \in Instances /\ inst[op[c].i].at = "open"
          BY <1>1, <4>2, CallKinds DEF CallOK
        <5>2. inst[op[c].i] # Closed
          BY <5>1 DEF Closed
        <5> QED
          BY <2>2, <4>1, <5>1, <5>2 DEF MemoryOfOne
      <4> QED
        BY <1>11, <4>2 DEF Close, Using
    <3> QED
      BY <1>5, <1>11, <2>2, <3>1 DEF Close, DropStorage, MetaInv, MetaComes
  <2> QED
    BY <1>2, <2>1, <2>2
<1>12. ASSUME Crash PROVE MetaInv'
  <2>1. \A c \in Threads : op'[c].at = "idle"
    BY <1>5, <1>12 DEF Crash
  <2> QED
    BY <1>12, <1>2, <2>1 DEF Crash, DropStorage, MetaInv, MetaComes
<1> QED
  BY <1>4, <1>6, <1>7, <1>8, <1>9, <1>10, <1>11, <1>12, <1>13 DEF Next, vars

\* There is no metadata without a vector, save while a delete in the memory
\* backend is between its two maps, and after it if it took the vector of an
\* insert that had yet to store the metadata.
THEOREM NoOrphans == Spec => []NoOrphanMetadata
<1>1. Init => MetaInv /\ MemoryOfOne
  BY DEF Init, MetaInv, MetaComes, MemoryOfOne, Idle
<1>2. BaseInv /\ MetaInv => NoOrphanMetadata
  <2> SUFFICES ASSUME BaseInv, MetaInv, NEW x \in Ids, meta[x] # Absent, vec[x] = Absent
               PROVE  /\ backend = "memory"
                      /\ x \in cut \/ \E c \in Threads : op[c].at = "unmeta" /\ op[c].id = x
    BY DEF NoOrphanMetadata
  <2>1. backend \in {"persistent", "memory"}
    BY VectorDbAssumption DEF BaseInv, TablesOK
  <2> QED
    BY <2>1 DEF MetaInv
<1>3. BaseInv /\ MemoryOfOne /\ MetaInv /\ [Next]_vars => MemoryOfOne' /\ MetaInv'
  BY MemoryStep, MetaStep
<1> QED
  BY <1>1, <1>2, <1>3, BaseInit, BaseStep, PTL DEF Spec

\* Who is about to save a configuration found none, and whoever opens beside it
\* is not settled; the others run with the stored one, which nobody replaces.
ConfigInv ==
    backend = "persistent" =>
        /\ \A i \in Instances : inst[i].at = "save" => config = Absent \/ i \in unsettled
        /\ \A i, j \in Instances :
             i # j /\ inst[i].at = "save" /\ inst[j].at = "save" => i \in unsettled
        /\ \A i \in Instances : inst[i].at \in {"list", "load", "open"} /\ i \notin unsettled =>
             /\ inst[i].opt = config
             /\ \A j \in Instances : inst[j].at # "save"

\* An instance goes on, or away, with the options it has.
LEMMA ConfigMoves ==
  ASSUME ConfigInv, inst \in [Instances -> States], NEW i \in Instances, NEW s,
         inst' = [inst EXCEPT ![i] = s], UNCHANGED <<backend, config>>,
         \/ unsettled' = unsettled /\ inst[i].at \in {"list", "load"}
            /\ s.at \in {"load", "open"} /\ s.opt = inst[i].opt
         \/ unsettled' = unsettled \ {i} /\ s.at = "closed"
  PROVE  ConfigInv'
<1>1. inst'[i] = s /\ \A j \in Instances : j # i => inst'[j] = inst[j]
  OBVIOUS
<1>2. \A j \in Instances : inst'[j].at = "save" =>
        j # i /\ inst[j].at = "save" /\ (j \in unsettled => j \in unsettled')
  BY <1>1
<1>3. \A j \in Instances : inst'[j].at \in {"list", "load", "open"} /\ j \notin unsettled' =>
        inst[j].at \in {"list", "load", "open"} /\ j \notin unsettled /\ inst'[j].opt = inst[j].opt
  BY <1>1
<1> QED
  BY <1>2, <1>3 DEF ConfigInv

\* Every step keeps ConfigInv.
LEMMA ConfigStep == BaseInv /\ ConfigInv /\ [Next]_vars => ConfigInv'
<1> SUFFICES ASSUME BaseInv, ConfigInv, [Next]_vars PROVE ConfigInv'
  OBVIOUS
<1>1. TablesOK /\ inst \in [Instances -> States] /\ Absent \notin Options
  BY VectorDbAssumption DEF BaseInv
<1>2. ASSUME UNCHANGED <<backend, config, inst, unsettled>> PROVE ConfigInv'
  BY <1>2 DEF ConfigInv
<1>3. Closed.at = "closed"
  BY DEF Closed
<1>4. ASSUME NEW i \in Instances, inst[i].at \in {"list", "load", "open"}, i \notin unsettled,
             backend = "persistent"
      PROVE  config # Absent
  <2>1. inst[i].opt \in Options
    BY <1>1, <1>3, <1>4, StateKinds
  <2> QED
    BY <1>1, <1>4, <2>1 DEF ConfigInv
<1>5. ASSUME NEW c \in Threads, Call(c) \/ LockIndex(c) \/ Continue(c) PROVE ConfigInv'
  BY <1>2, <1>5 DEF Call, InsertPersistent, InsertMemory, DeletePersistent, DeleteMemoryVector,
       SearchIndex, LockIndex, AddToIndex, RemoveFromIndex, Continue, MemoryStoreVector,
       MemoryStoreMetadata, DeleteMemoryMetadata, SearchEnrich, SearchReturn, history
<1>6. ASSUME NEW i \in Instances, NEW o \in Options, OpenLoadConfig(i, o) PROVE ConfigInv'
  <2>1. PICK s : s = IF config = Absent THEN [at |-> "save", opt |-> o]
                     ELSE [at |-> "list", opt |-> config]
    OBVIOUS
  <2>2. /\ inst' = [inst EXCEPT ![i] = s] /\ UNCHANGED <<backend, config>> /\ inst[i].at = "closed"
        /\ backend = "persistent" /\ OpenBesideSavers(i)
    BY <1>3, <1>6, <2>1 DEF OpenLoadConfig
  <2>3. inst'[i] = s /\ \A j \in Instances : j # i => inst'[j] = inst[j]
    BY <1>1, <2>2
  <2>4. CASE config = Absent
    <3>1. s.at = "save"
      BY <2>1, <2>4
    <3>2. \A j \in Instances : inst[j].at \in {"list", "load", "open"} => j \in unsettled
      BY <1>4, <2>2, <2>4
    <3>3. unsettled \subseteq unsettled'
      BY <2>2 DEF OpenBesideSavers
    <3>4. ASSUME NEW j \in Instances, NEW k \in Instances, j # k, inst'[j].at = "save", inst'[k].at = "save"
          PROVE  j \in unsettled'
      <4>1. Savers # {} /\ (j = i \/ j \in Savers)
        BY <2>3, <3>4 DEF Savers
      <4> QED
        BY <2>2, <2>4, <4>1 DEF OpenBesideSavers
    <3>5. \A j \in Instances : inst'[j].at \in {"list", "load", "open"} => j \in unsettled'
      BY <2>3, <3>1, <3>2, <3>3
    <3> QED
      BY <2>2, <2>4, <3>4, <3>5 DEF ConfigInv
  <2>5. CASE config # Absent
    <3>1. s.at = "list" /\ s.opt = config
      BY <2>1, <2>5
    <3>2. unsettled \subseteq unsettled' /\ (i \notin unsettled' => \A j \in Instances : inst[j].at # "save")
      BY <2>2 DEF OpenBesideSavers, Savers
    <3>3. \A j \in Instances : inst'[j].at = "save" => j # i /\ inst[j].at = "save"
      BY <2>3, <3>1
    <3>4. ASSUME NEW j \in Instances, inst'[j].at \in {"list", "load", "open"}, j \notin unsettled'
          PROVE  inst'[j].opt = config /\ \A k \in Instances : inst'[k].at # "save"
      <4>1. CASE j = i
        BY <2>3, <3>1, <3>2, <3>3, <3>4, <4>1
      <4>2. CASE j # i
        BY <2>2, <2>3, <3>2, <3>3, <3>4, <4>2 DEF ConfigInv
      <4> QED
        BY <4>1, <4>2
    <3>5. \A j \in Instances : inst'[j].at = "save" => j \in unsettled'
      BY <2>2, <2>5, <3>2, <3>3 DEF ConfigInv
    <3> QED
      BY <2>2, <3>4, <3>5 DEF ConfigInv
  <2> QED
    BY <2>4, <2>5
<1>7. ASSUME NEW i \in Instances, NEW o \in Options, OpenMemory(i, o) PROVE ConfigInv'
  BY <1>7 DEF OpenMemory, ConfigInv
<1>8. ASSUME NEW i \in Instances, OpenSaveConfig(i) PROVE ConfigInv'
  <2>1. PICK s : s = [inst[i] EXCEPT !.at = "list"]
    OBVIOUS
  <2>2. inst[i] \in Opening /\ inst[i].at = "save"
    BY <1>1, <1>8, StateKinds DEF OpenSaveConfig
  <2>3. s.at = "list" /\ s.opt = inst[i].opt
    BY <2>1, <2>2 DEF Opening
  <2>4. inst' = [inst EXCEPT ![i] = s] /\ UNCHANGED <<backend, unsettled>> /\ config' = inst[i].opt
    BY <1>8, <2>1 DEF OpenSaveConfig, history
  <2>5. inst'[i] = s /\ \A j \in Instances : j # i => inst'[j] = inst[j]
    BY <1>1, <2>4
  <2>6. ASSUME backend = "persistent", NEW j \in Instances, j # i, inst[j].at # "closed", j \notin unsettled
        PROVE  inst[j].at \notin {"save", "list", "load", "open"}
    BY <2>2, <2>6 DEF ConfigInv
  <2>7. backend = "persistent" => \A j \in Instances : inst'[j].at = "save" => j # i /\ j \in unsettled
    BY <2>3, <2>5, <2>6
  <2>8. ASSUME backend = "persistent", NEW j \in Instances, inst'[j].at \in {"list", "load", "open"}, j \notin unsettled
        PROVE  j = i
    BY <2>5, <2>6, <2>8
  <2>9. ASSUME backend = "persistent", i \notin unsettled, NEW j \in Instances
        PROVE  inst'[j].at # "save"
    BY <2>2, <2>3, <2>5, <2>9 DEF ConfigInv
  <2> QED
    BY <2>3, <2>4, <2>5, <2>7, <2>8, <2>9 DEF ConfigInv
<1>9. ASSUME NEW i \in Instances, OpenListIds(i) PROVE ConfigInv'
  <2>1. PICK s : s = [at |-> "load", opt |-> inst[i].opt, todo |-> StoredIds, rows |-> <<>>]
    OBVIOUS
  <2>2. s.at = "load" /\ s.opt = inst[i].opt
    BY <2>1
  <2>3. inst' = [inst EXCEPT ![i] = s] /\ inst[i].at = "list" /\ UNCHANGED <<backend, config, unsettled>>
    BY <1>9, <2>1 DEF OpenListIds, history
  <2> QED
    BY <1>1, <2>2, <2>3, ConfigMoves
<1>10. ASSUME NEW i \in Instances, NEW x \in Ids, OpenLoadRow(i, x) PROVE ConfigInv'
  <2>1. PICK r : r = IF vec[x] = Absent THEN inst[i].rows
                     ELSE Append(inst[i].rows, [id |-> x, vec |-> vec[x]])
    OBVIOUS
  <2>2. PICK s : s = [inst[i] EXCEPT !.todo = @ \ {x}, !.rows = r]
    OBVIOUS
  <2>3. inst[i] \in Loading /\ inst[i].at = "load"
    BY <1>1, <1>10, StateKinds DEF OpenLoadRow
  <2>4. s.at = "load" /\ s.opt = inst[i].opt
    BY <2>2, <2>3 DEF Loading
  <2>5. inst' = [inst EXCEPT ![i] = s] /\ UNCHANGED <<backend, config, unsettled>>
    BY <1>10, <2>1, <2>2 DEF OpenLoadRow, history
  <2> QED
    BY <1>1, <2>3, <2>4, <2>5, ConfigMoves
<1>11. ASSUME NEW i \in Instances, OpenFinish(i) PROVE ConfigInv'
  <2>1. UNCHANGED <<backend, config>> /\ inst[i].at = "load"
    BY <1>11 DEF OpenFinish
  <2>2. ASSUME inst' = [inst EXCEPT ![i] = Closed], Forget(i) PROVE ConfigInv'
    BY <1>1, <1>3, <2>1, <2>2, ConfigMoves DEF Forget
  <2>3. ASSUME inst' = [inst EXCEPT ![i] = [at |-> "open", opt |-> inst[i].opt]], unsettled' = unsettled
        PROVE  ConfigInv'
    <3>1. PICK s : s = [at |-> "open", opt |-> inst[i].opt]
      OBVIOUS
    <3>2. s.at = "open" /\ s.opt = inst[i].opt /\ inst' = [inst EXCEPT ![i] = s]
      BY <2>3, <3>1
    <3> QED
      BY <1>1, <2>1, <2>3, <3>2, ConfigMoves
  <2> QED
    BY <1>11, <2>2, <2>3 DEF OpenFinish
<1>12. ASSUME NEW i \in Instances, Close(i) PROVE ConfigInv'
  BY <1>1, <1>3, <1>12, ConfigMoves DEF Close, Forget
<1>13. ASSUME Crash PROVE ConfigInv'
  <2>1. \A j \in Instances : inst'[j].at = "closed"
    BY <1>3, <1>13 DEF Crash
  <2> QED
    BY <2>1 DEF ConfigInv
<1> QED
  BY <1>2, <1>5, <1>6, <1>7, <1>8, <1>9, <1>10, <1>11, <1>12, <1>13 DEF Next, OpenStep, vars

\* An open instance runs with the stored configuration, whatever later openings
\* ask for, unless it was opened beside one that had yet to save its own.
THEOREM OneConfig == Spec => []ConfigAgrees
<1>1. Init => ConfigInv
  BY DEF Init, ConfigInv, Closed
<1>2. ConfigInv => ConfigAgrees
  BY DEF ConfigInv, ConfigAgrees
<1>3. BaseInv /\ ConfigInv /\ [Next]_vars => ConfigInv'
  BY ConfigStep
<1> QED
  BY <1>1, <1>2, <1>3, BaseInit, BaseStep, PTL DEF Spec

\* Call o is between the storage and the index with id x.
Pends(o, x) ==
    \/ o.at \in {"remove", "unmeta"} /\ o.id = x
    \/ o.at \in {"add", "vector", "metadata"} /\ Places(o.entries, x) # {}

\* The rows read by new s, and those it has yet to read, are the stored ones,
\* save those of old ids.
RowsSync(s, old) ==
    /\ \A n \in DOMAIN s.rows : s.rows[n].id \notin old => s.rows[n].vec = vec[s.rows[n].id]
    /\ \A x \in Ids \ old : vec[x] # Absent => x \in s.todo \/ Places(s.rows, x) # {}

\* What call o has stored is still what the storage has.
CallSync(o) ==
    /\ o.at = "add" => \A x \in Ids \ stale[o.i] :
         Places(o.entries, x) # {} => vec[x] = o.entries[Max(Places(o.entries, x))].vec
    /\ o.at = "remove" /\ o.id \notin stale[o.i] => vec[o.id] = Absent

SyncInv ==
    backend = "persistent" =>
        /\ \A i \in Instances : inst[i].at = "load" => RowsSync(inst[i], stale[i])
        /\ \A i \in Instances : inst[i].at = "open" =>
             \A x \in Ids \ stale[i] : index[i].vectors[x] = vec[x] \/ Pending(i, x)
        /\ \A c \in Threads : CallSync(op[c])

\* Pending, by the calls.
LEMMA PendingIs ==
  ASSUME NEW i, NEW x
  PROVE  /\ Pending(i, x) <=> \E c \in Threads : op[c] # Idle /\ op[c].i = i /\ Pends(op[c], x)
         /\ Pending(i, x)' <=> \E c \in Threads : op'[c] # Idle /\ op'[c].i = i /\ Pends(op'[c], x)
  BY DEF Pending, Using, Pends, Places

\* A thread goes on to a call that pends the ids it had pending.
LEMMA PendingGrows ==
  ASSUME CallsOK, NEW c \in Threads, NEW o, op' = [op EXCEPT ![c] = o], NEW i, NEW x,
         Pends(op[c], x) => o # Idle /\ o.i = op[c].i /\ Pends(o, x), Pending(i, x)
  PROVE  Pending(i, x)'
<1>1. op'[c] = o /\ \A d \in Threads : d # c => op'[d] = op[d]
  BY DEF CallsOK
<1>2. PICK d \in Threads : op[d] # Idle /\ op[d].i = i /\ Pends(op[d], x)
  BY PendingIs
<1>3. op'[d] # Idle /\ op'[d].i = i /\ Pends(op'[d], x)
  BY <1>1, <1>2
<1> QED
  BY <1>3, PendingIs

\* A step that leaves storage, instances and indexes as they are.
LEMMA SyncQuiet ==
  ASSUME CallsOK, SyncInv, NEW c \in Threads, NEW o, op' = [op EXCEPT ![c] = o],
         UNCHANGED <<backend, vec, inst, index, stale>>, CallSync(o),
         \A x : ~Pends(op[c], x)
  PROVE  SyncInv'
<1>1. op'[c] = o /\ \A d \in Threads : d # c => op'[d] = op[d]
  BY DEF CallsOK
<1>2. \A i, x : Pending(i, x) => Pending(i, x)'
  BY PendingGrows
<1>3. \A d \in Threads : backend = "persistent" => CallSync(op[d])'
  BY <1>1 DEF SyncInv, CallSync
<1> QED
  BY <1>2, <1>3 DEF SyncInv, RowsSync

\* The ids xs are stored through instance i: the new call pends those that have
\* changed, and whoever else pends one of them finds its index stale for it.
LEMMA SyncStore ==
  ASSUME CallsOK, inst \in [Instances -> States], SyncInv,
         NEW c \in Threads, NEW i \in Instances, NEW o, NEW xs,
         inst[i].at = "open", op[c] = Idle, op' = [op EXCEPT ![c] = o],
         UNCHANGED <<backend, inst, index>>, CallSync(o)', backend = "persistent",
         WrittenThrough(i, xs),
         \A x \in Ids : x \notin xs => vec'[x] = vec[x],
         \A x \in Ids : vec'[x] # vec[x] => o # Idle /\ o.i = i /\ Pends(o, x)
  PROVE  SyncInv'
<1>1. op'[c] = o /\ \A d \in Threads : d # c => op'[d] = op[d]
  BY DEF CallsOK
<1>2. \A y : ~Pends(op[c], y)
  BY DEF Idle, Pends
<1>3. \A j \in Instances : \A x :
        /\ x \in stale[j] => x \in stale'[j]
        /\ j # i /\ inst[j].at \in {"load", "open"} /\ x \in xs => x \in stale'[j]
        /\ Pending(j, x) /\ inst[j].at = "open" /\ x \in xs => x \in stale'[j]
  BY DEF WrittenThrough
<1>7. inst' = inst /\ index' = index
  OBVIOUS
<1>4. ASSUME NEW j \in Instances, inst'[j].at = "load" PROVE RowsSync(inst[j], stale[j])'
  <2>1. inst[j].at = "load" /\ RowsSync(inst[j], stale[j]) /\ j # i
    BY <1>4, <1>7 DEF SyncInv
  <2>2. \A x : x \notin stale'[j] => x \notin xs /\ x \notin stale[j]
    BY <1>3, <2>1
  <2>3. PICK s : s = inst[j] /\ s = inst'[j]
    BY <1>7
  <2>4. \A n \in DOMAIN s.rows : s.rows[n].id \in Ids
    <3>1. s \in Loading
      BY <2>1, <2>3, StateKinds
    <3>2. \A n \in DOMAIN s.rows : s.rows[n] \in Row
      BY <3>1 DEF Loading
    <3> QED
      BY <3>2 DEF Row
  <2>5. \A n \in DOMAIN s.rows : s.rows[n].id \notin stale'[j] => s.rows[n].vec = vec'[s.rows[n].id]
    BY <2>1, <2>2, <2>3, <2>4 DEF RowsSync
  <2>6. \A x \in Ids \ stale'[j] : vec'[x] # Absent => x \in s.todo \/ Places(s.rows, x) # {}
    BY <2>1, <2>2, <2>3 DEF RowsSync
  <2> QED
    BY <2>3, <2>5, <2>6 DEF RowsSync
<1>5. ASSUME NEW j \in Instances, inst'[j].at = "open", NEW x \in Ids \ stale'[j]
      PROVE  index'[j].vectors[x] = vec'[x] \/ Pending(j, x)'
  <2>0. inst[j].at = "open"
    BY <1>5, <1>7
  <2>1. x \notin stale[j] /\ (j # i => x \notin xs)
    BY <1>3, <1>5, <2>0
  <2>2. CASE vec'[x] # vec[x]
    <3>1. j = i
      BY <2>1, <2>2
    <3> QED
      BY <1>1, <2>2, <3>1, PendingIs
  <2>3. CASE vec'[x] = vec[x]
    <3>1. index[j].vectors[x] = vec[x] \/ Pending(j, x)
      BY <1>5, <2>1 DEF SyncInv
    <3>2. Pending(j, x) => Pending(j, x)'
      BY <1>2, PendingGrows
    <3> QED
      BY <2>3, <3>1, <3>2
  <2> QED
    BY <2>2, <2>3
<1>6. ASSUME NEW d \in Threads PROVE CallSync(op[d])'
  <2>1. CASE d = c
    BY <1>1, <2>1 DEF CallSync
  <2>2. CASE d # c
    <3>1. op'[d] = op[d] /\ op[d] \in Calls /\ CallOK(op[d]) /\ CallSync(op[d])
      BY <1>1, <2>2 DEF CallsOK, SyncInv
    <3>2. ASSUME op[d].at \in {"add", "remove"}, NEW x \in Ids, Pends(op[d], x), x \notin stale'[op[d].i]
          PROVE  vec'[x] = vec[x] /\ x \notin stale[op[d].i]
      <4>1. PICK j \in Instances : j = op[d].i
        BY <3>1, <3>2, CallKinds DEF Idle
      <4>2. op[d] # Idle /\ inst[j].at = "open"
        BY <3>1, <3>2, <4>1 DEF CallOK, Idle
      <4>3. Pending(j, x)
        BY <3>2, <4>1, <4>2, PendingIs
      <4>4. x \notin xs
        BY <1>3, <3>2, <4>1, <4>2, <4>3
      <4> QED
        BY <1>3, <3>2, <4>1, <4>4
    <3>3. ASSUME op[d].at = "add", NEW x \in Ids \ stale'[op[d].i], Places(op[d].entries, x) # {}
          PROVE  vec'[x] = op[d].entries[Max(Places(op[d].entries, x))].vec
      <4>1. Pends(op[d], x)
        BY <3>3 DEF Pends
      <4> QED
        BY <3>1, <3>2, <3>3, <4>1 DEF CallSync
    <3>4. ASSUME op[d].at = "remove", op[d].id \notin stale'[op[d].i] PROVE vec'[op[d].id] = Absent
      <4>1. op[d].id \in Ids /\ Pends(op[d], op[d].id)
        BY <3>1, <3>4, CallKinds DEF Pends, Removing
      <4> QED
        BY <3>1, <3>2, <3>4, <4>1 DEF CallSync
    <3> QED
      BY <3>1, <3>3, <3>4 DEF CallSync
  <2> QED
    BY <2>1, <2>2
<1> QED
  BY <1>4, <1>5, <1>6 DEF SyncInv

\* The index of an instance changes for the ids that a thread had pending.
LEMMA SyncIndex ==
  ASSUME CallsOK, SyncInv, NEW c \in Threads, NEW i \in Instances,
         op[c] # Idle, op[c].i = i, inst[i].at = "open", op' = [op EXCEPT ![c] = Idle],
         UNCHANGED <<backend, vec, inst, stale>>,
         \A j \in Instances : j # i => index'[j] = index[j],
         \A x \in Ids \ stale[i] :
             IF Pends(op[c], x) THEN index'[i].vectors[x] = vec[x]
             ELSE index'[i].vectors[x] = index[i].vectors[x]
  PROVE  SyncInv'
<1>1. op'[c] = Idle /\ \A d \in Threads : d # c => op'[d] = op[d]
  BY DEF CallsOK
<1>2. ASSUME NEW j, NEW x, Pending(j, x), j # i \/ ~Pends(op[c], x) PROVE Pending(j, x)'
  <2>1. PICK d \in Threads : op[d] # Idle /\ op[d].i = j /\ Pends(op[d], x)
    BY <1>2, PendingIs
  <2>2. d # c /\ op'[d] = op[d]
    BY <1>1, <1>2, <2>1
  <2> QED
    BY <2>1, <2>2, PendingIs
<1>3. ASSUME backend = "persistent", NEW j \in Instances, inst[j].at = "open", NEW x \in Ids \ stale[j]
      PROVE  index'[j].vectors[x] = vec'[x] \/ Pending(j, x)'
  <2>1. index[j].vectors[x] = vec[x] \/ Pending(j, x)
    BY <1>3 DEF SyncInv
  <2>2. CASE j = i /\ Pends(op[c], x)
    BY <1>3, <2>2
  <2>3. CASE j # i \/ ~Pends(op[c], x)
    <3>1. index'[j].vectors[x] = index[j].vectors[x]
      BY <1>3, <2>3
    <3> QED
      BY <1>2, <2>1, <2>3, <3>1
  <2> QED
    BY <2>2, <2>3
<1>4. ASSUME backend = "persistent", NEW d \in Threads PROVE CallSync(op[d])'
  <2>1. CASE d = c
    BY <1>1, <2>1 DEF CallSync, Idle
  <2>2. CASE d # c
    <3>1. PICK o : o = op[d] /\ o = op'[d]
      BY <1>1, <2>2
    <3>2. CallSync(o) /\ stale'[o.i] = stale[o.i] /\ vec' = vec
      BY <1>4, <3>1 DEF SyncInv
    <3> QED
      BY <3>1, <3>2 DEF CallSync
  <2> QED
    BY <2>1, <2>2
<1> QED
  BY <1>3, <1>4 DEF SyncInv, RowsSync

\* One instance opens or closes, with no call of it under way if what is known
\* of its stale ids is forgotten.
LEMMA SyncOpens ==
  ASSUME CallsOK, SyncInv, NEW i \in Instances, UNCHANGED <<backend, op>>,
         backend = "persistent" => vec' = vec,
         \A j \in Instances : j # i =>
             inst'[j] = inst[j] /\ index'[j] = index[j] /\ stale'[j] = stale[j],
         stale'[i] = stale[i] \/ \A c \in Threads : op[c] # Idle => op[c].i # i,
         backend = "persistent" /\ inst'[i].at = "load" => RowsSync(inst'[i], stale'[i]),
         backend = "persistent" /\ inst'[i].at = "open" =>
             \A x \in Ids \ stale'[i] : index'[i].vectors[x] = vec[x]
  PROVE  SyncInv'
<1>1. ASSUME backend = "persistent", NEW d \in Threads PROVE CallSync(op[d])'
  <2>1. CASE op[d] = Idle
    BY <2>1 DEF CallSync, Idle
  <2>2. CASE op[d] # Idle
    <3>1. PICK j \in Instances : j = op[d].i
      BY <2>2, CallKinds DEF CallsOK
    <3>2. stale'[j] = stale[j]
      BY <2>2, <3>1
    <3> QED
      BY <1>1, <3>1, <3>2 DEF CallSync, SyncInv
  <2> QED
    BY <2>1, <2>2
<1>2. \A j, x : Pending(j, x) => Pending(j, x)'
  BY DEF Pending, Using
<1>3. ASSUME backend = "persistent", NEW j \in Instances
      PROVE  /\ inst'[j].at = "load" => RowsSync(inst[j], stale[j])'
             /\ inst'[j].at = "open" =>
                  \A x \in Ids \ stale'[j] : index'[j].vectors[x] = vec'[x] \/ Pending(j, x)'
  <2>1. CASE j = i
    BY <1>3, <2>1 DEF RowsSync
  <2>2. CASE j # i
    BY <1>2, <1>3, <2>2 DEF SyncInv, RowsSync
  <2> QED
    BY <2>1, <2>2
<1> QED
  BY <1>1, <1>3 DEF SyncInv

\* SyncInv, by the steps that begin an operation, ...
LEMMA SyncCall ==
  ASSUME BaseInv, SyncInv, NEW c \in Threads, Call(c)
  PROVE  SyncInv'
<1>1. TablesOK /\ CallsOK /\ vec \in [Ids -> Vectors \cup {Absent}] /\ inst \in [Instances -> States]
  BY DEF BaseInv, TablesOK
<1>2. ASSUME NEW i \in Instances, NEW b \in Batches, InsertPersistent(c, i, b) PROVE SyncInv'
  <2>1. PICK o : o = [at |-> "add", i |-> i, entries |-> b]
    OBVIOUS
  <2>2. o.at = "add" /\ o.i = i /\ o.entries = b /\ o # Idle
    BY <2>1 DEF Idle
  <2>3. /\ op' = [op EXCEPT ![c] = o] /\ vec' = StoreVectors(vec, b) /\ backend = "persistent"
        /\ UNCHANGED <<backend, inst, index>> /\ op[c] = Idle /\ inst[i].at = "open"
        /\ WrittenThrough(i, {b[n].id : n \in DOMAIN b})
    BY <1>2, <2>1 DEF InsertPersistent, MayInsert
  <2>4. IsBatch(b)
    BY BatchIs
  <2>5. CallSync(o)'
    <3>1. \A x \in Ids : Places(b, x) # {} => vec'[x] = b[Max(Places(b, x))].vec
      BY <1>1, <2>3, <2>4, StoresVectors
    <3> QED
      BY <2>2, <3>1 DEF CallSync
  <2>6. \A x \in Ids : Places(b, x) = {} => vec'[x] = vec[x]
    BY <1>1, <2>3, <2>4, StoresVectors
  <2>7. \A x \in Ids : x \notin {b[n].id : n \in DOMAIN b} => vec'[x] = vec[x]
    BY <2>3, <2>6 DEF Places
  <2>8. \A x \in Ids : vec'[x] # vec[x] => Pends(o, x)
    BY <2>2, <2>6 DEF Pends
  <2> QED
    BY <1>1, <2>2, <2>3, <2>5, <2>7, <2>8, SyncStore
<1>3. ASSUME NEW i \in Instances, NEW b \in Batches, InsertMemory(c, i, b) PROVE SyncInv'
  BY <1>3 DEF InsertMemory, SyncInv
<1>4. ASSUME NEW i \in Instances, NEW x \in Ids, DeletePersistent(c, i, x) PROVE SyncInv'
  <2>1. PICK o : o = AfterDelete(i, x, vec[x] # Absent)
    OBVIOUS
  <2>2. /\ op' = [op EXCEPT ![c] = o] /\ vec' = [vec EXCEPT ![x] = Absent] /\ backend = "persistent"
        /\ UNCHANGED <<backend, inst, index>> /\ op[c] = Idle /\ inst[i].at = "open"
        /\ WrittenThrough(i, {x})
    BY <1>4, <2>1 DEF DeletePersistent, MayDelete
  <2>3. vec'[x] = Absent /\ \A y \in Ids : y # x => vec'[y] = vec[y]
    BY <1>1, <2>2
  <2>4. CallSync(o)'
    BY <2>1, <2>3 DEF CallSync, AfterDelete, Idle
  <2>5. vec[x] # Absent => o # Idle /\ o.i = i /\ Pends(o, x)
    BY <2>1 DEF AfterDelete, Pends, Idle
  <2>6. \A y \in Ids : vec'[y] # vec[y] => o # Idle /\ o.i = i /\ Pends(o, y)
    BY <2>3, <2>5
  <2>7. \A y \in Ids : y \notin {x} => vec'[y] = vec[y]
    BY <2>2, <2>3
  <2> QED
    BY <1>1, <2>2, <2>4, <2>6, <2>7, SyncStore
<1>5. ASSUME NEW i \in Instances, NEW x \in Ids, DeleteMemoryVector(c, i, x) PROVE SyncInv'
  BY <1>5 DEF DeleteMemoryVector, SyncInv
<1>6. ASSUME NEW i \in Instances, SearchIndex(c, i) PROVE SyncInv'
  <2>1. PICK o : o = [at |-> "enrich", i |-> i, todo |-> IndexHits(index[i]), found |-> {}]
    OBVIOUS
  <2>2. CallSync(o)
    BY <2>1 DEF CallSync
  <2>3. op' = [op EXCEPT ![c] = o] /\ UNCHANGED <<backend, vec, inst, index, stale>> /\ op[c] = Idle
    BY <1>6, <2>1 DEF SearchIndex, history
  <2>4. \A x : ~Pends(op[c], x)
    BY <2>3 DEF Idle, Pends
  <2> QED
    BY <1>1, <2>2, <2>3, <2>4, SyncQuiet
<1> QED
  BY <1>2, <1>3, <1>4, <1>5, <1>6, VectorDbAssumption DEF Call

\* ... that reach the index, ...
LEMMA SyncLock ==
  ASSUME BaseInv, SyncInv, NEW c \in Threads, LockIndex(c)
  PROVE  SyncInv'
<1>1. TablesOK /\ CallsOK /\ IndexesOK /\ op[c] \in Calls /\ CallOK(op[c])
  BY DEF BaseInv, CallsOK
<1>2. CASE backend # "persistent"
  BY <1>2 DEF LockIndex, AddToIndex, RemoveFromIndex, SyncInv
<1>3. CASE backend = "persistent" /\ AddToIndex(c)
  <2>1. op[c] \in Adding /\ op[c].at = "add" /\ op[c] # Idle
    BY <1>1, <1>3, CallKinds DEF AddToIndex, Idle
  <2>2. PICK i \in Instances, b \in Batches : i = op[c].i /\ b = op[c].entries
    BY <2>1 DEF Adding
  <2>3. inst[i].at = "open" /\ IsBatch(b)
    BY <1>1, <2>1, <2>2, BatchIs DEF CallOK
  <2>4. index' = [index EXCEPT ![i] = IndexAddBatch(index[i], b)] /\ op' = [op EXCEPT ![c] = Idle]
        /\ UNCHANGED <<backend, vec, inst, stale>>
    BY <1>3, <2>2 DEF AddToIndex, history
  <2>5. index'[i] = IndexAddBatch(index[i], b) /\ (\A j \in Instances : j # i => index'[j] = index[j])
        /\ index[i].vectors \in [Ids -> Vectors \cup {Absent}]
    BY <1>1, <2>4 DEF IndexesOK, Index
  <2>6. index'[i].vectors = StoreVectors(index[i].vectors, b)
    BY <1>1, <2>3, <2>5, AddBatchOK DEF IndexesOK
  <2>7. CallSync(op[c])
    BY <1>3 DEF SyncInv
  <2>8. ASSUME NEW x \in Ids \ stale[i]
        PROVE  IF Pends(op[c], x) THEN index'[i].vectors[x] = vec[x]
               ELSE index'[i].vectors[x] = index[i].vectors[x]
    <3>1. Pends(op[c], x) <=> Places(b, x) # {}
      BY <2>1, <2>2 DEF Pends
    <3>2. CASE Places(b, x) # {}
      <4>1. index'[i].vectors[x] = b[Max(Places(b, x))].vec
        BY <2>3, <2>5, <2>6, <3>2, StoresVectors
      <4>2. vec[x] = b[Max(Places(b, x))].vec
        BY <2>1, <2>2, <2>7, <3>2 DEF CallSync
      <4> QED
        BY <3>1, <3>2, <4>1, <4>2
    <3>3. CASE Places(b, x) = {}
      <4>1. index'[i].vectors[x] = index[i].vectors[x]
        BY <2>3, <2>5, <2>6, <3>3, StoresVectors
      <4> QED
        BY <3>1, <3>3, <4>1
    <3> QED
      BY <3>2, <3>3
  <2> QED
    BY <1>1, <2>1, <2>2, <2>3, <2>4, <2>5, <2>8, SyncIndex
<1>4. CASE backend = "persistent" /\ RemoveFromIndex(c)
  <2>1. op[c] \in Removing /\ op[c].at = "remove" /\ op[c] # Idle
    BY <1>1, <1>4, CallKinds DEF RemoveFromIndex, Idle
  <2>2. PICK i \in Instances, z \in Ids : i = op[c].i /\ z = op[c].id
    BY <2>1 DEF Removing
  <2>3. inst[i].at = "open"
    BY <1>1, <2>1, <2>2 DEF CallOK
  <2>4. index' = [index EXCEPT ![i] = IndexRemove(index[i], z)] /\ op' = [op EXCEPT ![c] = Idle]
        /\ UNCHANGED <<backend, vec, inst, stale>>
    BY <1>4, <2>2 DEF RemoveFromIndex, history
  <2>5. index'[i] = IndexRemove(index[i], z) /\ (\A j \in Instances : j # i => index'[j] = index[j])
        /\ index[i].vectors \in [Ids -> Vectors \cup {Absent}]
    BY <1>1, <2>4 DEF IndexesOK, Index
  <2>6. index'[i].vectors = [index[i].vectors EXCEPT ![z] = Absent]
    BY <1>1, <2>5, RemoveOK DEF IndexesOK
  <2>7. z \notin stale[i] => vec[z] = Absent
    BY <1>4, <2>1, <2>2 DEF SyncInv, CallSync
  <2>8. \A x \in Ids \ stale[i] : IF Pends(op[c], x) THEN index'[i].vectors[x] = vec[x]
                       ELSE index'[i].vectors[x] = index[i].vectors[x]
    BY <2>1, <2>2, <2>5, <2>6, <2>7 DEF Pends
  <2> QED
    BY <1>1, <2>1, <2>2, <2>3, <2>4, <2>5, <2>8, SyncIndex
<1> QED
  BY <1>2, <1>3, <1>4 DEF LockIndex

\* ... that are in between, ...
LEMMA SyncContinue ==
  ASSUME BaseInv, SyncInv, NEW c \in Threads, Continue(c)
  PROVE  SyncInv'
<1>1. CallsOK /\ op[c] \in Calls /\ CallOK(op[c])
  BY DEF BaseInv, CallsOK
<1>2. CASE MemoryStoreVector(c) \/ MemoryStoreMetadata(c) \/ DeleteMemoryMetadata(c)
  <2>1. backend = "memory" /\ backend' = backend
    BY <1>1, <1>2 DEF MemoryStoreVector, MemoryStoreMetadata, DeleteMemoryMetadata, CallOK
  <2> QED
    BY <2>1 DEF SyncInv
<1>3. ASSUME NEW h, SearchEnrich(c, h) PROVE SyncInv'
  <2>1. op[c] \in Searching /\ op[c].at = "enrich"
    BY <1>1, <1>3, CallKinds DEF SearchEnrich
  <2>2. PICK f : f = [id |-> h.id, scored |-> h.scored, point |-> h.point, vector |-> vec[h.id]]
    OBVIOUS
  <2>3. PICK o : o = [op[c] EXCEPT !.todo = @ \ {h}, !.found = @ \cup {f}]
    OBVIOUS
  <2>4. o.at = "enrich"
    BY <2>1, <2>3 DEF Searching
  <2>5. op' = [op EXCEPT ![c] = o] /\ UNCHANGED <<backend, vec, inst, index, stale>>
    BY <1>3, <2>2, <2>3 DEF SearchEnrich, history
  <2>6. CallSync(o)
    BY <2>4 DEF CallSync
  <2>7. \A x : ~Pends(op[c], x)
    BY <2>1 DEF Pends
  <2> QED
    BY <1>1, <2>5, <2>6, <2>7, SyncQuiet
<1>4. ASSUME SearchReturn(c) PROVE SyncInv'
  <2>1. op' = [op EXCEPT ![c] = Idle] /\ UNCHANGED <<backend, vec, inst, index, stale>> /\ op[c].at = "enrich"
    BY <1>4 DEF SearchReturn, history
  <2>2. CallSync(Idle) /\ \A x : ~Pends(op[c], x)
    BY <2>1 DEF CallSync, Pends, Idle
  <2> QED
    BY <1>1, <2>1, <2>2, SyncQuiet
<1> QED
  BY <1>2, <1>3, <1>4 DEF Continue

\* ... and that open and close.
LEMMA SyncOpen ==
  ASSUME BaseInv, HistoryOK, SyncInv, NEW i \in Instances,
         \/ \E o \in Options : OpenLoadConfig(i, o) \/ OpenMemory(i, o)
         \/ OpenStep(i)
         \/ Close(i)
  PROVE  SyncInv'
<1>1. TablesOK /\ CallsOK /\ IndexesOK /\ inst \in [Instances -> States] /\ inst[i] \in States
      /\ vec \in [Ids -> Vectors \cup {Absent}]
  BY DEF BaseInv, TablesOK
<1>2. ASSUME NEW s, inst' = [inst EXCEPT ![i] = s], UNCHANGED <<backend, op, vec, index, stale>>,
             s.at = "load" => RowsSync(s, stale[i]), s.at # "open"
      PROVE  SyncInv'
  <2>1. inst'[i] = s /\ \A j \in Instances : j # i => inst'[j] = inst[j]
    BY <1>1, <1>2
  <2>2. s.at = "load" => RowsSync(inst'[i], stale'[i])
    BY <1>2, <2>1
  <2> QED
    BY <1>1, <1>2, <2>1, <2>2, SyncOpens
<1>9. ASSUME inst' = [inst EXCEPT ![i] = Closed], UNCHANGED <<backend, op>>,
             backend = "persistent" => vec' = vec, Forget(i),
             \A j \in Instances : j # i => index'[j] = index[j],
             \A c \in Threads : op[c] # Idle => op[c].i # i
      PROVE  SyncInv'
  <2>1. /\ inst'[i].at = "closed"
        /\ \A j \in Instances : j # i => inst'[j] = inst[j] /\ stale'[j] = stale[j]
    BY <1>1, <1>9 DEF Forget, HistoryOK, Closed
  <2> QED
    BY <1>1, <1>9, <2>1, SyncOpens
<1>3. ASSUME NEW o \in Options, OpenLoadConfig(i, o) PROVE SyncInv'
  <2>1. PICK s : s = IF config = Absent THEN [at |-> "save", opt |-> o]
                     ELSE [at |-> "list", opt |-> config]
    OBVIOUS
  <2>2. s.at \in {"list", "save"}
    BY <2>1
  <2>3. inst' = [inst EXCEPT ![i] = s] /\ UNCHANGED <<backend, op, vec, index, stale>>
    BY <1>3, <2>1 DEF OpenLoadConfig
  <2> QED
    BY <1>2, <2>2, <2>3
<1>10. ASSUME NEW o \in Options, OpenMemory(i, o) PROVE SyncInv'
  BY <1>10 DEF OpenMemory, SyncInv
<1>4. ASSUME OpenSaveConfig(i) PROVE SyncInv'
  <2>1. PICK s : s = [inst[i] EXCEPT !.at = "list"]
    OBVIOUS
  <2>2. inst[i] \in Opening
    BY <1>1, <1>4, StateKinds DEF OpenSaveConfig
  <2>3. s.at = "list"
    BY <2>1, <2>2 DEF Opening
  <2>4. inst' = [inst EXCEPT ![i] = s] /\ UNCHANGED <<backend, op, vec, index, stale>>
    BY <1>4, <2>1 DEF OpenSaveConfig, history
  <2> QED
    BY <1>2, <2>3, <2>4
<1>5. ASSUME OpenListIds(i) PROVE SyncInv'
  <2>1. PICK s : s = [at |-> "load", opt |-> inst[i].opt, todo |-> StoredIds, rows |-> <<>>]
    OBVIOUS
  <2>2. s.at = "load" /\ s.todo = StoredIds /\ s.rows = <<>>
    BY <2>1
  <2>3. inst' = [inst EXCEPT ![i] = s] /\ UNCHANGED <<backend, op, vec, index, stale>>
    BY <1>5, <2>1 DEF OpenListIds, history
  <2>4. RowsSync(s, stale[i])
    <3>1. DOMAIN <<>> = {}
      OBVIOUS
    <3> QED
      BY <2>2, <3>1 DEF RowsSync, StoredIds
  <2> QED
    BY <1>2, <2>2, <2>3, <2>4
<1>6. ASSUME NEW x \in Ids, OpenLoadRow(i, x) PROVE SyncInv'
  <2>1. PICK r : r = IF vec[x] = Absent THEN inst[i].rows
                     ELSE Append(inst[i].rows, [id |-> x, vec |-> vec[x]])
    OBVIOUS
  <2>2. PICK s : s = [inst[i] EXCEPT !.todo = @ \ {x}, !.rows = r]
    OBVIOUS
  <2>3. inst[i] \in Loading /\ inst[i].at = "load"
    BY <1>1, <1>6, StateKinds DEF OpenLoadRow
  <2>4. s.at = "load" /\ s.todo = inst[i].todo \ {x} /\ s.rows = r
    BY <2>2, <2>3 DEF Loading
  <2>5. inst' = [inst EXCEPT ![i] = s] /\ UNCHANGED <<backend, op, vec, index, stale>>
    BY <1>6, <2>1, <2>2 DEF OpenLoadRow, history
  <2>6. ASSUME backend = "persistent" PROVE RowsSync(s, stale[i])
    <3>1. RowsSync(inst[i], stale[i])
      BY <2>3, <2>6 DEF SyncInv
    <3>2. CASE vec[x] = Absent
      <4>1. s.rows = inst[i].rows
        BY <2>1, <2>4, <3>2
      <4> QED
        BY <2>4, <3>1, <3>2, <4>1 DEF RowsSync
    <3>3. CASE vec[x] # Absent
      <4>1. PICK q, e : q = inst[i].rows /\ e = [id |-> x, vec |-> vec[x]]
        OBVIOUS
      <4>2. q \in Seq(Row) /\ s.rows = Append(q, e) /\ e.id = x /\ e.vec = vec[x]
        BY <2>1, <2>3, <2>4, <3>3, <4>1 DEF Loading
      <4>3. e \in Row
        BY <1>1, <3>3, <4>1 DEF Row
      <4>4. /\ DOMAIN s.rows = 1..(Len(q) + 1) /\ DOMAIN q = 1..Len(q) /\ Len(q) \in Nat
            /\ \A n \in 1..Len(q) : s.rows[n] = q[n]
            /\ s.rows[Len(q) + 1] = e
        BY <4>2, <4>3
      <4>5. \A n \in DOMAIN q : q[n].id \notin stale[i] => q[n].vec = vec[q[n].id]
        BY <3>1, <4>1 DEF RowsSync
      <4>6. \A n \in DOMAIN s.rows : s.rows[n].id \notin stale[i] => s.rows[n].vec = vec[s.rows[n].id]
        BY <4>2, <4>4, <4>5
      <4>7. \A y \in Ids : Places(q, y) # {} \/ y = x => Places(s.rows, y) # {}
        BY <4>2, <4>4 DEF Places
      <4>8. \A y \in Ids \ stale[i] : vec[y] # Absent => y \in inst[i].todo \/ Places(q, y) # {}
        BY <3>1, <4>1 DEF RowsSync
      <4> QED
        BY <2>4, <4>6, <4>7, <4>8 DEF RowsSync
    <3> QED
      BY <3>2, <3>3
  <2> QED
    <3>1. CASE backend = "persistent"
      BY <1>2, <2>4, <2>5, <2>6, <3>1
    <3>2. CASE backend # "persistent"
      BY <2>5, <3>2 DEF SyncInv
    <3> QED
      BY <3>1, <3>2
<1>7. ASSUME OpenFinish(i) PROVE SyncInv'
  <2>1. inst[i] \in Loading /\ inst[i].at = "load" /\ inst[i].todo = {} /\ UNCHANGED <<backend, op, vec>>
    BY <1>1, <1>7, StateKinds DEF OpenFinish
  <2>2. ASSUME inst' = [inst EXCEPT ![i] = Closed], Forget(i), UNCHANGED index PROVE SyncInv'
    <3>1. \A c \in Threads : op[c] # Idle => op[c].i # i
      BY <1>1, <2>1 DEF CallsOK, CallOK
    <3> QED
      BY <1>9, <2>1, <2>2, <3>1
  <2>3. ASSUME inst' = [inst EXCEPT ![i] = [at |-> "open", opt |-> inst[i].opt]], UNCHANGED stale,
               index' = [index EXCEPT ![i] = IndexAddBatch(EmptyIndex(inst[i].opt.kind), inst[i].rows)]
        PROVE  SyncInv'
    <3>1. PICK rows, empty : rows = inst[i].rows /\ empty = EmptyIndex(inst[i].opt.kind)
      OBVIOUS
    <3>2. rows \in Seq(Row) /\ IsBatch(rows) /\ inst[i].opt.kind \in {"flat", "hnsw"}
      BY <2>1, <3>1, RowsAre, VectorDbAssumption DEF Loading
    <3>3. empty \in Index /\ IndexOK(empty) /\ \A x \in Ids : empty.vectors[x] = Absent
      BY <3>1, <3>2, EmptyOK
    <3>4. index'[i].vectors = StoreVectors(empty.vectors, rows)
      BY <1>1, <2>3, <3>1, <3>2, <3>3, AddBatchOK DEF IndexesOK
    <3>5. ASSUME backend = "persistent", NEW x \in Ids \ stale'[i] PROVE index'[i].vectors[x] = vec[x]
      <4>1. RowsSync(inst[i], stale[i]) /\ x \notin stale[i]
        BY <2>1, <2>3, <3>5 DEF SyncInv
      <4>2. empty.vectors \in [Ids -> Vectors \cup {Absent}]
        BY <3>3 DEF Index
      <4>3. CASE Places(rows, x) = {}
        <5>1. vec[x] = Absent
          BY <2>1, <3>1, <4>1, <4>3 DEF RowsSync
        <5>2. index'[i].vectors[x] = empty.vectors[x]
          BY <3>2, <3>4, <4>2, <4>3, StoresVectors
        <5> QED
          BY <3>3, <5>1, <5>2
      <4>4. CASE Places(rows, x) # {}
        <5>1. PICK n : n = Max(Places(rows, x))
          OBVIOUS
        <5>2. n \in DOMAIN rows /\ rows[n].id = x
          BY <3>2, <4>4, <5>1, LastPlace
        <5>3. index'[i].vectors[x] = rows[n].vec
          BY <3>2, <3>4, <4>2, <4>4, <5>1, StoresVectors
        <5> QED
          BY <3>1, <4>1, <5>2, <5>3 DEF RowsSync
      <4> QED
        BY <4>3, <4>4
    <3>6. inst'[i].at = "open" /\ \A j \in Instances : j # i => inst'[j] = inst[j] /\ index'[j] = index[j]
      BY <1>1, <2>3 DEF IndexesOK
    <3> QED
      BY <1>1, <2>1, <2>3, <3>5, <3>6, SyncOpens
  <2> QED
    BY <1>7, <2>2, <2>3 DEF OpenFinish
<1>8. ASSUME Close(i) PROVE SyncInv'
  <2>1. backend = "persistent" => vec' = vec
    <3>1. backend = "persistent" => backend # "memory"
      OBVIOUS
    <3> QED
      BY <1>8, <3>1 DEF Close, DropStorage
  <2>2. \A j \in Instances : j # i => index'[j] = index[j]
    BY <1>1, <1>8 DEF Close, IndexesOK
  <2>3. \A c \in Threads : op[c] # Idle => op[c].i # i
    BY <1>8 DEF Close, Using
  <2> QED
    BY <1>8, <1>9, <2>1, <2>2, <2>3 DEF Close
<1> QED
  BY <1>3, <1>4, <1>5, <1>6, <1>7, <1>8, <1>10 DEF OpenStep

\* Every step keeps SyncInv.
LEMMA SyncStep == BaseInv /\ HistoryOK /\ SyncInv /\ [Next]_vars => SyncInv'
<1> SUFFICES ASSUME BaseInv, HistoryOK, SyncInv, [Next]_vars PROVE SyncInv'
  OBVIOUS
<1>1. CASE UNCHANGED vars
  BY <1>1 DEF vars, SyncInv, RowsSync, CallSync, Pending, Using
<1>2. ASSUME Crash PROVE SyncInv'
  <2>1. \A j \in Instances : inst'[j].at = "closed"
    BY <1>2 DEF Crash, Closed
  <2>2. \A d \in Threads : op'[d].at = "idle"
    BY <1>2 DEF Crash, Idle
  <2> QED
    BY <2>1, <2>2 DEF SyncInv, CallSync
<1> QED
  BY <1>1, <1>2, SyncCall, SyncLock, SyncContinue, SyncOpen DEF Next

\* The hits of o that differ from their scored vectors are explained.
Explained(o) ==
    \A h \in o.found :
        h.vector # h.scored /\ ~Repeated(index[o.i], h.id) /\ h.id \notin stale[o.i] =>
            Pending(o.i, h.id)

\* Pending, at the instance a thread is at after the step.
LEMMA PendingAt ==
  ASSUME NEW d, NEW j, op'[d].i = j, NEW x, Pending(j, x)'
  PROVE  Pending(op[d].i, x)'
  BY DEF Pending, Using

\* A thread goes on, no index changes, and none is less stale.
LEMMA ExplainedMoves ==
  ASSUME CallsOK, HitsExplained, NEW c \in Threads, NEW o, op' = [op EXCEPT ![c] = o],
         UNCHANGED <<backend, index>>, \A x : ~Pends(op[c], x),
         \A j \in Instances : stale[j] \subseteq stale'[j],
         o.at = "enrich" => o.i \in Instances,
         backend = "persistent" /\ o.at = "enrich" => Explained(o)
  PROVE  HitsExplained'
<1>1. op'[c] = o /\ \A d \in Threads : d # c => op'[d] = op[d]
  BY DEF CallsOK
<1>2. \A i, x : Pending(i, x) => Pending(i, x)'
  BY PendingGrows
<1>3. ASSUME backend = "persistent", NEW d \in Threads, op'[d].at = "enrich", NEW h \in op'[d].found,
             h.vector # h.scored, ~Repeated(index[op'[d].i], h.id), h.id \notin stale[op'[d].i]
      PROVE  Pending(op'[d].i, h.id)
  <2>1. CASE d = c
    BY <1>1, <1>3, <2>1 DEF Explained
  <2>2. CASE d # c
    BY <1>1, <1>3, <2>2 DEF HitsExplained
  <2> QED
    BY <2>1, <2>2
<1>4. ASSUME backend = "persistent", NEW d \in Threads, op'[d].at = "enrich", NEW h \in op'[d].found,
             h.vector # h.scored, ~Repeated(index[op[d].i], h.id)', h.id \notin stale'[op'[d].i]
      PROVE  Pending(op[d].i, h.id)'
  <2>1. PICK j : j = op'[d].i
    OBVIOUS
  <2>2. ~Repeated(index[j], h.id)
    <3>1. PICK ix : ix = index[j]
      OBVIOUS
    <3>2. index'[op'[d].i] = ix
      BY <2>1, <3>1
    <3> QED
      BY <1>4, <3>1, <3>2 DEF Repeated
  <2>4. h.id \notin stale[j]
    <3>1. j \in Instances
      BY <1>1, <1>4, <2>1, CallKinds DEF CallsOK, Idle
    <3> QED
      BY <1>4, <2>1, <3>1
  <2>3. Pending(j, h.id)
    BY <1>3, <1>4, <2>1, <2>2, <2>4
  <2> QED
    BY <1>2, <2>1, <2>3, PendingAt
<1> QED
  BY <1>4 DEF HitsExplained

\* HitsExplained, by the steps that begin an operation, ...
LEMMA ExplainedCall ==
  ASSUME BaseInv, HitsExplained, NEW c \in Threads, Call(c)
  PROVE  HitsExplained'
<1>1. CallsOK
  BY DEF BaseInv
<1>2. op[c] = Idle /\ UNCHANGED <<backend, index>>
  BY DEF Call, InsertPersistent, InsertMemory, DeletePersistent, DeleteMemoryVector, SearchIndex,
         MayInsert, MayDelete
<1>3. \A x : ~Pends(op[c], x)
  BY <1>2 DEF Idle, Pends
<1>4. ASSUME NEW i \in Instances, NEW b \in Batches, InsertPersistent(c, i, b) PROVE HitsExplained'
  <2>1. PICK o : o = [at |-> "add", i |-> i, entries |-> b]
    OBVIOUS
  <2>2. op' = [op EXCEPT ![c] = o] /\ o.at # "enrich" /\ \A j \in Instances : stale[j] \subseteq stale'[j]
    BY <1>4, <2>1 DEF InsertPersistent, WrittenThrough
  <2> QED
    BY <1>1, <1>2, <1>3, <2>2, ExplainedMoves
<1>5. ASSUME NEW i \in Instances, NEW b \in Batches, InsertMemory(c, i, b) PROVE HitsExplained'
  BY <1>5 DEF InsertMemory, HitsExplained
<1>6. ASSUME NEW i \in Instances, NEW x \in Ids, DeletePersistent(c, i, x) PROVE HitsExplained'
  <2>1. PICK o : o = AfterDelete(i, x, vec[x] # Absent)
    OBVIOUS
  <2>2. op' = [op EXCEPT ![c] = o] /\ \A j \in Instances : stale[j] \subseteq stale'[j]
    BY <1>6, <2>1 DEF DeletePersistent, WrittenThrough
  <2>3. o.at # "enrich"
    BY <2>1 DEF AfterDelete, Idle
  <2> QED
    BY <1>1, <1>2, <1>3, <2>2, <2>3, ExplainedMoves
<1>7. ASSUME NEW i \in Instances, NEW x \in Ids, DeleteMemoryVector(c, i, x) PROVE HitsExplained'
  BY <1>7 DEF DeleteMemoryVector, HitsExplained
<1>8. ASSUME NEW i \in Instances, SearchIndex(c, i) PROVE HitsExplained'
  <2>1. PICK o : o = [at |-> "enrich", i |-> i, todo |-> IndexHits(index[i]), found |-> {}]
    OBVIOUS
  <2>2. op' = [op EXCEPT ![c] = o] /\ UNCHANGED stale
    BY <1>8, <2>1 DEF SearchIndex, history
  <2>3. o.found = {} /\ o.i \in Instances
    BY <2>1
  <2>4. Explained(o)
    BY <2>3 DEF Explained
  <2> QED
    BY <1>1, <1>2, <1>3, <2>2, <2>3, <2>4, ExplainedMoves
<1> QED
  BY <1>4, <1>5, <1>6, <1>7, <1>8, VectorDbAssumption DEF Call

\* ... that are in between: a fetched vector that is not the scored one has been
\* replaced by a call that has not reached the index, ...
LEMMA ExplainedContinue ==
  ASSUME BaseInv, SyncInv, HitsExplained, NEW c \in Threads, Continue(c)
  PROVE  HitsExplained'
<1>1. TablesOK /\ IndexesOK /\ CallsOK /\ op[c] \in Calls /\ CallOK(op[c])
  BY DEF BaseInv, CallsOK
<1>2. CASE MemoryStoreVector(c) \/ MemoryStoreMetadata(c) \/ DeleteMemoryMetadata(c)
  <2>1. backend = "memory" /\ backend' = backend
    BY <1>1, <1>2 DEF MemoryStoreVector, MemoryStoreMetadata, DeleteMemoryMetadata, CallOK
  <2> QED
    BY <2>1 DEF HitsExplained
<1>3. ASSUME NEW h, SearchEnrich(c, h) PROVE HitsExplained'
  <2>1. op[c] \in Searching /\ op[c].at = "enrich" /\ h \in op[c].todo /\ op[c] # Idle
    BY <1>1, <1>3, CallKinds DEF SearchEnrich, Idle
  <2>2. PICK f : f = [id |-> h.id, scored |-> h.scored, point |-> h.point, vector |-> vec[h.id]]
    OBVIOUS
  <2>3. PICK o : o = [op[c] EXCEPT !.todo = @ \ {h}, !.found = @ \cup {f}]
    OBVIOUS
  <2>4. o.found = op[c].found \cup {f} /\ o.i = op[c].i
    BY <2>1, <2>3 DEF Searching
  <2>5. op' = [op EXCEPT ![c] = o] /\ UNCHANGED <<backend, index, stale>>
    BY <1>3, <2>2, <2>3 DEF SearchEnrich, history
  <2>6. PICK i \in Instances : i = op[c].i
    BY <2>1 DEF Searching
  <2>7. ASSUME backend = "persistent", f.vector # f.scored, ~Repeated(index[i], f.id), f.id \notin stale[i]
        PROVE  Pending(i, f.id)
    <3>1. h \in IndexHits(index[i]) /\ inst[i].at = "open" /\ index[i] \in Index /\ IndexOK(index[i])
      BY <1>1, <2>1, <2>6 DEF CallOK, IndexesOK
    <3>2. f.id = h.id /\ f.vector = vec[h.id] /\ f.scored = h.scored
      BY <2>2
    <3>3. h.id \in Ids /\ h.scored = index[i].vectors[h.id]
      BY <2>7, <3>1, <3>2, HitsOfOnePoint
    <3> QED
      BY <2>7, <3>1, <3>2, <3>3 DEF SyncInv
  <2>8. ASSUME backend = "persistent" PROVE Explained(o)
    <3>1. \A g \in op[c].found :
            g.vector # g.scored /\ ~Repeated(index[i], g.id) /\ g.id \notin stale[i] => Pending(i, g.id)
      BY <2>1, <2>6, <2>8 DEF HitsExplained
    <3> QED
      BY <2>4, <2>6, <2>7, <2>8, <3>1 DEF Explained
  <2>9. \A x : ~Pends(op[c], x)
    BY <2>1 DEF Pends
  <2> QED
    BY <1>1, <2>4, <2>5, <2>6, <2>8, <2>9, ExplainedMoves
<1>4. ASSUME SearchReturn(c) PROVE HitsExplained'
  <2>1. op' = [op EXCEPT ![c] = Idle] /\ UNCHANGED <<backend, index, stale>> /\ op[c].at = "enrich"
    BY <1>4 DEF SearchReturn, history
  <2>2. Idle.at # "enrich" /\ \A x : ~Pends(op[c], x)
    BY <2>1 DEF Pends, Idle
  <2> QED
    BY <1>1, <2>1, <2>2, ExplainedMoves
<1> QED
  BY <1>2, <1>3, <1>4 DEF Continue

\* Who has the write lock of an index meets no search of it.
LEMMA ExplainedLock ==
  ASSUME BaseInv, HitsExplained, NEW c \in Threads, LockIndex(c)
  PROVE  HitsExplained'
<1>1. CallsOK /\ op[c] \in Calls
  BY DEF BaseInv, CallsOK
<1>2. op[c] # Idle /\ IndexUnlocked(op[c].i) /\ op' = [op EXCEPT ![c] = Idle]
      /\ UNCHANGED <<backend, stale>>
  BY DEF LockIndex, AddToIndex, RemoveFromIndex, Idle, history
<1>3. PICK k \in Instances : k = op[c].i
  BY <1>1, <1>2, CallKinds
<1>4. \A j \in Instances : j # k => index'[j] = index[j]
  BY <1>3 DEF LockIndex, AddToIndex, RemoveFromIndex, BaseInv, IndexesOK
<1>5. op'[c] = Idle /\ \A d \in Threads : d # c => op'[d] = op[d]
  BY <1>1, <1>2 DEF CallsOK
<1> SUFFICES ASSUME backend = "persistent", NEW d \in Threads, op'[d].at = "enrich",
                    NEW h \in op'[d].found, h.vector # h.scored,
                    ~Repeated(index[op[d].i], h.id)', h.id \notin stale[op[d].i]'
             PROVE  Pending(op[d].i, h.id)'
  BY <1>2 DEF HitsExplained
<1>6. d # c /\ op'[d] = op[d] /\ op[d] \in Calls /\ op[d] # Idle
  BY <1>1, <1>5 DEF CallsOK, Idle
<1>7. PICK j \in Instances : j = op[d].i
  BY <1>6, CallKinds
<1>8. j # k
  BY <1>2, <1>3, <1>6, <1>7 DEF IndexUnlocked, Using
<1>9. Pending(j, h.id)
  <2>1. ~Repeated(index[j], h.id)
    BY <1>4, <1>6, <1>7, <1>8 DEF Repeated
  <2>2. h.id \notin stale[j]
    BY <1>2, <1>6, <1>7
  <2> QED
    BY <1>6, <1>7, <2>1, <2>2 DEF HitsExplained
<1>10. PICK e \in Threads : op[e] # Idle /\ op[e].i = j /\ Pends(op[e], h.id)
  BY <1>9, PendingIs
<1>11. e # c /\ op'[e] = op[e]
  BY <1>3, <1>5, <1>8, <1>10
<1>12. Pending(j, h.id)'
  BY <1>10, <1>11, PendingIs
<1> QED
  BY <1>6, <1>7, <1>12, PendingAt

\* ... and that open and close.
LEMMA ExplainedOpen ==
  ASSUME BaseInv, HistoryOK, HitsExplained, NEW i \in Instances,
         \/ \E o \in Options : OpenLoadConfig(i, o) \/ OpenMemory(i, o)
         \/ OpenStep(i)
         \/ Close(i)
  PROVE  HitsExplained'
<1>1. CallsOK /\ IndexesOK
  BY DEF BaseInv
<1>2. UNCHANGED <<backend, op>>
  BY DEF OpenLoadConfig, OpenMemory, OpenStep, OpenSaveConfig, OpenListIds, OpenLoadRow, OpenFinish, Close
<1>3. \/ UNCHANGED <<index, stale>>
      \/ /\ inst[i].at # "open" \/ Using(i) = {}
         /\ \A j \in Instances : j # i => index'[j] = index[j] /\ stale'[j] = stale[j]
  BY <1>1 DEF HistoryOK, history, Forget, OpenLoadConfig, OpenMemory, OpenStep, OpenSaveConfig, OpenListIds, OpenLoadRow, OpenFinish, Close,
              IndexesOK
<1>4. ASSUME NEW d \in Threads, op[d].at = "enrich" 
      PROVE  index'[op[d].i] = index[op[d].i] /\ stale'[op[d].i] = stale[op[d].i]
  <2>1. op[d] # Idle /\ op[d] \in Calls /\ inst[op[d].i].at = "open"
    BY <1>1, <1>4 DEF Idle, CallsOK, CallOK
  <2>2. op[d].i \in Instances /\ d \in Using(op[d].i)
    BY <2>1, CallKinds DEF Using
  <2> QED
    BY <1>3, <2>1, <2>2
<1>5. \A j, x : Pending(j, x) => Pending(j, x)'
  BY <1>2 DEF Pending, Using
<1> SUFFICES ASSUME backend = "persistent", NEW d \in Threads, op'[d].at = "enrich",
                    NEW h \in op'[d].found, h.vector # h.scored,
                    ~Repeated(index[op[d].i], h.id)', h.id \notin stale[op[d].i]'
             PROVE  Pending(op[d].i, h.id)'
  BY <1>2 DEF HitsExplained
<1>6. PICK j : j = op[d].i /\ op'[d].i = j
  BY <1>2
<1>7. ~Repeated(index[j], h.id)
  BY <1>2, <1>4, <1>6 DEF Repeated
<1>8. Pending(j, h.id)
  BY <1>2, <1>4, <1>6, <1>7 DEF HitsExplained
<1> QED
  BY <1>5, <1>6, <1>8, PendingAt

\* Every step keeps HitsExplained.
LEMMA ExplainedStep == BaseInv /\ HistoryOK /\ SyncInv /\ HitsExplained /\ [Next]_vars => HitsExplained'
<1> SUFFICES ASSUME BaseInv, HistoryOK, SyncInv, HitsExplained, [Next]_vars PROVE HitsExplained'
  OBVIOUS
<1>1. CASE UNCHANGED vars
  BY <1>1 DEF vars, HitsExplained, Repeated, Pending, Using
<1>2. ASSUME Crash PROVE HitsExplained'
  BY <1>2 DEF Crash, Idle, HitsExplained
<1> QED
  BY <1>1, <1>2, ExplainedCall, ExplainedLock, ExplainedContinue, ExplainedOpen DEF Next

\* Index and storage.
LEMMA Synced == Spec => [](BaseInv /\ SyncInv /\ HitsExplained)
<1>1. Init => HistoryOK /\ SyncInv /\ HitsExplained
  BY DEF Init, HistoryOK, SyncInv, CallSync, Closed, Idle, HitsExplained
<1>2. BaseInv /\ HistoryOK /\ SyncInv /\ HitsExplained /\ [Next]_vars => HistoryOK' /\ SyncInv' /\ HitsExplained'
  BY HistoryStep, SyncStep, ExplainedStep
<1> QED
  BY <1>1, <1>2, BaseInit, BaseStep, PTL DEF Spec

\* An open index holds what the storage holds for every id with no operation
\* under way, after any mix of inserts, deletes, reopenings and crashes, unless
\* the id was written without the index being told or by two calls at once.
THEOREM IndexInStep == Spec => []IndexMatchesStorage
<1>1. SyncInv => IndexMatchesStorage
  BY DEF SyncInv, IndexMatchesStorage
<1> QED
  BY <1>1, Synced, PTL

\* Then a search finds the stored vector of an id, once, if the id has no
\* second point in the graph.
THEOREM HitsAreLive == Spec => []HitsAreStored
<1>1. BaseInv /\ SyncInv => HitsAreStored
  <2> SUFFICES ASSUME BaseInv, SyncInv, backend = "persistent", NEW i \in Instances,
                      inst[i].at = "open", NEW h \in IndexHits(index[i]),
                      ~Pending(i, h.id), ~Repeated(index[i], h.id), h.id \notin stale[i]
               PROVE  /\ h.scored = vec[h.id]
                      /\ \A g \in IndexHits(index[i]) : g.id = h.id => g = h
    BY DEF HitsAreStored
  <2>1. index[i] \in Index /\ IndexOK(index[i])
    BY DEF BaseInv, IndexesOK
  <2>2. h.id \in Ids /\ h.scored = index[i].vectors[h.id]
        /\ \A g \in IndexHits(index[i]) : g.id = h.id => g = h
    BY <2>1, HitsOfOnePoint
  <2> QED
    BY <2>2 DEF SyncInv
<1> QED
  BY <1>1, Synced, PTL

\* And a search returns a vector other than the scored one only for an id whose
\* operation waits for the index.
THEOREM SearchesExplained == Spec => []HitsExplained
BY Synced, PTL

=============================================================================
