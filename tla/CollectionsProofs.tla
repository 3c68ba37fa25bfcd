-------------------------- MODULE CollectionsProofs --------------------------
(***************************************************************************)
(* Proofs about Collections, for any callers, clients and names, and any   *)
(* number of calls, crashes and failing steps: types; what a restart finds *)
(* of what the map has, and of what it does not have; and what aliases     *)
(* stand for.                                                              *)
(*                                                                         *)
(* What a restart finds of the map, and the aliases, need callers with     *)
(* names of their own.  The manager locks nothing over a method, and with  *)
(* common names TLC violates both: a delete removes the directory that a   *)
(* create has just made.  That nothing deleted comes back needs nothing.   *)
(***************************************************************************)
EXTENDS Collections, TLAPS

USE DEF aliasing, storing

\* What the code does not enforce: a name has one caller that creates, deletes
\* and aliases it.
OwnNames == \A c, e \in Callers : c # e => MayCall[c] \cap MayCall[e] = {}

-----------------------------------------------------------------------------
(* Types: what a caller is in the middle of; what is referred to is open;  *)
(* and nobody calls anything while new is loading.                         *)

CreateOps ==
    [at : {"open", "database", "truncate", "write", "insert"}, name : Names, config : Configs]
DeleteOps == [at : {"scan", "remove", "list"}, name : Names]
UnlinkOps == [at : {"unlink"}, name : Names, todo : SUBSET {"meta", "file"}]
AliasOps == [at : {"alias"}, name : Names, target : Names]
SnapshotOps == [at : {"snapshot"}]
SaveOps == [at : {"clear", "save"}, copy : [Names -> Names \cup {None}]]
Ops == CreateOps \cup DeleteOps \cup UnlinkOps \cup AliasOps \cup SnapshotOps \cup SaveOps \cup {Idle}

StoreTyped ==
    /\ collections \in [Names -> Configs \cup {None}]
    /\ pool \in [Names -> Databases \cup {None}]
    /\ disk \in [Names -> Directories \cup {None}]
    /\ reused \in [Names -> BOOLEAN]
    /\ held \subseteq Names /\ failed \subseteq Names

AliasTyped ==
    /\ aliases \in [Names -> Names \cup {None}]
    /\ aliasFile \in [Names -> Names \cup {None}] \cup {Empty, Torn}
    /\ muddled \in BOOLEAN /\ stray \subseteq Names

Referenced(n) == collections[n] # None \/ n \in held \/ Opened(op, n)

OpenTyped == \A n \in Names : Referenced(n) => pool[n] # None

ManagerTyped ==
    /\ manager = Down \/ manager \in [at : {"loading", "up"}, todo : SUBSET Names]
    /\ manager.at = "loading" => \A n \in manager.todo : Loadable(n)
    /\ Up => manager.todo = {}
    /\ ~Up => held = {} /\ \A c \in Callers : op[c] = Idle

TypeInv == StoreTyped /\ AliasTyped /\ op \in [Callers -> Ops] /\ OpenTyped /\ ManagerTyped

-----------------------------------------------------------------------------
(* Names: what the map, the pool and the disk have of each, step by step   *)

\* The open database of n is the file in its directory, with configuration x;
\* or a create found a database.
Backed(n, x) ==
    \/ pool[n].linked /\ disk[n].file = pool[n].config /\ pool[n].config = x
    \/ reused[n]

\* A restart does not load n, unless it could not be removed or loaded.
Gone(n) == ~Loadable(n) \/ n \in failed

\* Nobody is in the middle of a call about n.
Settled(n) ==
    IF collections[n] # None
    THEN Loadable(n) /\ disk[n].meta = collections[n] /\ Backed(n, collections[n])
    ELSE Gone(n)

Named == {"open", "database", "truncate", "write", "insert", "scan", "remove", "list", "unlink",
          "alias"}

\* Callers keep to their names.
Own(c) ==
    /\ op[c].at \in Named => op[c].name \in MayCall[c]
    /\ op[c].at = "alias" => op[c].target \in MayCall[c]

\* How far a call has got.  While a directory is removed, its metadata may still
\* be readable, with or without the file.
Midway(c) ==
    LET n == op[c].name IN
    /\ op[c].at \in {"open", "database", "scan", "remove", "alias"} => Settled(n)
    /\ op[c].at \in {"open", "database", "truncate", "write", "insert", "list", "unlink"} =>
         collections[n] = None
    /\ op[c].at \in {"scan", "remove"} => collections[n] # None
    /\ op[c].at \in {"truncate", "write", "insert"} => Backed(n, op[c].config)
    /\ op[c].at = "truncate" => Gone(n)
    /\ op[c].at = "write" => disk[n] # None /\ disk[n].meta = Empty
    /\ op[c].at = "insert" => disk[n] # None /\ disk[n].meta = op[c].config
    /\ op[c].at = "unlink" =>
         \A f \in {"meta", "file"} : disk[n] # None /\ f \notin op[c].todo => disk[n][f] = None

\* What a restart loads is the database the metadata describes, or a new one.
Restartable(n) == Loadable(n) => disk[n].file \in {None, disk[n].meta} \/ reused[n]

\* new has loaded n, or will.
Loading(n) ==
    IF n \in manager.todo THEN collections[n] = None /\ pool[n] = None ELSE Settled(n)

NameInv ==
    /\ \A c \in Callers : Own(c) /\ Midway(c)
    /\ \A n \in Names : Restartable(n)
    /\ manager = Down => collections = NoNames /\ pool = NoNames
    /\ manager.at = "loading" => \A n \in Names : Loading(n)
    /\ Up => \A n \in Names : Quiet(n) => Settled(n)

-----------------------------------------------------------------------------
(* Aliases: the map, the file and the copies on their way to it            *)

\* An alias and its target are names of one caller.
WithinOne(m) ==
    \A a \in Names : m[a] # None =>
        \E c \in Callers : a \in MayCall[c] /\ m[a] \in MayCall[c]

\* A restart finds n, unless it could not be removed or loaded.
Kept(n) == Loadable(n) \/ n \in failed

\* A restart finds the collections the aliases stand for, and none they hide.
Restored(m) ==
    \A a \in Names : m[a] # None /\ a \notin stray => Kept(m[a]) /\ Gone(a)

\* How far a call has got.
AliasStep(c) ==
    /\ op[c].at \in {"clear", "save"} => WithinOne(op[c].copy)
    /\ op[c].at \in {"open", "database", "truncate", "write", "insert"} => aliases[op[c].name] = None
    /\ op[c].at \in {"remove", "list", "unlink"} => \A a \in Names : aliases[a] # op[c].name
    /\ op[c].at = "alias" =>
         /\ Kept(op[c].target)
         /\ Gone(op[c].name) \/ (op[c].name \in stray /\ aliases[op[c].name] # None)

Readable == aliasFile \notin {Empty, Torn}

\* While saves neither overlap nor fail: one caller at a time takes the file
\* from what the map was to what it is.
Tidy ==
    /\ \A c, e \in Callers : Saving(c) /\ Saving(e) => c = e
    /\ \A c \in Callers : op[c].at \in {"clear", "save"} => op[c].copy = aliases
    /\ \A c \in Callers : op[c].at = "save" => aliasFile = Empty
    /\ Readable => Restored(aliasFile)
    /\ manager # Down => aliasFile = aliases \/ \E c \in Callers : Saving(c)
    /\ manager # Down /\ Readable =>
         \A c \in Callers : ~Saving(c) => \A a \in MayCall[c] : aliasFile[a] = aliases[a]

AliasInv ==
    /\ WithinOne(aliases) /\ Restored(aliases)
    /\ Readable => WithinOne(aliasFile)
    /\ \A c \in Callers : AliasStep(c)
    /\ ~muddled => Tidy

-----------------------------------------------------------------------------
(* Types                                                                   *)

LEMMA OpShapes ==
  ASSUME NEW c \in Callers, op \in [Callers -> Ops]
  PROVE  /\ op[c] \in Ops
         /\ op[c].at \in {"open", "database", "truncate", "write", "insert"} => op[c] \in CreateOps
         /\ op[c].at \in {"scan", "remove", "list"} => op[c] \in DeleteOps
         /\ op[c].at = "unlink" => op[c] \in UnlinkOps
         /\ op[c].at = "alias" => op[c] \in AliasOps
         /\ op[c].at \in {"clear", "save"} => op[c] \in SaveOps
         /\ op[c].at = "snapshot" => op[c] \in SnapshotOps
         /\ op[c].at = "idle" => op[c] = Idle
<1>1. op[c] \in Ops
  OBVIOUS
<1>2. Idle.at = "idle"
  BY DEF Idle
<1> QED
  BY <1>1, <1>2 DEF Ops, CreateOps, DeleteOps, UnlinkOps, AliasOps, SaveOps, SnapshotOps

LEMMA GotoCreate ==
  ASSUME NEW c \in Callers, op \in [Callers -> Ops], op[c] \in CreateOps,
         NEW at \in {"open", "database", "truncate", "write", "insert"}, Goto(c, at)
  PROVE  /\ op' \in [Callers -> Ops] /\ op'[c] \in CreateOps
         /\ op'[c].at = at /\ op'[c].name = op[c].name /\ op'[c].config = op[c].config
         /\ \A e \in Callers : e # c => op'[e] = op[e]
<1>1. op'[c] = [op[c] EXCEPT !.at = at] /\ DOMAIN op' = Callers
  BY DEF Goto
<1>2. op'[c] \in CreateOps
  BY <1>1 DEF CreateOps
<1>3. \A e \in Callers : e # c => op'[e] = op[e]
  BY DEF Goto
<1>4. op' \in [Callers -> Ops]
  BY <1>2, <1>3 DEF Goto, Ops
<1> QED
  BY <1>1, <1>2, <1>3, <1>4 DEF CreateOps

LEMMA GotoDelete ==
  ASSUME NEW c \in Callers, op \in [Callers -> Ops], op[c] \in DeleteOps,
         NEW at \in {"scan", "remove", "list"}, Goto(c, at)
  PROVE  /\ op' \in [Callers -> Ops] /\ op'[c] \in DeleteOps
         /\ op'[c].at = at /\ op'[c].name = op[c].name
         /\ \A e \in Callers : e # c => op'[e] = op[e]
<1>1. op'[c] = [op[c] EXCEPT !.at = at] /\ DOMAIN op' = Callers
  BY DEF Goto
<1>2. op'[c] \in DeleteOps
  BY <1>1 DEF DeleteOps
<1>3. \A e \in Callers : e # c => op'[e] = op[e]
  BY DEF Goto
<1>4. op' \in [Callers -> Ops]
  BY <1>2, <1>3 DEF Goto, Ops
<1> QED
  BY <1>1, <1>2, <1>3, <1>4 DEF DeleteOps

LEMMA GotoSave ==
  ASSUME NEW c \in Callers, op \in [Callers -> Ops], op[c] \in SaveOps, Goto(c, "save")
  PROVE  /\ op' \in [Callers -> Ops] /\ op'[c] \in SaveOps
         /\ op'[c].at = "save" /\ op'[c].copy = op[c].copy
         /\ \A e \in Callers : e # c => op'[e] = op[e]
<1>1. op'[c] = [op[c] EXCEPT !.at = "save"] /\ DOMAIN op' = Callers
  BY DEF Goto
<1>2. op'[c] \in SaveOps
  BY <1>1 DEF SaveOps
<1>3. \A e \in Callers : e # c => op'[e] = op[e]
  BY DEF Goto
<1>4. op' \in [Callers -> Ops]
  BY <1>2, <1>3 DEF Goto, Ops
<1> QED
  BY <1>1, <1>2, <1>3, <1>4 DEF SaveOps

LEMMA Sets ==
  ASSUME NEW c \in Callers, NEW r \in Ops, op \in [Callers -> Ops], op' = [op EXCEPT ![c] = r]
  PROVE  /\ op' \in [Callers -> Ops] /\ op'[c] = r
         /\ \A e \in Callers : e # c => op'[e] = op[e]
OBVIOUS

LEMMA IdleIsOp == Idle \in Ops /\ Idle.at = "idle"
BY DEF Idle, Ops

LEMMA Returns ==
  ASSUME NEW c \in Callers, op \in [Callers -> Ops], Return(c)
  PROVE  /\ op' \in [Callers -> Ops] /\ op'[c] = Idle
         /\ \A e \in Callers : e # c => op'[e] = op[e]
BY IdleIsOp, Sets DEF Return

LEMMA InitTypes == Init => TypeInv
<1> SUFFICES ASSUME Init PROVE TypeInv
  OBVIOUS
<1>1. NoNames \in [Names -> {None}]
  BY DEF NoNames
<1>2. StoreTyped /\ AliasTyped
  BY <1>1 DEF Init, StoreTyped, AliasTyped
<1>3. op \in [Callers -> Ops] /\ \A c \in Callers : op[c] = Idle
  BY IdleIsOp DEF Init
<1>4. OpenTyped
  <2> SUFFICES ASSUME NEW n \in Names, Referenced(n) PROVE FALSE
    BY DEF OpenTyped
  <2>1. collections[n] = None /\ held = {}
    BY DEF Init, NoNames
  <2>2. ~Opened(op, n)
    BY <1>3, IdleIsOp DEF Opened
  <2> QED
    BY <2>1, <2>2 DEF Referenced
<1>5. ManagerTyped
  BY <1>3 DEF Init, ManagerTyped, Up
<1> QED
  BY <1>2, <1>3, <1>4, <1>5 DEF TypeInv

LEMMA UpStep ==
  ASSUME TypeInv, Up, manager' = manager
  PROVE  ManagerTyped'
BY DEF TypeInv, ManagerTyped, Up, Down

\* Whoever is in the middle of a call, there is a manager.
LEMMA BusyIsUp ==
  ASSUME TypeInv, NEW c \in Callers, op[c].at # "idle"
  PROVE  Up
BY IdleIsOp DEF TypeInv, ManagerTyped

\* One caller moves, and no database is dropped.
LEMMA StillOpen ==
  ASSUME OpenTyped, NEW c \in Callers, \A e \in Callers : e # c => op'[e] = op[e],
         op'[c].at \notin {"truncate", "write", "insert"} \/ pool'[op'[c].name] # None,
         \A n \in Names : collections'[n] # None \/ n \in held' => pool'[n] # None,
         \A n \in Names : pool[n] # None => pool'[n] # None
  PROVE  OpenTyped'
<1> SUFFICES ASSUME NEW n \in Names, Referenced(n)' PROVE pool'[n] # None
  BY DEF OpenTyped
<1>1. CASE collections'[n] # None \/ n \in held'
  BY <1>1
<1>2. CASE Opened(op', n)
  <2>1. PICK e \in Callers : op'[e].at \in {"truncate", "write", "insert"} /\ op'[e].name = n
    BY <1>2 DEF Opened
  <2>2. CASE e = c
    BY <2>1, <2>2
  <2>3. CASE e # c
    BY <2>1, <2>3 DEF OpenTyped, Referenced, Opened
  <2> QED
    BY <2>2, <2>3
<1> QED
  BY <1>1, <1>2 DEF Referenced

\* What is referred to afterwards was open, and stays so.
LEMMA DropKeepsOpen ==
  ASSUME DropUnused, pool \in [Names -> Databases \cup {None}],
         \A n \in Names : Referenced(n)' => pool[n] # None
  PROVE  /\ OpenTyped' /\ pool' \in [Names -> Databases \cup {None}]
         /\ \A n \in Names : Referenced(n)' => pool'[n] = pool[n]
         /\ \A n \in Names : pool'[n] = pool[n] \/ pool'[n] = None
BY DEF DropUnused, Referenced, OpenTyped

LEMMA OpenedStays ==
  ASSUME NEW c \in Callers, \A e \in Callers : e # c => op'[e] = op[e],
         op'[c].at \notin {"truncate", "write", "insert"}, NEW n, Opened(op', n)
  PROVE  Opened(op, n)
BY DEF Opened

LEMMA DatabaseTyped ==
  ASSUME TypeInv, NEW n \in Names, NEW x \in Configs, pool[n] # None \/ disk[n] # None,
         OpenDatabase(n, x)
  PROVE  /\ Database(n, x) \in Databases
         /\ pool' = [pool EXCEPT ![n] = Database(n, x)]
         /\ pool' \in [Names -> Databases \cup {None}]
         /\ disk' \in [Names -> Directories \cup {None}]
         /\ \A m \in Names : m # n => disk'[m] = disk[m] /\ pool'[m] = pool[m]
         /\ pool'[n] = Database(n, x) /\ pool'[n] # None
         /\ pool[n] # None => disk' = disk
         /\ pool[n] = None =>
              /\ disk'[n] \in Directories /\ disk'[n].meta = disk[n].meta
              /\ disk'[n].file = pool'[n].config /\ pool'[n].linked
              /\ pool'[n].config = IF disk[n].file = None THEN x ELSE disk[n].file
<1>0. pool \in [Names -> Databases \cup {None}] /\ disk \in [Names -> Directories \cup {None}]
  BY DEF TypeInv, StoreTyped
<1>1. CASE pool[n] # None
  <2>1. Database(n, x) = pool[n] /\ pool[n] \in Databases
    BY <1>0, <1>1 DEF Database
  <2>2. pool' = [pool EXCEPT ![n] = Database(n, x)] /\ disk' = disk
    BY <1>1 DEF OpenDatabase, WithFile
  <2> QED
    BY <1>0, <1>1, <2>1, <2>2
<1>2. CASE pool[n] = None
  <2>1. disk[n] \in Directories
    BY <1>0, <1>2
  <2>2. PICK x2 : x2 = IF disk[n].file = None THEN x ELSE disk[n].file
    OBVIOUS
  <2>3. x2 \in Configs
    BY <2>1, <2>2 DEF Directories
  <2>4. Database(n, x) = [config |-> x2, linked |-> TRUE]
    BY <1>2, <2>2 DEF Database
  <2>5. Database(n, x) \in Databases /\ Database(n, x).config = x2 /\ Database(n, x).linked
    BY <2>3, <2>4 DEF Databases
  <2>6. pool' = [pool EXCEPT ![n] = Database(n, x)] /\ disk' = [disk EXCEPT ![n].file = x2]
    BY <1>2, <2>5 DEF OpenDatabase, WithFile
  <2>7. [disk[n] EXCEPT !.file = x2] \in Directories
    BY <2>1, <2>3 DEF Directories
  <2>8. disk'[n] = [disk[n] EXCEPT !.file = x2]
    BY <1>0, <2>6
  <2>9. disk'[n] \in Directories /\ disk'[n].meta = disk[n].meta /\ disk'[n].file = x2
    BY <2>1, <2>7, <2>8 DEF Directories
  <2>10. disk' \in [Names -> Directories \cup {None}] /\ \A m \in Names : m # n => disk'[m] = disk[m]
    BY <1>0, <2>6, <2>8, <2>9
  <2> QED
    BY <1>0, <1>2, <2>2, <2>5, <2>6, <2>9, <2>10, CollectionsAssumption
<1> QED
  BY <1>1, <1>2

-----------------------------------------------------------------------------

LEMMA LoadAliasesTypes == TypeInv /\ LoadAliases => TypeInv'
<1> SUFFICES ASSUME TypeInv, LoadAliases PROVE TypeInv'
  OBVIOUS
<1>1. StoreTyped' /\ AliasTyped' /\ op' \in [Callers -> Ops]
  BY DEF TypeInv, LoadAliases, StoreTyped, AliasTyped
<1>2. OpenTyped'
  BY DEF TypeInv, LoadAliases, OpenTyped, Referenced, Opened
<1>3. ManagerTyped'
  BY DEF TypeInv, LoadAliases, ManagerTyped, Up, Down, Loadable
<1> QED
  BY <1>1, <1>2, <1>3 DEF TypeInv

LEMMA LoadCollectionTypes ==
  ASSUME TypeInv, NEW n \in Names, LoadCollection(n)
  PROVE  /\ TypeInv' /\ manager.at = "loading" /\ Loadable(n) /\ disk[n] \in Directories
         /\ disk[n].meta \in Configs
         /\ \A m \in Names : Loadable(m)' <=> Loadable(m)
<1>1. manager.at = "loading" /\ Loadable(n)
  <2>1. n \in manager.todo /\ Down.todo = {}
    BY DEF LoadCollection, Down
  <2>2. manager # Down /\ ~Up
    BY <2>1 DEF TypeInv, ManagerTyped
  <2>3. manager.at \in {"loading", "up"}
    BY <2>2 DEF TypeInv, ManagerTyped
  <2> QED
    BY <2>1, <2>2, <2>3 DEF TypeInv, ManagerTyped, Up
<1>2. disk[n] \in Directories /\ disk[n].meta \in Configs
  BY <1>1, CollectionsAssumption DEF Loadable, TypeInv, StoreTyped, Directories
<1>3. OpenDatabase(n, disk[n].meta)
  BY DEF LoadCollection
<1>4. disk[n] # None
  BY <1>1 DEF Loadable
<1>5. StoreTyped'
  BY <1>2, <1>3, <1>4, DatabaseTyped DEF LoadCollection, TypeInv, StoreTyped
<1>6. AliasTyped' /\ op' \in [Callers -> Ops]
  BY DEF LoadCollection, TypeInv, AliasTyped
<1>7. \A m \in Names : m # n => disk'[m] = disk[m]
  BY <1>2, <1>3, <1>4, DatabaseTyped
<1>8. disk'[n] # None /\ disk'[n].meta = disk[n].meta
  BY <1>2, <1>3, <1>4, DatabaseTyped, CollectionsAssumption
<1>9. \A m \in Names : Loadable(m)' <=> Loadable(m)
  BY <1>1, <1>7, <1>8 DEF Loadable
<1>10. ManagerTyped'
  <2>1. manager \in [at : {"loading", "up"}, todo : SUBSET Names]
    BY <1>1 DEF TypeInv, ManagerTyped, Down
  <2>2. manager' = [manager EXCEPT !.todo = manager.todo \ {n}]
    BY DEF LoadCollection
  <2>3. manager' \in [at : {"loading", "up"}, todo : SUBSET Names] /\ manager'.at = "loading"
        /\ manager'.todo \subseteq manager.todo
    BY <1>1, <2>1, <2>2
  <2> QED
    BY <1>1, <1>9, <2>1, <2>3 DEF ManagerTyped, TypeInv, LoadCollection, Up
<1>11. OpenTyped'
  BY <1>2, <1>3, <1>4, DatabaseTyped DEF LoadCollection, TypeInv, StoreTyped, OpenTyped, Referenced, Opened
<1> QED
  BY <1>1, <1>2, <1>5, <1>6, <1>9, <1>10, <1>11 DEF TypeInv

\* Whether the failed opening made a file or not.
LEMMA LoadFailsTypes ==
  ASSUME TypeInv, NEW n \in Names, LoadFails(n)
  PROVE  /\ TypeInv' /\ manager.at = "loading" /\ manager'.at = "loading"
         /\ manager'.todo = manager.todo \ {n} /\ disk[n].meta \in Configs
         /\ \A m \in Names : m # n => disk'[m] = disk[m]
         /\ disk'[n] # None /\ disk'[n].meta = disk[n].meta
         /\ \/ disk'[n].file = disk[n].file \/ pool[n] # None
            \/ disk'[n].file = IF disk[n].file = None THEN disk[n].meta ELSE disk[n].file
         /\ \A m \in Names : Loadable(m)' <=> Loadable(m)
<1>1. manager.at = "loading" /\ Loadable(n)
  <2>1. n \in manager.todo /\ Down.todo = {}
    BY DEF LoadFails, Down
  <2>2. manager # Down /\ ~Up
    BY <2>1 DEF TypeInv, ManagerTyped
  <2>3. manager.at \in {"loading", "up"}
    BY <2>2 DEF TypeInv, ManagerTyped
  <2> QED
    BY <2>1, <2>2, <2>3 DEF TypeInv, ManagerTyped, Up
<1>2. disk \in [Names -> Directories \cup {None}] /\ disk[n] \in Directories
      /\ disk[n] # None /\ disk[n].meta \in Configs
  BY <1>1 DEF Loadable, TypeInv, StoreTyped
<1>3. PICK x \in Configs : x = IF disk[n].file = None THEN disk[n].meta ELSE disk[n].file
  BY <1>2 DEF Directories
<1>4. disk' = disk \/ (pool[n] = None /\ disk' = [disk EXCEPT ![n].file = x])
  <2>1. WithFile(n, disk[n].meta) = IF pool[n] = None THEN [disk EXCEPT ![n].file = x] ELSE disk
    BY <1>3 DEF WithFile, Database
  <2> QED
    BY <2>1 DEF LoadFails
<1>5. /\ disk' \in [Names -> Directories \cup {None}]
      /\ \A m \in Names : m # n => disk'[m] = disk[m]
      /\ disk'[n] \in Directories /\ disk'[n] # None /\ disk'[n].meta = disk[n].meta
      /\ disk'[n].file \in {disk[n].file, x}
  <2>1. CASE disk' = disk
    BY <1>2, <2>1
  <2>2. CASE disk' = [disk EXCEPT ![n].file = x]
    <3>1. [disk[n] EXCEPT !.file = x] \in Directories
      BY <1>2 DEF Directories
    <3>2. disk'[n] = [disk[n] EXCEPT !.file = x] /\ DOMAIN disk' = Names
          /\ \A m \in Names : m # n => disk'[m] = disk[m]
      BY <1>2, <2>2
    <3>3. disk'[n] \in Directories /\ disk'[n].meta = disk[n].meta /\ disk'[n].file = x
      BY <1>2, <3>1, <3>2 DEF Directories
    <3> QED
      BY <1>2, <2>2, <3>2, <3>3, CollectionsAssumption
  <2> QED
    BY <1>4, <2>1, <2>2
<1>6. \A m \in Names : Loadable(m)' <=> Loadable(m)
  BY <1>1, <1>2, <1>5 DEF Loadable
<1>7. UNCHANGED <<aliasing, collections, pool, held, op, reused>> /\ failed' = failed \cup {n}
      /\ manager' = [manager EXCEPT !.todo = manager.todo \ {n}]
  BY DEF LoadFails
<1>8. manager' \in [at : {"loading", "up"}, todo : SUBSET Names] /\ manager'.at = "loading"
      /\ manager'.todo = manager.todo \ {n}
  BY <1>1, <1>7 DEF TypeInv, ManagerTyped, Down
<1>9. StoreTyped' /\ AliasTyped' /\ op' \in [Callers -> Ops] /\ OpenTyped'
  BY <1>5, <1>7 DEF TypeInv, StoreTyped, AliasTyped, OpenTyped, Referenced, Opened
<1>10. ManagerTyped'
  BY <1>1, <1>6, <1>7, <1>8 DEF TypeInv, ManagerTyped, Up
<1> QED
  BY <1>1, <1>2, <1>3, <1>5, <1>6, <1>8, <1>9, <1>10 DEF TypeInv

LEMMA LoadedTypes == TypeInv /\ Loaded => TypeInv'
<1> SUFFICES ASSUME TypeInv, Loaded PROVE TypeInv'
  OBVIOUS
<1>1. StoreTyped' /\ AliasTyped' /\ op' \in [Callers -> Ops]
  BY DEF TypeInv, Loaded, StoreTyped, AliasTyped
<1>2. OpenTyped'
  BY DEF TypeInv, Loaded, OpenTyped, Referenced, Opened
<1>3. manager' \in [at : {"loading", "up"}, todo : SUBSET Names] /\ manager'.at = "up"
      /\ manager'.todo = {}
  BY DEF Loaded
<1>4. ManagerTyped'
  BY <1>3 DEF ManagerTyped, Up
<1> QED
  BY <1>1, <1>2, <1>4 DEF TypeInv

LEMMA CrashTypes == TypeInv /\ Crash => TypeInv' /\ \A c \in Callers : op'[c] = Idle
<1> SUFFICES ASSUME TypeInv, Crash PROVE TypeInv' /\ \A c \in Callers : op'[c] = Idle
  OBVIOUS
<1>1. NoNames \in [Names -> {None}]
  BY DEF NoNames
<1>2. StoreTyped' /\ AliasTyped'
  BY <1>1 DEF Crash, StoreTyped, AliasTyped, TypeInv
<1>3. op' \in [Callers -> Ops] /\ \A c \in Callers : op'[c] = Idle
  BY IdleIsOp DEF Crash
<1>4. OpenTyped'
  <2> SUFFICES ASSUME NEW n \in Names, Referenced(n)' PROVE FALSE
    BY DEF OpenTyped
  <2>1. collections'[n] = None /\ held' = {}
    BY DEF Crash, NoNames
  <2>2. ~Opened(op', n)
    BY <1>3, IdleIsOp DEF Opened
  <2> QED
    BY <2>1, <2>2 DEF Referenced
<1>5. ManagerTyped'
  BY <1>3 DEF Crash, ManagerTyped, Down
<1> QED
  BY <1>2, <1>3, <1>4, <1>5 DEF TypeInv

-----------------------------------------------------------------------------
(* Calls begin                                                             *)

\* Only op changes, or aliases with it, and nothing is opened.
LEMMA CallTypes ==
  ASSUME TypeInv, Up, NEW c \in Callers, NEW r \in Ops,
         r.at \notin {"truncate", "write", "insert"}, op' = [op EXCEPT ![c] = r],
         UNCHANGED <<collections, pool, held, disk, manager, reused, failed>>,
         AliasTyped'
  PROVE  TypeInv'
<1>1. StoreTyped'
  BY DEF TypeInv, StoreTyped
<1>2. op' \in [Callers -> Ops] /\ op'[c] = r /\ \A e \in Callers : e # c => op'[e] = op[e]
  BY Sets DEF TypeInv
<1>3. OpenTyped'
  <2> SUFFICES ASSUME NEW n \in Names, Referenced(n)' PROVE pool[n] # None
    BY DEF OpenTyped
  <2>1. Referenced(n)
    BY <1>2, OpenedStays DEF Referenced
  <2> QED
    BY <2>1 DEF TypeInv, OpenTyped
<1> QED
  BY <1>1, <1>2, <1>3, UpStep DEF TypeInv

LEMMA CheckNameTypes ==
  ASSUME TypeInv, NEW c \in Callers, NEW n \in Names, NEW x \in Configs, CheckName(c, n, x)
  PROVE  /\ TypeInv' /\ Up /\ op[c] = Idle
         /\ op'[c] \in CreateOps /\ op'[c].at = "open" /\ op'[c].name = n
         /\ op'[c].config = x
         /\ \A e \in Callers : e # c => op'[e] = op[e]
<1> DEFINE r == [at |-> "open", name |-> n, config |-> x]
<1>1. r \in CreateOps /\ r.at = "open" /\ r.name = n /\ r.config = x
  BY DEF CreateOps
<1>2. r \in Ops
  BY <1>1 DEF Ops
<1>3. op' = [op EXCEPT ![c] = r] /\ Up /\ op[c] = Idle
  BY DEF CheckName, Begin, MayBegin
<1>4. AliasTyped'
  BY DEF TypeInv, AliasTyped, CheckName
<1> HIDE DEF r
<1>5. UNCHANGED <<collections, pool, held, disk, manager, reused, failed>>
  BY DEF CheckName
<1> QED
  BY <1>1, <1>2, <1>3, <1>4, <1>5, CallTypes, Sets DEF TypeInv

LEMMA CheckExistsTypes ==
  ASSUME TypeInv, NEW c \in Callers, NEW n \in Names, CheckExists(c, n)
  PROVE  /\ TypeInv' /\ Up /\ op[c] = Idle
         /\ op'[c] \in DeleteOps /\ op'[c].at = "scan" /\ op'[c].name = n
         /\ \A e \in Callers : e # c => op'[e] = op[e]
<1> DEFINE r == [at |-> "scan", name |-> n]
<1>1. r \in DeleteOps /\ r.at = "scan" /\ r.name = n
  BY DEF DeleteOps
<1>2. r \in Ops
  BY <1>1 DEF Ops
<1>3. op' = [op EXCEPT ![c] = r] /\ Up /\ op[c] = Idle
  BY DEF CheckExists, Begin, MayBegin
<1>4. AliasTyped'
  BY DEF TypeInv, AliasTyped, CheckExists
<1> HIDE DEF r
<1>5. UNCHANGED <<collections, pool, held, disk, manager, reused, failed>>
  BY DEF CheckExists
<1> QED
  BY <1>1, <1>2, <1>3, <1>4, <1>5, CallTypes, Sets DEF TypeInv

LEMMA CheckAliasTypes ==
  ASSUME TypeInv, NEW c \in Callers, NEW n \in Names, NEW a \in Names,
         CheckNewAlias(c, a, n) \/ CheckSwitch(c, a, n)
  PROVE  /\ TypeInv' /\ Up /\ op[c] = Idle
         /\ op'[c] \in AliasOps /\ op'[c].at = "alias" /\ op'[c].name = a
         /\ op'[c].target = n
         /\ \A e \in Callers : e # c => op'[e] = op[e]
         /\ UNCHANGED <<aliasing, storing, manager>>
<1> DEFINE r == [at |-> "alias", name |-> a, target |-> n]
<1>1. r \in AliasOps /\ r.at = "alias" /\ r.name = a /\ r.target = n
  BY DEF AliasOps
<1>2. r \in Ops
  BY <1>1 DEF Ops
<1>3. op' = [op EXCEPT ![c] = r] /\ Up /\ op[c] = Idle
  BY DEF CheckNewAlias, CheckSwitch, Begin, MayBegin
<1>5. UNCHANGED <<aliasing, storing, manager>>
  BY DEF CheckNewAlias, CheckSwitch
<1>4. AliasTyped'
  BY <1>5 DEF TypeInv, AliasTyped
<1> HIDE DEF r
<1> QED
  BY <1>1, <1>2, <1>3, <1>4, <1>5, CallTypes, Sets DEF TypeInv

LEMMA SnapshotOpIs ==
  [at |-> "snapshot"] \in Ops /\ [at |-> "snapshot"].at = "snapshot"
BY DEF Ops, SnapshotOps

LEMMA DeleteAliasTypes ==
  ASSUME TypeInv, NEW c \in Callers, NEW a \in Names, DeleteAlias(c, a)
  PROVE  /\ TypeInv' /\ Up /\ op[c] = Idle /\ op'[c].at = "snapshot"
         /\ \A e \in Callers : e # c => op'[e] = op[e]
         /\ UNCHANGED <<storing, aliasFile, stray, manager>>
<1>1. op' = [op EXCEPT ![c] = [at |-> "snapshot"]] /\ Up /\ op[c] = Idle
  BY DEF DeleteAlias, Begin, MayBegin
<1>2. UNCHANGED <<storing, aliasFile, stray, manager>>
  BY DEF DeleteAlias
<1>3. AliasTyped'
  BY DEF TypeInv, AliasTyped, DeleteAlias
<1> QED
  BY <1>1, <1>2, <1>3, SnapshotOpIs, CallTypes, Sets DEF TypeInv

-----------------------------------------------------------------------------
(* create_collection goes on                                               *)

LEMMA MakeDirectoryTypes ==
  ASSUME TypeInv, NEW c \in Callers, MakeDirectory(c)
  PROVE  /\ TypeInv' /\ Up /\ op[c] \in CreateOps
         /\ op'[c].at = "database" /\ op'[c].name = op[c].name
         /\ op'[c].config = op[c].config
         /\ \A e \in Callers : e # c => op'[e] = op[e]
         /\ \A m \in Names : disk[m] # None => disk'[m] = disk[m]
         /\ \A m \in Names : Loadable(m)' <=> Loadable(m)
         /\ \A m \in Names : m # op[c].name => disk'[m] = disk[m]
<1>1. op[c] \in CreateOps /\ Up
  BY OpShapes, BusyIsUp DEF MakeDirectory, TypeInv
<1>2. PICK n \in Names : n = op[c].name
  BY <1>1 DEF CreateOps
<1>3. /\ op' \in [Callers -> Ops] /\ op'[c] \in CreateOps /\ op'[c].at = "database"
      /\ op'[c].name = op[c].name /\ op'[c].config = op[c].config
      /\ \A e \in Callers : e # c => op'[e] = op[e]
  BY <1>1, GotoCreate DEF MakeDirectory, TypeInv
<1> DEFINE empty == [meta |-> None, file |-> None]
<1>4. empty \in Directories /\ empty.meta = None
  BY DEF Directories
<1> HIDE DEF empty
<1>5. disk' = IF disk[n] = None THEN [disk EXCEPT ![n] = empty] ELSE disk
  BY <1>2 DEF MakeDirectory, empty
<1>6. StoreTyped'
  BY <1>4, <1>5 DEF TypeInv, StoreTyped, MakeDirectory
<1>7. \A m \in Names : disk'[m] = disk[m] \/ (disk[m] = None /\ disk'[m] = empty /\ m = n)
  BY <1>5 DEF TypeInv, StoreTyped
<1>8. \A m \in Names : Loadable(m)' <=> Loadable(m)
  BY <1>4, <1>7, CollectionsAssumption DEF Loadable
<1>9. AliasTyped'
  BY DEF TypeInv, AliasTyped, MakeDirectory
<1>10. OpenTyped'
  BY <1>3, StillOpen DEF TypeInv, OpenTyped, Referenced, MakeDirectory
<1>11. ManagerTyped'
  BY <1>1, UpStep DEF MakeDirectory
<1> QED
  BY <1>1, <1>2, <1>3, <1>6, <1>7, <1>8, <1>9, <1>10, <1>11 DEF TypeInv

\* What Collection::new leaves, when it finds or makes a database.
LEMMA NewCollectionTypes ==
  ASSUME TypeInv, NEW c \in Callers, NewCollection(c)
  PROVE  /\ TypeInv' /\ Up /\ op[c] \in CreateOps
         /\ \A e \in Callers : e # c => op'[e] = op[e]
         /\ \A m \in Names : Loadable(m)' <=> Loadable(m)
         /\ \A m \in Names : m # op[c].name =>
              disk'[m] = disk[m] /\ pool'[m] = pool[m] /\ reused'[m] = reused[m]
         /\ \/ op'[c] = Idle /\ UNCHANGED <<disk, reused>>
            \/ /\ op'[c].at = "truncate" /\ op'[c].name = op[c].name
               /\ op'[c].config = op[c].config
               /\ Loadable(op[c].name) => reused'[op[c].name]
               /\ \/ reused'[op[c].name]
                  \/ /\ pool'[op[c].name].linked
                     /\ disk'[op[c].name].file = pool'[op[c].name].config
                     /\ pool'[op[c].name].config = op[c].config
<1>1. op[c] \in CreateOps /\ Up /\ op[c].at = "database"
  BY OpShapes, BusyIsUp DEF NewCollection, TypeInv
<1>2. PICK n \in Names : n = op[c].name
  BY <1>1 DEF CreateOps
<1>3. AliasTyped'
  BY DEF TypeInv, AliasTyped, NewCollection
<1>4. ManagerTyped'
  BY <1>1, UpStep DEF NewCollection
<1>5. CASE pool[n] = None /\ disk[n] = None
  <2>1. Return(c) /\ UNCHANGED <<pool, disk, reused, collections, held, failed>>
    BY <1>2, <1>5 DEF NewCollection
  <2>2. op' \in [Callers -> Ops] /\ op'[c] = Idle /\ \A e \in Callers : e # c => op'[e] = op[e]
    BY <2>1, Returns DEF TypeInv
  <2>3. StoreTyped'
    BY <2>1 DEF TypeInv, StoreTyped
  <2>4. OpenTyped'
    BY <2>1, <2>2, IdleIsOp, StillOpen DEF TypeInv, OpenTyped, Referenced
  <2> QED
    BY <1>1, <1>2, <1>3, <1>4, <2>1, <2>2, <2>3, <2>4 DEF TypeInv, Loadable
<1>6. CASE pool[n] # None \/ disk[n] # None
  <2> DEFINE found == pool[n] # None \/ disk[n].file # None \/ Loadable(n)
  <2>0. PICK x \in Configs : x = op[c].config
    BY <1>1 DEF CreateOps
  <2>1. /\ OpenDatabase(n, x) /\ reused' = [reused EXCEPT ![n] = found]
        /\ Goto(c, "truncate") /\ UNCHANGED <<collections, held, failed>>
    BY <1>2, <1>6, <2>0 DEF NewCollection
  <2>2. found \in BOOLEAN
    OBVIOUS
  <2>3. /\ op' \in [Callers -> Ops] /\ op'[c] \in CreateOps /\ op'[c].at = "truncate"
        /\ op'[c].name = op[c].name /\ op'[c].config = op[c].config
        /\ \A e \in Callers : e # c => op'[e] = op[e]
    BY <1>1, <2>1, GotoCreate DEF TypeInv
  <2>4. /\ pool' \in [Names -> Databases \cup {None}]
        /\ disk' \in [Names -> Directories \cup {None}]
        /\ \A m \in Names : m # n => disk'[m] = disk[m] /\ pool'[m] = pool[m]
        /\ pool'[n] # None
        /\ pool[n] # None => disk' = disk
        /\ pool[n] = None =>
             /\ disk'[n] \in Directories /\ disk'[n].meta = disk[n].meta
             /\ disk'[n].file = pool'[n].config /\ pool'[n].linked
             /\ pool'[n].config = IF disk[n].file = None THEN x ELSE disk[n].file
    BY <1>6, <2>1, DatabaseTyped
  <2>5. reused' \in [Names -> BOOLEAN] /\ reused'[n] = found
        /\ \A m \in Names : m # n => reused'[m] = reused[m]
    <3> HIDE DEF found
    <3> QED
      BY <2>1, <2>2 DEF TypeInv, StoreTyped
  <2>6. StoreTyped'
    BY <2>1, <2>4, <2>5 DEF TypeInv, StoreTyped
  <2>7. OpenTyped'
    BY <1>2, <2>1, <2>3, <2>4, StillOpen DEF TypeInv, OpenTyped, Referenced
  <2>8. \A m \in Names : Loadable(m)' <=> Loadable(m)
    <3>1. Loadable(n)' <=> Loadable(n)
      BY <1>6, <2>4, CollectionsAssumption DEF Loadable
    <3> QED
      BY <2>4, <3>1 DEF Loadable
  <2>9. \/ reused'[n]
        \/ pool'[n].linked /\ disk'[n].file = pool'[n].config /\ pool'[n].config = x
    BY <2>4, <2>5
  <2> QED
    BY <1>1, <1>2, <1>3, <1>4, <2>0, <2>3, <2>4, <2>5, <2>6, <2>7, <2>8, <2>9 DEF TypeInv
<1> QED
  BY <1>5, <1>6

LEMMA OpenedGoesOn ==
  ASSUME NEW c \in Callers, \A e \in Callers : e # c => op'[e] = op[e],
         op[c].at \in {"truncate", "write", "insert"}, op'[c].name = op[c].name, NEW n,
         Opened(op', n)
  PROVE  Opened(op, n)
BY DEF Opened

\* The metadata of n becomes x.
LEMMA MetaSet ==
  ASSUME TypeInv, NEW n \in Names, disk[n] # None, NEW x \in Configs \cup {None, Empty, Torn},
         disk' = [disk EXCEPT ![n].meta = x]
  PROVE  /\ disk' \in [Names -> Directories \cup {None}]
         /\ disk'[n] # None /\ disk'[n] \in Directories /\ disk'[n].meta = x
         /\ disk'[n].file = disk[n].file
         /\ \A m \in Names : m # n => disk'[m] = disk[m]
<1>1. disk \in [Names -> Directories \cup {None}] /\ disk[n] \in Directories
  BY DEF TypeInv, StoreTyped
<1>2. [disk[n] EXCEPT !.meta = x] \in Directories
  BY <1>1 DEF Directories
<1>3. disk'[n] = [disk[n] EXCEPT !.meta = x] /\ DOMAIN disk' = Names
  BY <1>1
<1>4. disk'[n] \in Directories /\ disk'[n].meta = x /\ disk'[n].file = disk[n].file
  BY <1>1, <1>2, <1>3 DEF Directories
<1>5. \A m \in Names : m # n => disk'[m] = disk[m]
  BY <1>1
<1>6. disk' \in [Names -> Directories \cup {None}]
  BY <1>1, <1>4, <1>5
<1> QED
  BY <1>4, <1>5, <1>6, CollectionsAssumption

LEMMA TruncateMetadataTypes ==
  ASSUME TypeInv, NEW c \in Callers, TruncateMetadata(c)
  PROVE  /\ TypeInv' /\ Up /\ op[c] \in CreateOps
         /\ \A e \in Callers : e # c => op'[e] = op[e]
         /\ \A m \in Names : m # op[c].name => disk'[m] = disk[m]
         /\ \A m \in Names : Referenced(m)' => pool'[m] = pool[m]
         /\ \/ op'[c] = Idle /\ disk[op[c].name] = None /\ disk' = disk
            \/ /\ op'[c].at = "write" /\ op'[c].name = op[c].name
               /\ op'[c].config = op[c].config
               /\ disk'[op[c].name] # None
               /\ disk'[op[c].name].meta = Empty
               /\ disk'[op[c].name].file = disk[op[c].name].file
<1>1. op[c] \in CreateOps /\ Up /\ op[c].at = "truncate"
  BY OpShapes, BusyIsUp DEF TruncateMetadata, TypeInv
<1>2. PICK n \in Names : n = op[c].name
  BY <1>1 DEF CreateOps
<1>3. AliasTyped'
  BY DEF TypeInv, AliasTyped, TruncateMetadata
<1>4. ManagerTyped'
  BY <1>1, UpStep DEF TruncateMetadata
<1>5. DropUnused /\ UNCHANGED <<collections, held, reused, failed>>
  BY DEF TruncateMetadata
<1>6. pool \in [Names -> Databases \cup {None}]
  BY DEF TypeInv, StoreTyped
<1>7. CASE disk[n] = None
  <2>1. Return(c) /\ disk' = disk
    BY <1>2, <1>7 DEF TruncateMetadata
  <2>2. op' \in [Callers -> Ops] /\ op'[c] = Idle /\ \A e \in Callers : e # c => op'[e] = op[e]
    BY <2>1, Returns DEF TypeInv
  <2>3. \A m \in Names : Referenced(m)' => pool[m] # None
    BY <1>5, <2>2, OpenedStays, IdleIsOp DEF Referenced, TypeInv, OpenTyped
  <2>4. /\ OpenTyped' /\ pool' \in [Names -> Databases \cup {None}]
        /\ \A m \in Names : Referenced(m)' => pool'[m] = pool[m]
    BY <1>5, <1>6, <2>3, DropKeepsOpen
  <2>5. StoreTyped'
    BY <1>5, <2>1, <2>4 DEF TypeInv, StoreTyped
  <2> QED
    BY <1>1, <1>2, <1>3, <1>4, <1>7, <2>1, <2>2, <2>4, <2>5 DEF TypeInv
<1>8. CASE disk[n] # None
  <2>1. Goto(c, "write") /\ disk' = [disk EXCEPT ![n].meta = Empty]
    BY <1>2, <1>8 DEF TruncateMetadata
  <2>2. /\ op' \in [Callers -> Ops] /\ op'[c] \in CreateOps /\ op'[c].at = "write"
        /\ op'[c].name = op[c].name /\ op'[c].config = op[c].config
        /\ \A e \in Callers : e # c => op'[e] = op[e]
    BY <1>1, <2>1, GotoCreate DEF TypeInv
  <2>3. \A m \in Names : Referenced(m)' => pool[m] # None
    BY <1>1, <1>5, <2>2, OpenedGoesOn DEF Referenced, TypeInv, OpenTyped
  <2>4. /\ OpenTyped' /\ pool' \in [Names -> Databases \cup {None}]
        /\ \A m \in Names : Referenced(m)' => pool'[m] = pool[m]
    BY <1>5, <1>6, <2>3, DropKeepsOpen
  <2>5. /\ disk' \in [Names -> Directories \cup {None}]
        /\ disk'[n] # None /\ disk'[n] \in Directories /\ disk'[n].meta = Empty
        /\ disk'[n].file = disk[n].file
        /\ \A m \in Names : m # n => disk'[m] = disk[m]
    BY <1>8, <2>1, MetaSet
  <2>6. StoreTyped'
    BY <1>5, <2>4, <2>5 DEF TypeInv, StoreTyped
  <2> QED
    BY <1>1, <1>2, <1>3, <1>4, <2>2, <2>4, <2>5, <2>6 DEF TypeInv
<1> QED
  BY <1>7, <1>8

\* What Rewritten does to the disk.
LEMMA RewrittenTyped ==
  ASSUME TypeInv, NEW n \in Names, NEW contents, contents \subseteq Configs \cup {None, Empty, Torn},
         disk' \in Rewritten(n, contents)
  PROVE  /\ disk' \in [Names -> Directories \cup {None}]
         /\ \A m \in Names : m # n => disk'[m] = disk[m]
         /\ disk[n] = None \/ disk[n].meta = None => disk' = disk
         /\ disk[n] # None /\ disk[n].meta # None =>
              /\ disk'[n] # None /\ disk'[n].meta \in contents
              /\ disk'[n].file = disk[n].file
<1>1. CASE disk[n] = None \/ disk[n].meta = None
  BY <1>1 DEF Rewritten, TypeInv, StoreTyped
<1>2. CASE disk[n] # None /\ disk[n].meta # None
  <2>1. PICK x \in contents : disk' = [disk EXCEPT ![n].meta = x]
    BY <1>2 DEF Rewritten
  <2>2. x \in Configs \cup {None, Empty, Torn}
    OBVIOUS
  <2> QED
    BY <1>2, <2>1, <2>2, MetaSet
<1> QED
  BY <1>1, <1>2

LEMMA WriteMetadataTypes ==
  ASSUME TypeInv, NEW c \in Callers, WriteMetadata(c)
  PROVE  /\ TypeInv' /\ Up /\ op[c] \in CreateOps
         /\ op'[c].at = "insert" /\ op'[c].name = op[c].name
         /\ op'[c].config = op[c].config
         /\ \A e \in Callers : e # c => op'[e] = op[e]
         /\ \A m \in Names : m # op[c].name => disk'[m] = disk[m]
         /\ disk[op[c].name] # None /\ disk[op[c].name].meta = Empty =>
              /\ disk'[op[c].name] # None
              /\ disk'[op[c].name].meta = op[c].config
              /\ disk'[op[c].name].file = disk[op[c].name].file
<1>1. op[c] \in CreateOps /\ Up /\ op[c].at = "write"
  BY OpShapes, BusyIsUp DEF WriteMetadata, TypeInv
<1>2. PICK n \in Names : n = op[c].name
  BY <1>1 DEF CreateOps
<1>3. PICK x \in Configs : x = op[c].config
  BY <1>1 DEF CreateOps
<1>4. AliasTyped' /\ ManagerTyped'
  BY <1>1, UpStep DEF TypeInv, AliasTyped, WriteMetadata
<1>5. /\ op' \in [Callers -> Ops] /\ op'[c] \in CreateOps /\ op'[c].at = "insert"
      /\ op'[c].name = op[c].name /\ op'[c].config = op[c].config
      /\ \A e \in Callers : e # c => op'[e] = op[e]
  BY <1>1, GotoCreate DEF TypeInv, WriteMetadata
<1>6. UNCHANGED <<collections, pool, held, reused, failed>>
  BY DEF WriteMetadata
<1> DEFINE contents == Written(disk[n].meta, x)
<1>7. contents \subseteq Configs \cup {None, Empty, Torn} /\ (disk[n].meta = Empty => contents = {x})
  BY DEF Written
<1>8. disk' \in Rewritten(n, contents)
  BY <1>2, <1>3 DEF WriteMetadata
<1> HIDE DEF contents
<1>9. /\ disk' \in [Names -> Directories \cup {None}]
      /\ \A m \in Names : m # n => disk'[m] = disk[m]
      /\ disk[n] # None /\ disk[n].meta # None =>
           disk'[n] # None /\ disk'[n].meta \in contents /\ disk'[n].file = disk[n].file
  BY <1>7, <1>8, RewrittenTyped
<1>10. StoreTyped'
  BY <1>6, <1>9 DEF TypeInv, StoreTyped
<1>11. OpenTyped'
  <2> SUFFICES ASSUME NEW m \in Names, Referenced(m)' PROVE pool[m] # None
    BY <1>6 DEF OpenTyped
  <2> QED
    BY <1>1, <1>5, <1>6, OpenedGoesOn DEF Referenced, TypeInv, OpenTyped
<1>12. TypeInv'
  BY <1>4, <1>5, <1>10, <1>11 DEF TypeInv
<1>13. Empty # None
  BY CollectionsAssumption
<1> QED
  BY <1>1, <1>2, <1>3, <1>5, <1>7, <1>9, <1>12, <1>13

\* What a create leaves that fails: at most metadata that cannot be read.
LEMMA CreateFailsTypes ==
  ASSUME TypeInv, NEW c \in Callers, CreateFails(c)
  PROVE  /\ TypeInv' /\ Up /\ op[c] \in CreateOps /\ op'[c] = Idle
         /\ \A e \in Callers : e # c => op'[e] = op[e]
         /\ \A m \in Names : m # op[c].name => disk'[m] = disk[m]
         /\ \A m \in Names : Loadable(m)' => disk'[m] = disk[m] /\ Loadable(m)
         /\ op[c].at # "write" => disk' = disk
         /\ \A m \in Names : Referenced(m)' => pool'[m] = pool[m]
<1>1. op[c] \in CreateOps /\ Up
  BY OpShapes, BusyIsUp DEF CreateFails, TypeInv
<1>2. PICK n \in Names : n = op[c].name
  BY <1>1 DEF CreateOps
<1>3. AliasTyped' /\ ManagerTyped'
  BY <1>1, UpStep DEF TypeInv, AliasTyped, CreateFails
<1>4. UNCHANGED <<collections, held, reused, failed>> /\ DropUnused
  BY DEF CreateFails
<1>5. op' \in [Callers -> Ops] /\ op'[c] = Idle /\ \A e \in Callers : e # c => op'[e] = op[e]
  BY Returns DEF TypeInv, CreateFails
<1>6. /\ disk' \in [Names -> Directories \cup {None}]
      /\ \A m \in Names : m # n => disk'[m] = disk[m]
      /\ Loadable(n)' => disk'[n] = disk[n]
      /\ op[c].at # "write" => disk' = disk
  <2>1. CASE disk' = disk
    BY <2>1 DEF TypeInv, StoreTyped
  <2>2. CASE op[c].at = "write" /\ disk' \in Rewritten(n, {Torn})
    <3>1. /\ disk' \in [Names -> Directories \cup {None}]
          /\ \A m \in Names : m # n => disk'[m] = disk[m]
          /\ disk' = disk \/ disk'[n].meta = Torn
      BY <2>2, RewrittenTyped
    <3> QED
      BY <2>2, <3>1, CollectionsAssumption DEF Loadable
  <2> QED
    BY <1>2, <2>1, <2>2 DEF CreateFails
<1>7. \A m \in Names : Loadable(m)' => disk'[m] = disk[m] /\ Loadable(m)
  BY <1>6 DEF Loadable
<1>8. \A m \in Names : Referenced(m)' => pool[m] # None
  BY <1>4, <1>5, OpenedStays, IdleIsOp DEF Referenced, TypeInv, OpenTyped
<1>9. /\ OpenTyped' /\ pool' \in [Names -> Databases \cup {None}]
      /\ \A m \in Names : Referenced(m)' => pool'[m] = pool[m]
  BY <1>4, <1>8, DropKeepsOpen DEF TypeInv, StoreTyped
<1>10. StoreTyped'
  BY <1>4, <1>6, <1>9 DEF TypeInv, StoreTyped
<1> QED
  BY <1>1, <1>2, <1>3, <1>5, <1>6, <1>7, <1>9, <1>10 DEF TypeInv

LEMMA InsertCollectionTypes ==
  ASSUME TypeInv, NEW c \in Callers, InsertCollection(c)
  PROVE  /\ TypeInv' /\ Up /\ op[c] \in CreateOps /\ op[c].config \in Configs
         /\ op'[c] = Idle /\ \A e \in Callers : e # c => op'[e] = op[e]
         /\ collections'[op[c].name] = op[c].config /\ collections'[op[c].name] # None
         /\ \A m \in Names : m # op[c].name => collections'[m] = collections[m]
<1>1. op[c] \in CreateOps /\ Up /\ op[c].at = "insert"
  BY OpShapes, BusyIsUp DEF InsertCollection, TypeInv
<1>2. PICK n \in Names : n = op[c].name
  BY <1>1 DEF CreateOps
<1>3. PICK x \in Configs : x = op[c].config
  BY <1>1 DEF CreateOps
<1>4. AliasTyped' /\ ManagerTyped'
  BY <1>1, UpStep DEF TypeInv, AliasTyped, InsertCollection
<1>5. op' \in [Callers -> Ops] /\ op'[c] = Idle /\ \A e \in Callers : e # c => op'[e] = op[e]
  BY Returns DEF TypeInv, InsertCollection
<1>6. UNCHANGED <<pool, held, disk, reused>> /\ collections' = [collections EXCEPT ![n] = x]
  BY <1>2, <1>3 DEF InsertCollection
<1>9. failed' = failed \ {n}
  BY <1>2 DEF InsertCollection
<1>7. StoreTyped' /\ collections'[n] = x /\ \A m \in Names : m # n => collections'[m] = collections[m]
  BY <1>6, <1>9 DEF TypeInv, StoreTyped
<1>8. OpenTyped'
  <2> SUFFICES ASSUME NEW m \in Names, Referenced(m)' PROVE pool[m] # None
    BY <1>6 DEF OpenTyped
  <2>1. CASE m = n
    <3>1. Opened(op, n)
      BY <1>1, <1>2 DEF Opened
    <3> QED
      BY <2>1, <3>1 DEF Referenced, TypeInv, OpenTyped
  <2>2. CASE m # n
    BY <1>5, <1>6, <1>7, <2>2, OpenedStays, IdleIsOp DEF Referenced, TypeInv, OpenTyped
  <2> QED
    BY <2>1, <2>2
<1> QED
  BY <1>1, <1>2, <1>3, <1>4, <1>5, <1>7, <1>8, CollectionsAssumption DEF TypeInv

-----------------------------------------------------------------------------
(* delete_collection goes on                                               *)

LEMMA ScanAliasesTypes ==
  ASSUME TypeInv, NEW c \in Callers, ScanAliases(c)
  PROVE  /\ TypeInv' /\ Up /\ op[c] \in DeleteOps
         /\ \A e \in Callers : e # c => op'[e] = op[e]
         /\ \/ op'[c] = Idle
            \/ /\ op'[c].at = "remove" /\ op'[c].name = op[c].name
               /\ \A a \in Names : aliases[a] # op[c].name
<1>1. op[c] \in DeleteOps /\ Up /\ op[c].at = "scan"
  BY OpShapes, BusyIsUp DEF ScanAliases, TypeInv
<1>2. UNCHANGED <<collections, pool, held, disk, reused, failed>>
  BY DEF ScanAliases
<1>3. AliasTyped' /\ ManagerTyped' /\ StoreTyped'
  BY <1>1, UpStep DEF TypeInv, AliasTyped, StoreTyped, ScanAliases
<1>4. /\ op' \in [Callers -> Ops]
      /\ \A e \in Callers : e # c => op'[e] = op[e]
      /\ \/ op'[c] = Idle
         \/ /\ op'[c].at = "remove" /\ op'[c].name = op[c].name
            /\ \A a \in Names : aliases[a] # op[c].name
  <2>1. CASE \E a \in Names : aliases[a] = op[c].name
    BY <2>1, Returns DEF TypeInv, ScanAliases
  <2>2. CASE ~\E a \in Names : aliases[a] = op[c].name
    BY <1>1, <2>2, GotoDelete DEF TypeInv, ScanAliases
  <2> QED
    BY <2>1, <2>2
<1>5. OpenTyped'
  <2> SUFFICES ASSUME NEW m \in Names, Referenced(m)' PROVE pool[m] # None
    BY <1>2 DEF OpenTyped
  <2> QED
    BY <1>2, <1>4, OpenedStays, IdleIsOp DEF Referenced, TypeInv, OpenTyped
<1> QED
  BY <1>1, <1>3, <1>4, <1>5 DEF TypeInv

LEMMA RemoveCollectionTypes ==
  ASSUME TypeInv, NEW c \in Callers, RemoveCollection(c)
  PROVE  /\ TypeInv' /\ Up /\ op[c] \in DeleteOps
         /\ op'[c].at = "list" /\ op'[c].name = op[c].name
         /\ \A e \in Callers : e # c => op'[e] = op[e]
         /\ collections'[op[c].name] = None
         /\ \A m \in Names : m # op[c].name => collections'[m] = collections[m]
         /\ \A m \in Names : Referenced(m)' => pool'[m] = pool[m]
<1>1. op[c] \in DeleteOps /\ Up /\ op[c].at = "remove"
  BY OpShapes, BusyIsUp DEF RemoveCollection, TypeInv
<1>2. PICK n \in Names : n = op[c].name
  BY <1>1 DEF DeleteOps
<1>3. AliasTyped' /\ ManagerTyped'
  BY <1>1, UpStep DEF TypeInv, AliasTyped, RemoveCollection
<1>4. /\ op' \in [Callers -> Ops] /\ op'[c] \in DeleteOps /\ op'[c].at = "list"
      /\ op'[c].name = op[c].name /\ \A e \in Callers : e # c => op'[e] = op[e]
  BY <1>1, GotoDelete DEF TypeInv, RemoveCollection
<1>5. UNCHANGED <<held, disk, reused, failed>> /\ DropUnused /\ collections' = [collections EXCEPT ![n] = None]
  BY <1>2 DEF RemoveCollection
<1>6. /\ collections' \in [Names -> Configs \cup {None}] /\ collections'[n] = None
      /\ \A m \in Names : m # n => collections'[m] = collections[m]
  BY <1>5 DEF TypeInv, StoreTyped
<1>7. \A m \in Names : Referenced(m)' => pool[m] # None
  <2> SUFFICES ASSUME NEW m \in Names, Referenced(m)' PROVE Referenced(m)
    BY DEF TypeInv, OpenTyped
  <2> QED
    BY <1>4, <1>5, <1>6, OpenedStays DEF Referenced
<1>8. /\ OpenTyped' /\ pool' \in [Names -> Databases \cup {None}]
      /\ \A m \in Names : Referenced(m)' => pool'[m] = pool[m]
  BY <1>5, <1>7, DropKeepsOpen DEF TypeInv, StoreTyped
<1>9. StoreTyped'
  BY <1>5, <1>6, <1>8 DEF TypeInv, StoreTyped
<1> QED
  BY <1>1, <1>2, <1>3, <1>4, <1>6, <1>8, <1>9 DEF TypeInv

\* A step of a call that opens nothing and leaves the databases as they are.
LEMMA QuietStepTypes ==
  ASSUME TypeInv, Up, NEW c \in Callers, op' \in [Callers -> Ops],
         \A e \in Callers : e # c => op'[e] = op[e],
         op'[c].at \notin {"truncate", "write", "insert"},
         UNCHANGED <<collections, pool, held, disk, manager, reused>>, AliasTyped',
         failed' \subseteq Names
  PROVE  TypeInv'
<1>1. StoreTyped' /\ ManagerTyped'
  BY UpStep DEF TypeInv, StoreTyped
<1>2. OpenTyped'
  <2> SUFFICES ASSUME NEW m \in Names, Referenced(m)' PROVE pool[m] # None
    BY DEF OpenTyped
  <2> QED
    BY OpenedStays DEF Referenced, TypeInv, OpenTyped
<1> QED
  BY <1>1, <1>2 DEF TypeInv

LEMMA ListDirectoryTypes ==
  ASSUME TypeInv, NEW c \in Callers, ListDirectory(c)
  PROVE  /\ TypeInv' /\ Up /\ op[c] \in DeleteOps
         /\ \A e \in Callers : e # c => op'[e] = op[e]
         /\ \/ op'[c] = Idle /\ disk[op[c].name] = None
            \/ /\ op'[c].at = "unlink" /\ op'[c].name = op[c].name
               /\ \A f \in {"meta", "file"} :
                    f \notin op'[c].todo => disk[op[c].name][f] = None
<1>1. op[c] \in DeleteOps /\ Up /\ op[c].at = "list"
  BY OpShapes, BusyIsUp DEF ListDirectory, TypeInv
<1>2. PICK n \in Names : n = op[c].name
  BY <1>1 DEF DeleteOps
<1>3. UNCHANGED <<collections, pool, held, disk, manager, reused>> /\ AliasTyped' /\ failed' \subseteq Names
  BY DEF ListDirectory, TypeInv, AliasTyped, StoreTyped
<1>4. /\ op' \in [Callers -> Ops] /\ op'[c].at \notin {"truncate", "write", "insert"}
      /\ \A e \in Callers : e # c => op'[e] = op[e]
      /\ \/ op'[c] = Idle /\ disk[n] = None
         \/ /\ op'[c].at = "unlink" /\ op'[c].name = n
            /\ \A f \in {"meta", "file"} : f \notin op'[c].todo => disk[n][f] = None
  <2>1. CASE disk[n] = None
    BY <1>2, <2>1, Returns, IdleIsOp DEF TypeInv, ListDirectory
  <2>2. CASE disk[n] # None
    <3> DEFINE entries == {f \in {"meta", "file"} : disk[n][f] # None}
               r == [at |-> "unlink", name |-> n, todo |-> entries]
    <3>1. r \in UnlinkOps /\ r.at = "unlink" /\ r.name = n /\ r.todo = entries
      BY DEF UnlinkOps
    <3>2. r \in Ops
      BY <3>1 DEF Ops
    <3>3. op' = [op EXCEPT ![c] = r]
      BY <1>2, <2>2 DEF ListDirectory
    <3>4. \A f \in {"meta", "file"} : f \notin entries => disk[n][f] = None
      OBVIOUS
    <3> HIDE DEF entries, r
    <3>5. op' \in [Callers -> Ops] /\ op'[c] = r /\ \A e \in Callers : e # c => op'[e] = op[e]
      BY <3>2, <3>3, Sets DEF TypeInv
    <3> QED
      BY <3>1, <3>4, <3>5
  <2> QED
    BY <2>1, <2>2
<1>5. TypeInv'
  BY <1>1, <1>3, <1>4, QuietStepTypes
<1> QED
  BY <1>1, <1>2, <1>4, <1>5

LEMMA RemoveEntryTypes ==
  ASSUME TypeInv, NEW c \in Callers, NEW f \in {"meta", "file"}, RemoveEntry(c, f)
  PROVE  /\ TypeInv' /\ Up /\ op[c] \in UnlinkOps
         /\ op'[c].at = "unlink" /\ op'[c].name = op[c].name /\ op'[c].todo = op[c].todo \ {f}
         /\ \A e \in Callers : e # c => op'[e] = op[e]
         /\ \A m \in Names : m # op[c].name => disk'[m] = disk[m] /\ pool'[m] = pool[m]
         /\ disk[op[c].name] = None => disk'[op[c].name] = None
         /\ disk[op[c].name] # None =>
              /\ disk'[op[c].name] # None
              /\ disk'[op[c].name].meta = IF f = "meta" THEN None ELSE disk[op[c].name].meta
              /\ disk'[op[c].name].file = IF f = "file" THEN None ELSE disk[op[c].name].file
<1>1. op[c] \in UnlinkOps /\ Up /\ op[c].at = "unlink"
  BY OpShapes, BusyIsUp DEF RemoveEntry, TypeInv
<1>2. PICK n \in Names : n = op[c].name
  BY <1>1 DEF UnlinkOps
<1>3. AliasTyped' /\ ManagerTyped'
  BY <1>1, UpStep DEF TypeInv, AliasTyped, RemoveEntry
<1>4. UNCHANGED <<collections, held, reused>> /\ failed' \subseteq failed
  BY DEF RemoveEntry
<1>5. /\ op' \in [Callers -> Ops] /\ op'[c].at = "unlink" /\ op'[c].name = n
      /\ op'[c].todo = op[c].todo \ {f} /\ \A e \in Callers : e # c => op'[e] = op[e]
  <2>1. op' = [op EXCEPT ![c].todo = op[c].todo \ {f}]
    BY DEF RemoveEntry
  <2>2. op'[c] = [op[c] EXCEPT !.todo = op[c].todo \ {f}]
    BY <2>1 DEF TypeInv
  <2>3. op'[c] \in UnlinkOps
    BY <1>1, <2>2 DEF UnlinkOps
  <2>4. \A e \in Callers : e # c => op'[e] = op[e]
    BY <2>1 DEF TypeInv
  <2>5. op' \in [Callers -> Ops]
    BY <2>1, <2>3, <2>4 DEF Ops, TypeInv
  <2> QED
    BY <1>1, <1>2, <2>2, <2>4, <2>5 DEF UnlinkOps
<1>6. disk \in [Names -> Directories \cup {None}] /\ pool \in [Names -> Databases \cup {None}]
  BY DEF TypeInv, StoreTyped
<1>7. /\ disk' \in [Names -> Directories \cup {None}]
      /\ \A m \in Names : m # n => disk'[m] = disk[m]
      /\ disk[n] = None => disk'[n] = None
      /\ disk[n] # None =>
           /\ disk'[n] # None
           /\ disk'[n].meta = IF f = "meta" THEN None ELSE disk[n].meta
           /\ disk'[n].file = IF f = "file" THEN None ELSE disk[n].file
  <2>1. CASE disk[n] = None
    <3>1. disk' = [disk EXCEPT ![n] = None]
      BY <1>2, <2>1 DEF RemoveEntry
    <3> QED
      BY <1>6, <2>1, <3>1
  <2>2. CASE disk[n] # None
    <3>1. disk' = [disk EXCEPT ![n] = [disk[n] EXCEPT ![f] = None]]
      BY <1>2, <2>2 DEF RemoveEntry
    <3>2. disk[n] \in Directories
      BY <1>6, <2>2
    <3>3. disk'[n] = [disk[n] EXCEPT ![f] = None] /\ DOMAIN disk' = Names
          /\ \A m \in Names : m # n => disk'[m] = disk[m]
      BY <1>6, <3>1
    <3>4. disk'[n] \in Directories
      BY <3>2, <3>3 DEF Directories
    <3>5. /\ disk'[n].meta = IF f = "meta" THEN None ELSE disk[n].meta
          /\ disk'[n].file = IF f = "file" THEN None ELSE disk[n].file
      BY <3>2, <3>3 DEF Directories
    <3>6. disk' \in [Names -> Directories \cup {None}]
      BY <1>6, <3>1, <3>3, <3>4
    <3> QED
      BY <2>2, <3>3, <3>4, <3>5, <3>6, CollectionsAssumption
  <2> QED
    BY <2>1, <2>2
<1>8. /\ pool' \in [Names -> Databases \cup {None}]
      /\ \A m \in Names : m # n => pool'[m] = pool[m]
      /\ pool[n] # None => pool'[n] # None
  <2>1. CASE pool[n] = None \/ f # "file"
    <3>1. pool' = [pool EXCEPT ![n] = pool[n]]
      BY <1>2, <2>1 DEF RemoveEntry
    <3> QED
      BY <1>6, <3>1
  <2>2. CASE pool[n] # None /\ f = "file"
    <3>1. pool' = [pool EXCEPT ![n] = [pool[n] EXCEPT !.linked = FALSE]]
      BY <1>2, <2>2 DEF RemoveEntry
    <3>2. pool[n] \in Databases
      BY <1>6, <2>2
    <3>3. [pool[n] EXCEPT !.linked = FALSE] \in Databases
      BY <3>2 DEF Databases
    <3> QED
      BY <1>6, <3>1, <3>3, CollectionsAssumption
  <2> QED
    BY <2>1, <2>2
<1>9. StoreTyped'
  BY <1>4, <1>7, <1>8 DEF TypeInv, StoreTyped
<1>10. \A m \in Names : pool[m] # None => pool'[m] # None
  BY <1>8
<1>11. OpenTyped'
  <2>1. \A m \in Names : collections'[m] # None \/ m \in held' => pool'[m] # None
    BY <1>4, <1>10 DEF TypeInv, OpenTyped, Referenced
  <2> QED
    BY <1>5, <1>10, <2>1, StillOpen DEF TypeInv
<1> QED
  BY <1>1, <1>2, <1>3, <1>5, <1>7, <1>8, <1>9, <1>11 DEF TypeInv

LEMMA RemoveDirectoryTypes ==
  ASSUME TypeInv, NEW c \in Callers, RemoveDirectory(c)
  PROVE  /\ TypeInv' /\ Up /\ op[c] \in UnlinkOps /\ op'[c] = Idle
         /\ \A e \in Callers : e # c => op'[e] = op[e]
         /\ \A m \in Names : m # op[c].name => disk'[m] = disk[m]
         /\ disk'[op[c].name] \in {disk[op[c].name], None}
<1>1. op[c] \in UnlinkOps /\ Up /\ op[c].at = "unlink"
  BY OpShapes, BusyIsUp DEF RemoveDirectory, TypeInv
<1>2. PICK n \in Names : n = op[c].name
  BY <1>1 DEF UnlinkOps
<1>3. AliasTyped' /\ ManagerTyped'
  BY <1>1, UpStep DEF TypeInv, AliasTyped, RemoveDirectory
<1>4. UNCHANGED <<collections, pool, held, reused, failed>>
  BY DEF RemoveDirectory
<1>5. op' \in [Callers -> Ops] /\ op'[c] = Idle /\ \A e \in Callers : e # c => op'[e] = op[e]
  BY Returns DEF TypeInv, RemoveDirectory
<1>6. disk' = disk \/ disk' = [disk EXCEPT ![n] = None]
  BY <1>2 DEF RemoveDirectory
<1>7. /\ disk' \in [Names -> Directories \cup {None}]
      /\ \A m \in Names : m # n => disk'[m] = disk[m]
      /\ disk'[n] \in {disk[n], None}
  BY <1>6 DEF TypeInv, StoreTyped
<1>8. StoreTyped'
  BY <1>4, <1>7 DEF TypeInv, StoreTyped
<1>9. OpenTyped'
  <2> SUFFICES ASSUME NEW m \in Names, Referenced(m)' PROVE pool[m] # None
    BY <1>4 DEF OpenTyped
  <2> QED
    BY <1>4, <1>5, OpenedStays, IdleIsOp DEF Referenced, TypeInv, OpenTyped
<1> QED
  BY <1>1, <1>2, <1>3, <1>5, <1>7, <1>8, <1>9 DEF TypeInv

LEMMA RemoveFailsTypes ==
  ASSUME TypeInv, NEW c \in Callers, RemoveFails(c)
  PROVE  /\ TypeInv' /\ Up /\ op'[c] = Idle
         /\ \A e \in Callers : e # c => op'[e] = op[e]
         /\ op[c].at \in {"list", "unlink"} /\ op[c].name \in Names
         /\ failed \subseteq failed' /\ failed' \subseteq failed \cup {op[c].name}
         /\ Loadable(op[c].name) => op[c].name \in failed'
         /\ UNCHANGED <<aliasing, collections, pool, held, disk, manager, reused>>
<1>1. Up /\ op[c].at \in {"list", "unlink"}
  BY BusyIsUp DEF RemoveFails
<1>2. PICK n \in Names : n = op[c].name
  BY <1>1, OpShapes DEF TypeInv, DeleteOps, UnlinkOps
<1>3. UNCHANGED <<aliasing, collections, pool, held, disk, manager, reused>>
  BY DEF RemoveFails
<1>4. op' \in [Callers -> Ops] /\ op'[c] = Idle /\ \A e \in Callers : e # c => op'[e] = op[e]
  BY Returns DEF TypeInv, RemoveFails
<1>5. failed' = IF Loadable(n) THEN failed \cup {n} ELSE failed
  BY <1>2 DEF RemoveFails
<1>6. AliasTyped' /\ failed' \subseteq Names
  BY <1>3, <1>5 DEF TypeInv, AliasTyped, StoreTyped
<1>7. TypeInv'
  BY <1>1, <1>3, <1>4, <1>6, IdleIsOp, QuietStepTypes
<1> QED
  BY <1>1, <1>2, <1>3, <1>4, <1>5, <1>7

-----------------------------------------------------------------------------
(* Aliases go on                                                           *)

LEMMA InsertAliasTypes ==
  ASSUME TypeInv, NEW c \in Callers, InsertAlias(c)
  PROVE  /\ TypeInv' /\ Up /\ op[c] \in AliasOps /\ op'[c].at = "snapshot"
         /\ \A e \in Callers : e # c => op'[e] = op[e]
         /\ aliases'[op[c].name] = op[c].target
         /\ \A a \in Names : a # op[c].name => aliases'[a] = aliases[a]
         /\ UNCHANGED <<storing, aliasFile, stray, manager>>
<1>1. op[c] \in AliasOps /\ Up /\ op[c].at = "alias"
  BY OpShapes, BusyIsUp DEF InsertAlias, TypeInv
<1>2. PICK a \in Names : a = op[c].name
  BY <1>1 DEF AliasOps
<1>3. PICK n \in Names : n = op[c].target
  BY <1>1 DEF AliasOps
<1>4. UNCHANGED <<storing, aliasFile, stray, manager>>
  BY DEF InsertAlias
<1>5. op' \in [Callers -> Ops] /\ op'[c].at = "snapshot" /\ \A e \in Callers : e # c => op'[e] = op[e]
  BY SnapshotOpIs, Sets DEF InsertAlias, TypeInv
<1>6. aliases' = [aliases EXCEPT ![a] = n]
  BY <1>2, <1>3 DEF InsertAlias
<1>10. muddled' \in BOOLEAN
  BY DEF InsertAlias
<1>7. AliasTyped' /\ aliases'[a] = n /\ \A b \in Names : b # a => aliases'[b] = aliases[b]
  BY <1>4, <1>6, <1>10 DEF TypeInv, AliasTyped
<1>9. failed' \subseteq Names
  BY <1>4 DEF TypeInv, StoreTyped
<1>8. TypeInv'
  BY <1>1, <1>4, <1>5, <1>7, <1>9, QuietStepTypes
<1> QED
  BY <1>1, <1>2, <1>3, <1>4, <1>5, <1>7, <1>8

LEMMA SnapshotAliasesTypes ==
  ASSUME TypeInv, NEW c \in Callers, SnapshotAliases(c)
  PROVE  /\ TypeInv' /\ Up /\ op'[c].at = "clear" /\ op'[c].copy = aliases
         /\ \A e \in Callers : e # c => op'[e] = op[e]
<1>1. Up
  BY BusyIsUp DEF SnapshotAliases
<1>2. UNCHANGED <<storing, manager>> /\ AliasTyped' /\ failed' \subseteq Names
  BY DEF SnapshotAliases, TypeInv, AliasTyped, StoreTyped
<1> DEFINE r == [at |-> "clear", copy |-> aliases]
<1>3. r \in SaveOps /\ r.at = "clear" /\ r.copy = aliases
  BY DEF SaveOps, TypeInv, AliasTyped
<1>4. r \in Ops
  BY <1>3 DEF Ops
<1>5. op' = [op EXCEPT ![c] = r]
  BY DEF SnapshotAliases
<1> HIDE DEF r
<1>6. op' \in [Callers -> Ops] /\ op'[c] = r /\ \A e \in Callers : e # c => op'[e] = op[e]
  BY <1>4, <1>5, Sets DEF TypeInv
<1>7. TypeInv'
  BY <1>1, <1>2, <1>3, <1>6, QuietStepTypes
<1> QED
  BY <1>1, <1>3, <1>6, <1>7

LEMMA TruncateAliasesTypes ==
  ASSUME TypeInv, NEW c \in Callers, TruncateAliases(c)
  PROVE  /\ TypeInv' /\ Up /\ op'[c].at = "save" /\ op'[c].copy = op[c].copy
         /\ \A e \in Callers : e # c => op'[e] = op[e]
<1>1. op[c] \in SaveOps /\ Up
  BY OpShapes, BusyIsUp DEF TruncateAliases, TypeInv
<1>2. UNCHANGED <<storing, manager>> /\ AliasTyped' /\ failed' \subseteq Names
  BY DEF TruncateAliases, TypeInv, AliasTyped, StoreTyped
<1>3. /\ op' \in [Callers -> Ops] /\ op'[c].at = "save" /\ op'[c].copy = op[c].copy
      /\ \A e \in Callers : e # c => op'[e] = op[e]
  BY <1>1, GotoSave DEF TruncateAliases, TypeInv
<1>4. TypeInv'
  BY <1>1, <1>2, <1>3, QuietStepTypes
<1> QED
  BY <1>1, <1>3, <1>4

LEMMA WriteAliasesTypes ==
  ASSUME TypeInv, NEW c \in Callers, WriteAliases(c)
  PROVE  /\ TypeInv' /\ Up /\ op'[c] = Idle
         /\ \A e \in Callers : e # c => op'[e] = op[e]
         /\ UNCHANGED <<storing, aliases, manager>> /\ aliasFile' \in {op[c].copy, Torn}
         /\ stray' \subseteq stray /\ \A a \in Names : a \in stray /\ aliases[a] # None => a \in stray'
<1>1. op[c] \in SaveOps /\ Up
  BY OpShapes, BusyIsUp DEF WriteAliases, TypeInv
<1>2. UNCHANGED <<storing, aliases, manager>> /\ failed' \subseteq Names
  BY DEF WriteAliases, TypeInv, StoreTyped
<1>3. /\ aliasFile' \in {op[c].copy, Torn} /\ muddled' \in BOOLEAN
      /\ stray' \subseteq stray /\ \A a \in Names : a \in stray /\ aliases[a] # None => a \in stray'
  BY DEF WriteAliases, Written
<1>4. AliasTyped'
  BY <1>1, <1>2, <1>3 DEF TypeInv, AliasTyped, SaveOps
<1>5. op' \in [Callers -> Ops] /\ op'[c] = Idle /\ \A e \in Callers : e # c => op'[e] = op[e]
  BY Returns DEF WriteAliases, TypeInv
<1>6. TypeInv'
  BY <1>1, <1>2, <1>4, <1>5, IdleIsOp, QuietStepTypes
<1> QED
  BY <1>1, <1>2, <1>3, <1>5, <1>6

LEMMA SaveFailsTypes ==
  ASSUME TypeInv, NEW c \in Callers, SaveFails(c)
  PROVE  /\ TypeInv' /\ Up /\ op'[c] = Idle
         /\ \A e \in Callers : e # c => op'[e] = op[e]
         /\ UNCHANGED <<storing, aliases, stray, manager>> /\ aliasFile' \in {aliasFile, Torn}
<1>1. Up
  BY BusyIsUp DEF SaveFails
<1>2. /\ UNCHANGED <<storing, aliases, stray, manager>> /\ failed' \subseteq Names
      /\ aliasFile' \in {aliasFile, Torn} /\ muddled' \in BOOLEAN
  BY DEF SaveFails, TypeInv, StoreTyped
<1>3. AliasTyped'
  BY <1>2 DEF TypeInv, AliasTyped
<1>4. op' \in [Callers -> Ops] /\ op'[c] = Idle /\ \A e \in Callers : e # c => op'[e] = op[e]
  BY Returns DEF SaveFails, TypeInv
<1>5. TypeInv'
  BY <1>1, <1>2, <1>3, <1>4, IdleIsOp, QuietStepTypes
<1> QED
  BY <1>1, <1>2, <1>4, <1>5

-----------------------------------------------------------------------------
(* get_collection                                                          *)

LEMMA GetCollectionTypes ==
  ASSUME TypeInv, NEW n \in Names, GetCollection(n)
  PROVE  TypeInv' /\ Up
<1>1. Up
  BY DEF GetCollection
<1>2. StoreTyped' /\ AliasTyped' /\ op' \in [Callers -> Ops]
  BY DEF GetCollection, TypeInv, StoreTyped, AliasTyped
<1>3. ManagerTyped'
  BY <1>1, UpStep DEF GetCollection
<1>4. OpenTyped'
  BY DEF GetCollection, TypeInv, OpenTyped, Referenced, Opened
<1> QED
  BY <1>1, <1>2, <1>3, <1>4 DEF TypeInv

LEMMA ReleaseTypes ==
  ASSUME TypeInv, NEW n \in Names, Release(n)
  PROVE  TypeInv' /\ Up /\ \A m \in Names : Referenced(m)' => pool'[m] = pool[m]
<1>1. Up
  BY DEF Release, TypeInv, ManagerTyped
<1>2. AliasTyped' /\ op' \in [Callers -> Ops]
  BY DEF Release, TypeInv, AliasTyped
<1>3. ManagerTyped'
  BY <1>1, UpStep DEF Release
<1>4. \A m \in Names : Referenced(m)' => pool[m] # None
  BY DEF Release, Referenced, Opened, TypeInv, OpenTyped
<1>5. /\ OpenTyped' /\ pool' \in [Names -> Databases \cup {None}]
      /\ \A m \in Names : Referenced(m)' => pool'[m] = pool[m]
  BY <1>4, DropKeepsOpen DEF Release, TypeInv, StoreTyped
<1>6. StoreTyped'
  BY <1>5 DEF Release, TypeInv, StoreTyped
<1> QED
  BY <1>1, <1>2, <1>3, <1>5, <1>6 DEF TypeInv

LEMMA StutterTypes == TypeInv /\ UNCHANGED vars => TypeInv'
BY DEF TypeInv, vars, StoreTyped, AliasTyped, OpenTyped, Referenced, Opened, ManagerTyped, Loadable, Up

LEMMA NextTypes == TypeInv /\ [Next]_vars => TypeInv'
<1> SUFFICES ASSUME TypeInv, [Next]_vars PROVE TypeInv'
  OBVIOUS
<1>1. CASE LoadAliases \/ Loaded \/ Crash
  BY <1>1, LoadAliasesTypes, LoadedTypes, CrashTypes
<1>2. ASSUME NEW n \in Names, LoadCollection(n) \/ LoadFails(n) \/ GetCollection(n) \/ Release(n)
      PROVE  TypeInv'
  BY <1>2, LoadCollectionTypes, LoadFailsTypes, GetCollectionTypes, ReleaseTypes
<1>3. ASSUME NEW c \in Callers, Call(c) PROVE TypeInv'
  BY <1>3, CheckNameTypes, CheckExistsTypes, CheckAliasTypes, DeleteAliasTypes DEF Call
<1>4. ASSUME NEW c \in Callers, Step(c) PROVE TypeInv'
  BY <1>4, MakeDirectoryTypes, NewCollectionTypes, TruncateMetadataTypes, WriteMetadataTypes,
     InsertCollectionTypes, ScanAliasesTypes, RemoveCollectionTypes, ListDirectoryTypes,
     RemoveEntryTypes, RemoveDirectoryTypes, InsertAliasTypes, SnapshotAliasesTypes,
     TruncateAliasesTypes, WriteAliasesTypes, CreateFailsTypes, RemoveFailsTypes, SaveFailsTypes
  DEF Step
<1>5. CASE UNCHANGED vars
  BY <1>5, StutterTypes
<1> QED
  BY <1>1, <1>2, <1>3, <1>4, <1>5 DEF Next

LEMMA TypeInvariant == Spec => []TypeInv
BY InitTypes, NextTypes, PTL DEF Spec

\* Every variable of Collections has its type, and what the map, a client or a
\* running create_collection refers to is open, whoever calls what.
THEOREM CollectionsTyped == Spec => []TypeOK
<1>1. TypeInv => TypeOK
  BY DEF TypeInv, TypeOK, StoreTyped, AliasTyped, OpenTyped, Referenced
<1> QED
  BY <1>1, TypeInvariant, PTL

-----------------------------------------------------------------------------
(* What the map does not have                                              *)

\* Caller c is about to insert n, or to remove the metadata of n.
Handles(c, n) ==
    /\ \/ op[c].at \in {"insert", "list"}
       \/ op[c].at = "unlink" /\ "meta" \in op[c].todo
    /\ op[c].name = n

\* A restart would load n, which the map does not have.
Unlisted(n) == collections[n] = None /\ Loadable(n) /\ n \notin failed

\* A create inserts after it wrote the metadata, and a delete lists after it
\* took out of the map: metadata without a collection is in somebody's hands.
HandledInv ==
    \A n \in Names : Unlisted(n) =>
        /\ manager.at = "loading" => n \in manager.todo
        /\ Up => \E c \in Callers : Handles(c, n)

\* A step of c leaves to others what it does not see to itself.
LEMMA CallerHandles ==
  ASSUME HandledInv, Up, manager' = manager, NEW c \in Callers,
         \A e \in Callers : e # c => op'[e] = op[e],
         \A m \in Names : Unlisted(m)' => Handles(c, m)' \/ (Unlisted(m) /\ ~Handles(c, m))
  PROVE  HandledInv'
<1> SUFFICES ASSUME NEW m \in Names, Unlisted(m)'
             PROVE  \E e \in Callers : Handles(e, m)'
  BY DEF HandledInv, Up
<1>1. CASE Handles(c, m)'
  BY <1>1
<1>2. CASE Unlisted(m) /\ ~Handles(c, m)
  <2>1. PICK e \in Callers : Handles(e, m)
    BY <1>2 DEF HandledInv
  <2>2. op'[e] = op[e]
    BY <1>2, <2>1
  <2> QED
    BY <2>1, <2>2 DEF Handles
<1> QED
  BY <1>1, <1>2

\* Most steps touch neither the map nor metadata, and begin and end nothing of
\* the kind.
LEMMA OtherHandles ==
  ASSUME HandledInv, Up, manager' = manager, NEW c \in Callers,
         \A e \in Callers : e # c => op'[e] = op[e],
         op[c].at \notin {"insert", "list", "unlink"}, UNCHANGED <<collections, failed>>,
         \A m \in Names : Loadable(m)' => Loadable(m)
  PROVE  HandledInv'
BY CallerHandles DEF Unlisted, Handles

LEMMA ManagerHandles ==
  ASSUME TypeInv, HandledInv,
         LoadAliases \/ Loaded \/ Crash \/ \E n \in Names : LoadCollection(n) \/ LoadFails(n)
  PROVE  HandledInv'
<1>1. CASE LoadAliases
  BY <1>1 DEF LoadAliases, HandledInv, Unlisted, Loadable, Up
<1>2. CASE Loaded
  BY <1>2 DEF Loaded, HandledInv, Unlisted, Loadable
<1>3. CASE Crash
  BY <1>3 DEF Crash, HandledInv, Down, Up
<1>4. ASSUME NEW n \in Names, LoadCollection(n) PROVE HandledInv'
  <2>1. /\ manager.at = "loading" /\ disk[n].meta \in Configs
        /\ \A m \in Names : Loadable(m)' <=> Loadable(m)
    BY <1>4, LoadCollectionTypes
  <2>2. /\ collections' = [collections EXCEPT ![n] = disk[n].meta]
        /\ manager' = [manager EXCEPT !.todo = @ \ {n}] /\ failed' = failed
    BY <1>4 DEF LoadCollection
  <2>3. collections'[n] # None /\ \A m \in Names : m # n => collections'[m] = collections[m]
    BY <2>1, <2>2, CollectionsAssumption DEF TypeInv, StoreTyped
  <2>4. manager'.at = "loading" /\ manager'.todo = manager.todo \ {n}
    BY <2>1, <2>2 DEF TypeInv, ManagerTyped, Down
  <2> QED
    BY <2>1, <2>2, <2>3, <2>4 DEF HandledInv, Unlisted, Up
<1>5. ASSUME NEW n \in Names, LoadFails(n) PROVE HandledInv'
  <2>1. /\ manager.at = "loading" /\ manager'.at = "loading" /\ manager'.todo = manager.todo \ {n}
        /\ \A m \in Names : Loadable(m)' <=> Loadable(m)
    BY <1>5, LoadFailsTypes
  <2>2. collections' = collections /\ failed' = failed \cup {n}
    BY <1>5 DEF LoadFails
  <2> QED
    BY <2>1, <2>2 DEF HandledInv, Unlisted, Up
<1> QED
  BY <1>1, <1>2, <1>3, <1>4, <1>5

LEMMA CallHandles ==
  ASSUME TypeInv, HandledInv, NEW c \in Callers, Call(c)
  PROVE  HandledInv'
<1>1. PICK n \in Names : \/ \E x \in Configs : CheckName(c, n, x)
                         \/ CheckExists(c, n)
                         \/ \E a \in Names : CheckNewAlias(c, a, n) \/ CheckSwitch(c, a, n)
                         \/ DeleteAlias(c, n)
  BY DEF Call
<1>2. /\ Up /\ op[c] = Idle
      /\ \A e \in Callers : e # c => op'[e] = op[e]
  BY <1>1, CheckNameTypes, CheckExistsTypes, CheckAliasTypes, DeleteAliasTypes
<1>3. UNCHANGED <<collections, disk, manager, failed>>
  BY <1>1 DEF CheckName, CheckExists, CheckNewAlias, CheckSwitch, DeleteAlias
<1> QED
  BY <1>2, <1>3, OtherHandles, IdleIsOp DEF Loadable

\* Creating: from the moment metadata can be read, the caller inserts next.
LEMMA CreateHandles ==
  ASSUME TypeInv, HandledInv, NEW c \in Callers,
         MakeDirectory(c) \/ NewCollection(c) \/ TruncateMetadata(c) \/ WriteMetadata(c)
           \/ InsertCollection(c) \/ CreateFails(c)
  PROVE  HandledInv'
<1>1. CASE MakeDirectory(c)
  <2>1. \A m \in Names : Loadable(m)' => Loadable(m)
    BY <1>1, MakeDirectoryTypes
  <2> QED
    BY <1>1, <2>1, MakeDirectoryTypes, OtherHandles DEF MakeDirectory
<1>2. CASE NewCollection(c)
  BY <1>2, NewCollectionTypes, OtherHandles DEF NewCollection
<1>3. CASE TruncateMetadata(c)
  <2>1. \A m \in Names : Loadable(m)' => Loadable(m)
    BY <1>3, TruncateMetadataTypes, CollectionsAssumption DEF Loadable
  <2> QED
    BY <1>3, <2>1, TruncateMetadataTypes, OtherHandles DEF TruncateMetadata
<1>4. CASE WriteMetadata(c)
  <2>1. /\ Up /\ UNCHANGED <<manager, collections, failed>> /\ op[c].at = "write"
        /\ op'[c].at = "insert" /\ op'[c].name = op[c].name
        /\ \A e \in Callers : e # c => op'[e] = op[e]
        /\ \A m \in Names : m # op[c].name => disk'[m] = disk[m]
    BY <1>4, WriteMetadataTypes DEF WriteMetadata
  <2>2. \A m \in Names : Unlisted(m)' => Handles(c, m)' \/ (Unlisted(m) /\ ~Handles(c, m))
    BY <2>1 DEF Unlisted, Handles, Loadable
  <2> QED
    BY <2>1, <2>2, CallerHandles
<1>5. CASE InsertCollection(c)
  <2>1. /\ Up /\ manager' = manager /\ disk' = disk
        /\ \A e \in Callers : e # c => op'[e] = op[e]
        /\ collections'[op[c].name] # None
        /\ \A m \in Names : m # op[c].name => collections'[m] = collections[m]
        /\ failed' = failed \ {op[c].name}
    BY <1>5, InsertCollectionTypes DEF InsertCollection
  <2>2. \A m \in Names : Unlisted(m)' => Handles(c, m)' \/ (Unlisted(m) /\ ~Handles(c, m))
    BY <2>1 DEF Unlisted, Handles, Loadable
  <2> QED
    BY <2>1, <2>2, CallerHandles
<1>6. CASE CreateFails(c)
  <2>1. UNCHANGED <<collections, manager, failed>> /\ op[c].at \notin {"insert", "list", "unlink"}
    BY <1>6 DEF CreateFails
  <2> QED
    BY <1>6, <2>1, CreateFailsTypes, OtherHandles
<1> QED
  BY <1>1, <1>2, <1>3, <1>4, <1>5, <1>6

\* Deleting: whoever takes a collection out of the map lists its directory, and
\* finds the metadata, whoever wrote it.
LEMMA DeleteHandles ==
  ASSUME TypeInv, HandledInv, NEW c \in Callers,
         ScanAliases(c) \/ RemoveCollection(c) \/ ListDirectory(c)
           \/ (\E f \in {"meta", "file"} : RemoveEntry(c, f)) \/ RemoveDirectory(c)
           \/ RemoveFails(c)
  PROVE  HandledInv'
<1>1. CASE ScanAliases(c)
  BY <1>1, ScanAliasesTypes, OtherHandles DEF ScanAliases, Loadable
<1>2. CASE RemoveCollection(c)
  <2>1. /\ Up /\ UNCHANGED <<manager, disk, failed>> /\ op[c].at = "remove"
        /\ op'[c].at = "list" /\ op'[c].name = op[c].name
        /\ \A e \in Callers : e # c => op'[e] = op[e]
        /\ \A m \in Names : m # op[c].name => collections'[m] = collections[m]
    BY <1>2, RemoveCollectionTypes DEF RemoveCollection
  <2>2. \A m \in Names : Unlisted(m)' => Handles(c, m)' \/ (Unlisted(m) /\ ~Handles(c, m))
    BY <2>1 DEF Unlisted, Handles, Loadable
  <2> QED
    BY <2>1, <2>2, CallerHandles
<1>3. CASE ListDirectory(c)
  <2>1. /\ Up /\ UNCHANGED <<manager, collections, disk, failed>> /\ op[c].at = "list"
        /\ \A e \in Callers : e # c => op'[e] = op[e]
        /\ \/ op'[c] = Idle /\ disk[op[c].name] = None
           \/ /\ op'[c].at = "unlink" /\ op'[c].name = op[c].name
              /\ "meta" \notin op'[c].todo => disk[op[c].name].meta = None
    BY <1>3, ListDirectoryTypes DEF ListDirectory
  <2>2. Loadable(op[c].name) => Handles(c, op[c].name)'
    BY <2>1, CollectionsAssumption DEF Loadable, Handles
  <2>3. \A m \in Names : Unlisted(m)' => Handles(c, m)' \/ (Unlisted(m) /\ ~Handles(c, m))
    BY <2>1, <2>2 DEF Unlisted, Handles, Loadable
  <2> QED
    BY <2>1, <2>3, CallerHandles
<1>4. ASSUME NEW f \in {"meta", "file"}, RemoveEntry(c, f) PROVE HandledInv'
  <2>1. /\ Up /\ manager' = manager /\ collections' = collections /\ op[c].at = "unlink"
        /\ op'[c].at = "unlink" /\ op'[c].name = op[c].name /\ op'[c].todo = op[c].todo \ {f}
        /\ \A e \in Callers : e # c => op'[e] = op[e]
        /\ \A m \in Names : m # op[c].name => disk'[m] = disk[m]
        /\ failed' = IF f = "meta" THEN failed \ {op[c].name} ELSE failed
    BY <1>4, RemoveEntryTypes DEF RemoveEntry
  <2>2. \A m \in Names : Loadable(m)' => Loadable(m) /\ (f = "meta" => m # op[c].name)
    BY <1>4, <2>1, RemoveEntryTypes, CollectionsAssumption DEF Loadable
  <2>3. \A m \in Names : Unlisted(m)' => Handles(c, m)' \/ (Unlisted(m) /\ ~Handles(c, m))
    BY <2>1, <2>2 DEF Unlisted, Handles
  <2> QED
    BY <2>1, <2>3, CallerHandles
<1>5. CASE RemoveDirectory(c)
  <2>1. /\ Up /\ UNCHANGED <<manager, collections, failed>>
        /\ op[c].at = "unlink" /\ op[c].todo = {}
        /\ \A e \in Callers : e # c => op'[e] = op[e]
        /\ \A m \in Names : disk'[m] \in {disk[m], None}
    BY <1>5, RemoveDirectoryTypes DEF RemoveDirectory
  <2>2. \A m \in Names : Unlisted(m)' => Handles(c, m)' \/ (Unlisted(m) /\ ~Handles(c, m))
    BY <2>1 DEF Unlisted, Handles, Loadable
  <2> QED
    BY <2>1, <2>2, CallerHandles
<1>6. CASE RemoveFails(c)
  <2>1. /\ Up /\ UNCHANGED <<manager, collections, disk>>
        /\ \A e \in Callers : e # c => op'[e] = op[e]
        /\ failed \subseteq failed' /\ (Loadable(op[c].name) => op[c].name \in failed')
    BY <1>6, RemoveFailsTypes
  <2>2. \A m \in Names : Unlisted(m)' => Handles(c, m)' \/ (Unlisted(m) /\ ~Handles(c, m))
    BY <2>1 DEF Unlisted, Handles, Loadable
  <2> QED
    BY <2>1, <2>2, CallerHandles
<1> QED
  BY <1>1, <1>2, <1>3, <1>4, <1>5, <1>6

LEMMA SaveHandles ==
  ASSUME TypeInv, HandledInv, NEW c \in Callers,
         InsertAlias(c) \/ SnapshotAliases(c) \/ TruncateAliases(c) \/ WriteAliases(c)
           \/ SaveFails(c)
  PROVE  HandledInv'
<1>1. /\ Up /\ op[c].at \notin {"insert", "list", "unlink"}
      /\ \A e \in Callers : e # c => op'[e] = op[e]
      /\ UNCHANGED <<collections, disk, manager, failed>>
  BY InsertAliasTypes, SnapshotAliasesTypes, TruncateAliasesTypes, WriteAliasesTypes, SaveFailsTypes
  DEF InsertAlias, SnapshotAliases, TruncateAliases, WriteAliases, SaveFails
<1> QED
  BY <1>1, OtherHandles DEF Loadable

LEMMA NextHandles == TypeInv /\ HandledInv /\ [Next]_vars => HandledInv'
<1> SUFFICES ASSUME TypeInv, HandledInv, [Next]_vars PROVE HandledInv'
  OBVIOUS
<1>1. CASE LoadAliases \/ Loaded \/ Crash \/ \E n \in Names : LoadCollection(n) \/ LoadFails(n)
  BY <1>1, ManagerHandles
<1>2. CASE UNCHANGED vars \/ \E n \in Names : GetCollection(n) \/ Release(n)
  <2>1. UNCHANGED <<collections, disk, manager, op, failed>>
    BY <1>2 DEF vars, GetCollection, Release
  <2> QED
    BY <2>1 DEF HandledInv, Unlisted, Loadable, Handles, Up
<1>3. ASSUME NEW c \in Callers, Call(c) \/ Step(c) PROVE HandledInv'
  BY <1>3, CallHandles, CreateHandles, DeleteHandles, SaveHandles DEF Step
<1> QED
  BY <1>1, <1>2, <1>3 DEF Next

\* However calls overlap and whatever names they share, however often the process
\* died and whatever else failed before, no readable metadata is left of a name
\* that the map does not have, once no call is about it (create_collection writes
\* before it inserts, delete_collection removes from the map before it removes
\* files), unless its remove_dir_all failed or new passed it over.
THEOREM DeletedStaysAway == Spec => []NothingComesBack
<1>1. Init => HandledInv
  BY DEF Init, HandledInv, Unlisted, Loadable, NoNames
<1>2. HandledInv => NothingComesBack
  BY DEF HandledInv, NothingComesBack, Unlisted, Handles, Quiet, Saving, Idle
<1> QED
  BY <1>1, <1>2, InitTypes, NextTypes, NextHandles, PTL DEF Spec

-----------------------------------------------------------------------------
(* What the map, the pool and the disk have of a name                      *)

LEMMA SettledStays ==
  ASSUME NEW m \in Names, Settled(m),
         collections'[m] = collections[m], disk'[m] = disk[m], reused'[m] = reused[m],
         collections'[m] # None => pool'[m] = pool[m], m \in failed => m \in failed'
  PROVE  Settled(m)'
BY DEF Settled, Gone, Loadable, Backed

LEMMA NamesOf ==
  ASSUME TypeInv, NEW c \in Callers, op[c].at \in Named
  PROVE  op[c].name \in Names
<1>1. op[c] \in CreateOps \cup DeleteOps \cup UnlinkOps \cup AliasOps
  BY OpShapes DEF TypeInv, Named
<1> QED
  BY <1>1 DEF CreateOps, DeleteOps, UnlinkOps, AliasOps

LEMMA WhereIsIt ==
  ASSUME TypeInv, NEW c \in Callers
  PROVE  op[c] = Idle \/ Saving(c) \/ op[c].at \in Named
BY OpShapes DEF TypeInv, Ops, CreateOps, DeleteOps, UnlinkOps, AliasOps, SaveOps, SnapshotOps,
   Saving, Named

\* Nobody but its owner is inside a method about a name.
LEMMA OwnerAlone ==
  ASSUME TypeInv, OwnNames, NameInv, NEW c \in Callers, NEW n \in MayCall[c],
         NEW e \in Callers, e # c, op[e].at \in Named
  PROVE  op[e].name # n
BY DEF OwnNames, NameInv, Own

LEMMA QuietByOwner ==
  ASSUME TypeInv, OwnNames, NameInv, NEW c \in Callers, NEW n \in MayCall[c],
         op[c] = Idle \/ Saving(c)
  PROVE  Quiet(n)
<1> SUFFICES ASSUME NEW e \in Callers
             PROVE  op[e] = Idle \/ Saving(e) \/ op[e].name # n
  BY DEF Quiet, Saving
<1>1. CASE e = c
  BY <1>1
<1>2. CASE e # c
  BY <1>2, WhereIsIt, OwnerAlone
<1> QED
  BY <1>1, <1>2

\* The owner c of n takes a step that changes nothing about other names.
LEMMA OwnerStep ==
  ASSUME TypeInv, OwnNames, NameInv, Up, manager' = manager,
         NEW c \in Callers, NEW n \in Names, n \in MayCall[c],
         \A e \in Callers : e # c => op'[e] = op[e],
         op[c] = Idle \/ op[c].name = n,
         \A m \in Names : m # n =>
             /\ collections'[m] = collections[m] /\ disk'[m] = disk[m] /\ reused'[m] = reused[m]
             /\ Referenced(m)' => pool'[m] = pool[m]
             /\ m \in failed => m \in failed',
         Own(c)', Midway(c)', Restartable(n)', Quiet(n)' => Settled(n)'
  PROVE  NameInv'
<1>1. ASSUME NEW e \in Callers PROVE Own(e)' /\ Midway(e)'
  <2>1. CASE e = c
    BY <2>1
  <2>2. CASE e # c /\ op[e].at \in Named
    <3>1. PICK m \in Names : m = op[e].name
      BY <2>2, NamesOf
    <3>2. m # n
      BY <2>2, <3>1, OwnerAlone
    <3>3. op'[e] = op[e]
      BY <2>2
    <3>4. /\ collections'[m] = collections[m] /\ disk'[m] = disk[m] /\ reused'[m] = reused[m]
          /\ collections'[m] # None => pool'[m] = pool[m]
          /\ m \in failed => m \in failed'
      BY <3>2 DEF Referenced
    <3>5. Settled(m) => Settled(m)'
      BY <3>4, SettledStays
    <3>6. op[e].at \in {"truncate", "write", "insert"} => pool'[m] = pool[m]
      BY <3>1, <3>2, <3>3 DEF Referenced, Opened
    <3>7. Own(e) /\ Midway(e)
      BY DEF NameInv
    <3> QED
      BY <3>1, <3>3, <3>4, <3>5, <3>6, <3>7 DEF Own, Midway, Gone, Backed, Loadable
  <2>3. CASE e # c /\ op[e].at \notin Named
    <3>1. op'[e] = op[e]
      BY <2>3
    <3> QED
      BY <2>3, <3>1 DEF Own, Midway, Named
  <2> QED
    BY <2>1, <2>2, <2>3
<1>2. ASSUME NEW m \in Names PROVE Restartable(m)'
  <2>1. CASE m = n
    BY <2>1
  <2>2. CASE m # n
    BY <2>2 DEF NameInv, Restartable, Loadable
  <2> QED
    BY <2>1, <2>2
<1>3. ASSUME NEW m \in Names, Quiet(m)' PROVE Settled(m)'
  <2>1. CASE m = n
    BY <1>3, <2>1
  <2>2. CASE m # n
    <3>1. Quiet(m)
      BY <1>3, <2>2 DEF Quiet, Saving
    <3>2. Settled(m)
      BY <3>1 DEF NameInv
    <3> QED
      BY <2>2, <3>2, SettledStays DEF Referenced
  <2> QED
    BY <2>1, <2>2
<1> QED
  BY <1>1, <1>2, <1>3 DEF NameInv, Up, Down

\* A step that changes nothing about any name, and after which no caller is in
\* the middle of more than before.
LEMMA SavingStep ==
  ASSUME TypeInv, NameInv, Up, manager' = manager, NEW c \in Callers,
         \A e \in Callers : e # c => op'[e] = op[e],
         op[c] = Idle \/ Saving(c), op'[c] = Idle \/ Saving(c)',
         UNCHANGED <<collections, pool, disk, reused, failed>>
  PROVE  NameInv'
<1>1. ASSUME NEW m \in Names PROVE (Settled(m)' <=> Settled(m)) /\ (Restartable(m)' <=> Restartable(m))
  BY DEF Settled, Restartable, Gone, Loadable, Backed
<1>2. ASSUME NEW e \in Callers PROVE Own(e)' /\ Midway(e)'
  <2>1. CASE e = c
    BY <2>1, IdleIsOp DEF Own, Midway, Named, Saving
  <2>2. CASE e # c
    <3>1. op'[e] = op[e] /\ Own(e) /\ Midway(e)
      BY <2>2 DEF NameInv
    <3> QED
      BY <3>1 DEF Own, Midway, Settled, Gone, Loadable, Backed
  <2> QED
    BY <2>1, <2>2
<1>3. ASSUME NEW m \in Names, Quiet(m)' PROVE Quiet(m)
  BY <1>3 DEF Quiet, Saving
<1> QED
  BY <1>1, <1>2, <1>3 DEF NameInv, Up, Down

\* Clients only keep databases open, or let them go.
LEMMA ClientStep ==
  ASSUME TypeInv, NameInv, Up, UNCHANGED <<collections, disk, reused, failed, manager, op>>,
         \A m \in Names : Referenced(m)' => pool'[m] = pool[m]
  PROVE  NameInv'
<1>1. ASSUME NEW m \in Names PROVE Settled(m) => Settled(m)'
  BY SettledStays DEF Referenced
<1>2. ASSUME NEW e \in Callers PROVE Own(e)' /\ Midway(e)'
  <2>1. Own(e) /\ Midway(e)
    BY DEF NameInv
  <2>2. CASE op[e].at \in Named
    <3>1. PICK m \in Names : m = op[e].name
      BY <2>2, NamesOf
    <3>2. op[e].at \in {"truncate", "write", "insert"} => pool'[m] = pool[m]
      BY <3>1 DEF Referenced, Opened
    <3> QED
      BY <1>1, <2>1, <3>1, <3>2 DEF Own, Midway, Gone, Backed, Loadable
  <2>3. CASE op[e].at \notin Named
    BY <2>3 DEF Own, Midway, Named
  <2> QED
    BY <2>2, <2>3
<1>3. ASSUME NEW m \in Names PROVE Restartable(m)' /\ (Quiet(m)' <=> Quiet(m))
  BY DEF NameInv, Restartable, Loadable, Quiet, Saving
<1> QED
  BY <1>1, <1>2, <1>3 DEF NameInv, Up, Down

LEMMA InitNames == Init => NameInv
<1> SUFFICES ASSUME Init PROVE NameInv
  OBVIOUS
<1>1. \A c \in Callers : op[c] = Idle
  BY DEF Init
<1>2. \A n \in Names : collections[n] = None /\ disk[n] = None
  BY DEF Init, NoNames
<1>3. \A n \in Names : ~Loadable(n)
  BY <1>2 DEF Loadable
<1>4. \A n \in Names : Settled(n) /\ Restartable(n)
  BY <1>2, <1>3 DEF Settled, Gone, Restartable
<1>5. manager.at = "loading" /\ manager.todo = {}
  BY DEF Init
<1>6. \A n \in Names : Loading(n)
  BY <1>4, <1>5 DEF Loading
<1>7. \A c \in Callers : Own(c) /\ Midway(c)
  BY <1>1, IdleIsOp DEF Own, Midway, Named
<1> QED
  BY <1>4, <1>5, <1>6, <1>7 DEF NameInv, Down, Up

LEMMA LoadAliasesNames == TypeInv /\ NameInv /\ LoadAliases => NameInv'
<1> SUFFICES ASSUME TypeInv, NameInv, LoadAliases PROVE NameInv'
  OBVIOUS
<1>1. /\ UNCHANGED <<collections, pool, disk, reused, failed, op>> /\ collections = NoNames /\ pool = NoNames
      /\ manager'.at = "loading" /\ manager'.todo = {n \in Names : Loadable(n)}
  BY DEF LoadAliases, NameInv
<1>2. \A n \in Names : collections[n] = None /\ pool[n] = None
  BY <1>1 DEF NoNames
<1>3. \A n \in Names : Loadable(n)' <=> Loadable(n)
  BY <1>1 DEF Loadable
<1>4. \A n \in Names : Loading(n)'
  BY <1>1, <1>2, <1>3 DEF Loading, Settled, Gone
<1>5. \A n \in Names : Restartable(n)'
  BY <1>1 DEF NameInv, Restartable, Loadable
<1>6. \A c \in Callers : op'[c] = Idle
  BY <1>1 DEF TypeInv, ManagerTyped, LoadAliases, Up, Down
<1>7. \A c \in Callers : Own(c)' /\ Midway(c)'
  BY <1>6, IdleIsOp DEF Own, Midway, Named
<1> QED
  BY <1>1, <1>4, <1>5, <1>7 DEF NameInv, Down, Up

LEMMA LoadCollectionNames ==
  ASSUME TypeInv, NameInv, NEW n \in Names, LoadCollection(n)
  PROVE  NameInv'
<1>1. /\ manager.at = "loading" /\ Loadable(n) /\ disk[n] \in Directories /\ disk[n].meta \in Configs
      /\ TypeInv' /\ \A m \in Names : Loadable(m)' <=> Loadable(m)
  BY LoadCollectionTypes
<1>2. PICK x \in Configs : x = disk[n].meta
  BY <1>1
<1>3. n \in manager.todo /\ UNCHANGED <<op, reused, failed>> /\ OpenDatabase(n, x)
      /\ collections' = [collections EXCEPT ![n] = x]
  BY <1>2 DEF LoadCollection
<1>4. pool[n] = None /\ collections[n] = None
  BY <1>1, <1>3 DEF NameInv, Loading
<1>5. disk[n] # None
  BY <1>1 DEF Loadable
<1>6. /\ \A m \in Names : m # n => disk'[m] = disk[m] /\ pool'[m] = pool[m]
      /\ disk'[n].meta = x /\ disk'[n].file = pool'[n].config /\ pool'[n].linked
      /\ pool'[n].config = IF disk[n].file = None THEN x ELSE disk[n].file
  BY <1>2, <1>3, <1>4, <1>5, DatabaseTyped
<1>7. collections'[n] = x /\ \A m \in Names : m # n => collections'[m] = collections[m]
  BY <1>3 DEF TypeInv, StoreTyped
<1>8. pool'[n].config = x \/ reused[n]
  BY <1>1, <1>2, <1>6 DEF NameInv, Restartable
<1>9. Settled(n)'
  BY <1>1, <1>3, <1>6, <1>7, <1>8, CollectionsAssumption DEF Settled, Backed
<1>10. Restartable(n)'
  BY <1>3, <1>6, <1>8 DEF Restartable
<1>11. manager' = [manager EXCEPT !.todo = manager.todo \ {n}]
  BY DEF LoadCollection
<1>12. manager'.at = "loading" /\ manager'.todo = manager.todo \ {n}
  <2>1. manager \in [at : {"loading", "up"}, todo : SUBSET Names]
    BY <1>1 DEF TypeInv, ManagerTyped, Down
  <2> QED
    BY <1>1, <1>11, <2>1
<1>13. ASSUME NEW m \in Names PROVE Loading(m)' /\ Restartable(m)'
  <2>1. CASE m = n
    BY <1>9, <1>10, <1>12, <2>1 DEF Loading
  <2>2. CASE m # n
    <3>1. Loading(m) /\ Restartable(m)
      BY <1>1 DEF NameInv
    <3>2. Settled(m) => Settled(m)'
      BY <1>3, <1>6, <1>7, <2>2, SettledStays
    <3> QED
      BY <1>3, <1>6, <1>7, <1>12, <2>2, <3>1, <3>2 DEF Loading, Restartable, Loadable
  <2> QED
    BY <2>1, <2>2
<1>14. \A c \in Callers : op'[c] = Idle
  BY <1>1, <1>3 DEF TypeInv, ManagerTyped, Up
<1>15. \A c \in Callers : Own(c)' /\ Midway(c)'
  BY <1>14, IdleIsOp DEF Own, Midway, Named
<1> QED
  BY <1>12, <1>13, <1>15 DEF NameInv, Down, Up

LEMMA LoadFailsNames ==
  ASSUME TypeInv, NameInv, NEW n \in Names, LoadFails(n)
  PROVE  NameInv'
<1>1. /\ manager.at = "loading" /\ manager'.at = "loading" /\ manager'.todo = manager.todo \ {n}
      /\ \A m \in Names : m # n => disk'[m] = disk[m]
      /\ disk'[n].meta = disk[n].meta /\ disk[n].meta \in Configs
      /\ \A m \in Names : Loadable(m)' <=> Loadable(m)
  BY LoadFailsTypes
<1>2. n \in manager.todo /\ UNCHANGED <<collections, pool, op, reused>> /\ failed' = failed \cup {n}
  BY DEF LoadFails
<1>3. collections[n] = None /\ pool[n] = None
  BY <1>1, <1>2 DEF NameInv, Loading
<1>4. \/ disk'[n].file = disk[n].file
      \/ disk'[n].file = IF disk[n].file = None THEN disk[n].meta ELSE disk[n].file
  BY <1>3, LoadFailsTypes
<1>5. Settled(n)'
  BY <1>2, <1>3 DEF Settled, Gone
<1>6. Restartable(n)'
  BY <1>1, <1>2, <1>4 DEF NameInv, Restartable
<1>7. ASSUME NEW m \in Names PROVE Loading(m)' /\ Restartable(m)'
  <2>1. CASE m = n
    BY <1>1, <1>5, <1>6, <2>1 DEF Loading
  <2>2. CASE m # n
    <3>1. Loading(m) /\ Restartable(m)
      BY <1>1 DEF NameInv
    <3>2. Settled(m) => Settled(m)'
      BY <1>1, <1>2, <2>2, SettledStays
    <3> QED
      BY <1>1, <1>2, <2>2, <3>1, <3>2 DEF Loading, Restartable, Loadable
  <2> QED
    BY <2>1, <2>2
<1>8. \A c \in Callers : op'[c] = Idle
  BY <1>1, <1>2 DEF TypeInv, ManagerTyped, Up
<1>9. \A c \in Callers : Own(c)' /\ Midway(c)'
  BY <1>8, IdleIsOp DEF Own, Midway, Named
<1> QED
  BY <1>1, <1>7, <1>9 DEF NameInv, Down, Up

LEMMA LoadedNames == TypeInv /\ NameInv /\ Loaded => NameInv'
<1> SUFFICES ASSUME TypeInv, NameInv, Loaded PROVE NameInv'
  OBVIOUS
<1>1. UNCHANGED <<collections, pool, disk, reused, failed, op>> /\ manager'.at = "up"
      /\ manager.at = "loading" /\ manager.todo = {}
  BY DEF Loaded
<1>2. \A n \in Names : Settled(n)
  BY <1>1 DEF NameInv, Loading
<1>3. \A n \in Names : Settled(n)'
  BY <1>1, <1>2, SettledStays
<1>4. \A n \in Names : Restartable(n)'
  BY <1>1 DEF NameInv, Restartable, Loadable
<1>5. \A c \in Callers : op'[c] = Idle
  BY <1>1 DEF TypeInv, ManagerTyped, Up
<1>6. \A c \in Callers : Own(c)' /\ Midway(c)'
  BY <1>5, IdleIsOp DEF Own, Midway, Named
<1> QED
  BY <1>1, <1>3, <1>4, <1>6 DEF NameInv, Down, Up

LEMMA CrashNames == TypeInv /\ NameInv /\ Crash => NameInv'
<1> SUFFICES ASSUME TypeInv, NameInv, Crash PROVE NameInv'
  OBVIOUS
<1>1. /\ UNCHANGED <<disk, reused>> /\ manager' = Down /\ collections' = NoNames
      /\ pool' = NoNames
  BY DEF Crash
<1>2. \A n \in Names : Restartable(n)'
  BY <1>1 DEF NameInv, Restartable, Loadable
<1>3. \A c \in Callers : Own(c)' /\ Midway(c)'
  BY CrashTypes, IdleIsOp DEF Own, Midway, Named
<1>4. manager'.at = "down"
  BY <1>1 DEF Down
<1> QED
  BY <1>1, <1>2, <1>3, <1>4 DEF NameInv, Up

LEMMA CheckNameNames ==
  ASSUME TypeInv, OwnNames, NameInv, NEW c \in Callers, NEW n \in Names, NEW x \in Configs,
         CheckName(c, n, x)
  PROVE  NameInv'
<1>1. n \in MayCall[c] /\ collections[n] = None
      /\ UNCHANGED <<storing, manager>>
  BY DEF CheckName
<1>2. /\ Up /\ op[c] = Idle /\ op'[c].at = "open" /\ op'[c].name = n
      /\ \A e \in Callers : e # c => op'[e] = op[e]
  BY CheckNameTypes
<1>3. Settled(n)
  BY <1>1, <1>2, QuietByOwner DEF NameInv
<1>4. Settled(n)' /\ Restartable(n)'
  BY <1>1, <1>3, SettledStays DEF NameInv, Restartable, Loadable
<1>5. Own(c)' /\ Midway(c)'
  BY <1>1, <1>2, <1>4 DEF Own, Midway
<1> QED
  BY <1>1, <1>2, <1>4, <1>5, OwnerStep

LEMMA CheckExistsNames ==
  ASSUME TypeInv, OwnNames, NameInv, NEW c \in Callers, NEW n \in Names, CheckExists(c, n)
  PROVE  NameInv'
<1>1. n \in MayCall[c] /\ collections[n] # None
      /\ UNCHANGED <<storing, manager>>
  BY DEF CheckExists
<1>2. /\ Up /\ op[c] = Idle /\ op'[c].at = "scan" /\ op'[c].name = n
      /\ \A e \in Callers : e # c => op'[e] = op[e]
  BY CheckExistsTypes
<1>3. Settled(n)
  BY <1>1, <1>2, QuietByOwner DEF NameInv
<1>4. Settled(n)' /\ Restartable(n)'
  BY <1>1, <1>3, SettledStays DEF NameInv, Restartable, Loadable
<1>5. Own(c)' /\ Midway(c)'
  BY <1>1, <1>2, <1>4 DEF Own, Midway
<1> QED
  BY <1>1, <1>2, <1>4, <1>5, OwnerStep

LEMMA CheckAliasNames ==
  ASSUME TypeInv, OwnNames, NameInv, NEW c \in Callers, NEW n \in Names, NEW a \in Names,
         CheckNewAlias(c, a, n) \/ CheckSwitch(c, a, n)
  PROVE  NameInv'
<1>1. a \in MayCall[c] /\ n \in MayCall[c]
  BY DEF CheckNewAlias, CheckSwitch
<1>2. /\ Up /\ op[c] = Idle /\ op'[c].at = "alias" /\ op'[c].name = a /\ op'[c].target = n
      /\ \A e \in Callers : e # c => op'[e] = op[e]
      /\ UNCHANGED <<storing, manager>>
  BY CheckAliasTypes
<1>3. Settled(a)
  BY <1>1, <1>2, QuietByOwner DEF NameInv
<1>4. Settled(a)' /\ Restartable(a)'
  BY <1>2, <1>3, SettledStays DEF NameInv, Restartable, Loadable
<1>5. Own(c)' /\ Midway(c)'
  BY <1>1, <1>2, <1>4 DEF Own, Midway
<1> QED
  BY <1>1, <1>2, <1>4, <1>5, OwnerStep

LEMMA MakeDirectoryNames ==
  ASSUME TypeInv, OwnNames, NameInv, NEW c \in Callers, MakeDirectory(c)
  PROVE  NameInv'
<1>1. op[c].at = "open" /\ UNCHANGED <<collections, pool, held, manager, reused, failed>>
  BY DEF MakeDirectory
<1>2. PICK n \in Names : n = op[c].name
  BY <1>1, NamesOf DEF Named
<1>3. /\ Up /\ op'[c].at = "database" /\ op'[c].name = n
      /\ \A e \in Callers : e # c => op'[e] = op[e]
      /\ \A m \in Names : Loadable(m)' <=> Loadable(m)
      /\ \A m \in Names : m # n => disk'[m] = disk[m]
  BY <1>2, MakeDirectoryTypes
<1>4. n \in MayCall[c] /\ collections[n] = None /\ Settled(n)
  BY <1>1, <1>2 DEF NameInv, Own, Midway, Named
<1>5. Gone(n)' /\ Settled(n)' /\ Restartable(n)'
  BY <1>1, <1>3, <1>4, MakeDirectoryTypes DEF NameInv, Settled, Gone, Restartable, Loadable
<1>6. Own(c)' /\ Midway(c)'
  BY <1>1, <1>3, <1>4, <1>5 DEF Own, Midway
<1> QED
  BY <1>1, <1>2, <1>3, <1>4, <1>5, <1>6, OwnerStep

LEMMA NewCollectionNames ==
  ASSUME TypeInv, OwnNames, NameInv, NEW c \in Callers, NewCollection(c)
  PROVE  NameInv'
<1>1. op[c].at = "database" /\ UNCHANGED <<collections, held, manager, failed>>
  BY DEF NewCollection
<1>2. PICK n \in Names : n = op[c].name
  BY <1>1, NamesOf DEF Named
<1>3. /\ Up /\ \A e \in Callers : e # c => op'[e] = op[e]
      /\ \A m \in Names : Loadable(m)' <=> Loadable(m)
      /\ \A m \in Names : m # n => disk'[m] = disk[m] /\ pool'[m] = pool[m] /\ reused'[m] = reused[m]
      /\ \/ op'[c] = Idle /\ UNCHANGED <<disk, reused>>
         \/ /\ op'[c].at = "truncate" /\ op'[c].name = n /\ (Loadable(n) => reused'[n])
            /\ Backed(n, op[c].config)' /\ op'[c].config = op[c].config
  BY <1>2, NewCollectionTypes DEF Backed
<1>4. n \in MayCall[c] /\ collections[n] = None /\ Settled(n)
  BY <1>1, <1>2 DEF NameInv, Own, Midway, Named
<1>5. Gone(n)' /\ Settled(n)' /\ Restartable(n)'
  <2>1. Restartable(n)'
    BY <1>3 DEF NameInv, Restartable, Loadable
  <2> QED
    BY <1>1, <1>3, <1>4, <2>1 DEF Settled, Gone
<1>6. Own(c)' /\ Midway(c)'
  BY <1>1, <1>3, <1>4, <1>5, IdleIsOp DEF Own, Midway, Named
<1> QED
  BY <1>1, <1>2, <1>3, <1>4, <1>5, <1>6, OwnerStep

LEMMA TruncateMetadataNames ==
  ASSUME TypeInv, OwnNames, NameInv, NEW c \in Callers, TruncateMetadata(c)
  PROVE  NameInv'
<1>1. op[c].at = "truncate" /\ UNCHANGED <<collections, held, manager, reused, failed>>
  BY DEF TruncateMetadata
<1>2. PICK n \in Names : n = op[c].name
  BY <1>1, NamesOf DEF Named
<1>3. /\ Up /\ \A e \in Callers : e # c => op'[e] = op[e]
      /\ \A m \in Names : m # n => disk'[m] = disk[m]
      /\ \A m \in Names : Referenced(m)' => pool'[m] = pool[m]
      /\ \/ op'[c] = Idle /\ disk[n] = None /\ disk' = disk
         \/ /\ op'[c].at = "write" /\ op'[c].name = n /\ op'[c].config = op[c].config
            /\ disk'[n] # None /\ disk'[n].meta = Empty /\ disk'[n].file = disk[n].file
  BY <1>2, TruncateMetadataTypes
<1>4. n \in MayCall[c] /\ collections[n] = None /\ Backed(n, op[c].config) /\ Gone(n)
  BY <1>1, <1>2 DEF NameInv, Own, Midway, Named
<1>5. ~Loadable(n)'
  BY <1>3, CollectionsAssumption DEF Loadable
<1>6. Settled(n)' /\ Restartable(n)'
  BY <1>1, <1>4, <1>5 DEF Settled, Gone, Restartable
<1>7. CASE op'[c] = Idle
  <2>1. Own(c)' /\ Midway(c)'
    BY <1>7, IdleIsOp DEF Own, Midway, Named
  <2> QED
    BY <1>1, <1>2, <1>3, <1>4, <1>6, <2>1, OwnerStep
<1>8. CASE op'[c].at = "write"
  <2>1. op'[c].name = n /\ op'[c].config = op[c].config /\ disk'[n] # None /\ disk'[n].meta = Empty
        /\ disk'[n].file = disk[n].file
    BY <1>3, <1>8, IdleIsOp
  <2>2. pool'[n] = pool[n]
    BY <1>3, <1>8, <2>1 DEF Referenced, Opened
  <2>3. Own(c)' /\ Midway(c)'
    BY <1>1, <1>4, <1>8, <2>1, <2>2 DEF Own, Midway, Backed
  <2> QED
    BY <1>1, <1>2, <1>3, <1>4, <1>6, <2>3, OwnerStep
<1> QED
  BY <1>3, <1>7, <1>8

LEMMA WriteMetadataNames ==
  ASSUME TypeInv, OwnNames, NameInv, NEW c \in Callers, WriteMetadata(c)
  PROVE  NameInv'
<1>1. op[c].at = "write" /\ UNCHANGED <<collections, pool, held, manager, reused, failed>>
  BY DEF WriteMetadata
<1>2. PICK n \in Names : n = op[c].name
  BY <1>1, NamesOf DEF Named
<1>3. /\ n \in MayCall[c] /\ collections[n] = None /\ Backed(n, op[c].config) /\ disk[n] # None
      /\ disk[n].meta = Empty
  BY <1>1, <1>2 DEF NameInv, Own, Midway, Named
<1>4. /\ Up /\ \A e \in Callers : e # c => op'[e] = op[e]
      /\ \A m \in Names : m # n => disk'[m] = disk[m]
      /\ op'[c].at = "insert" /\ op'[c].name = n /\ op'[c].config = op[c].config
      /\ disk'[n] # None /\ disk'[n].meta = op[c].config /\ disk'[n].file = disk[n].file
  BY <1>2, <1>3, WriteMetadataTypes
<1>6. Restartable(n)'
  BY <1>1, <1>3, <1>4 DEF Restartable, Backed
<1>7. Own(c)' /\ Midway(c)'
  BY <1>1, <1>3, <1>4 DEF Own, Midway, Backed
<1>8. ~Quiet(n)'
  BY <1>4, IdleIsOp DEF Quiet, Saving
<1> QED
  BY <1>1, <1>2, <1>3, <1>4, <1>6, <1>7, <1>8, OwnerStep

LEMMA CreateFailsNames ==
  ASSUME TypeInv, OwnNames, NameInv, NEW c \in Callers, CreateFails(c)
  PROVE  NameInv'
<1>1. /\ op[c].at \in {"open", "database", "truncate", "write"}
      /\ UNCHANGED <<collections, held, manager, reused, failed>>
  BY DEF CreateFails
<1>2. PICK n \in Names : n = op[c].name
  BY <1>1, NamesOf DEF Named
<1>3. /\ Up /\ op'[c] = Idle /\ \A e \in Callers : e # c => op'[e] = op[e]
      /\ \A m \in Names : m # n => disk'[m] = disk[m]
      /\ \A m \in Names : Loadable(m)' => disk'[m] = disk[m] /\ Loadable(m)
      /\ \A m \in Names : Referenced(m)' => pool'[m] = pool[m]
  BY <1>2, CreateFailsTypes
<1>4. n \in MayCall[c] /\ collections[n] = None /\ Gone(n)
  BY <1>1, <1>2, CollectionsAssumption DEF NameInv, Own, Midway, Named, Settled, Gone, Loadable
<1>5. Settled(n)'
  BY <1>1, <1>3, <1>4 DEF Settled, Gone
<1>6. Restartable(n)'
  BY <1>1, <1>3 DEF NameInv, Restartable
<1>7. Own(c)' /\ Midway(c)'
  BY <1>3, IdleIsOp DEF Own, Midway, Named
<1> QED
  BY <1>1, <1>2, <1>3, <1>4, <1>5, <1>6, <1>7, OwnerStep

LEMMA InsertCollectionNames ==
  ASSUME TypeInv, OwnNames, NameInv, NEW c \in Callers, InsertCollection(c)
  PROVE  NameInv'
<1>1. /\ op[c].at = "insert" /\ UNCHANGED <<pool, held, disk, manager, reused>>
      /\ failed' = failed \ {op[c].name}
  BY DEF InsertCollection
<1>2. PICK n \in Names : n = op[c].name
  BY <1>1, NamesOf DEF Named
<1>3. /\ n \in MayCall[c] /\ Backed(n, op[c].config) /\ disk[n] # None
      /\ disk[n].meta = op[c].config
  BY <1>1, <1>2 DEF NameInv, Own, Midway, Named
<1>4. /\ Up /\ op'[c] = Idle /\ \A e \in Callers : e # c => op'[e] = op[e]
      /\ op[c].config \in Configs /\ collections'[n] = op[c].config /\ collections'[n] # None
      /\ \A m \in Names : m # n => collections'[m] = collections[m]
  BY <1>2, InsertCollectionTypes
<1>5. Settled(n)' /\ Restartable(n)'
  BY <1>1, <1>3, <1>4, CollectionsAssumption DEF Settled, Restartable, Loadable, Backed
<1>6. Own(c)' /\ Midway(c)'
  BY <1>4, IdleIsOp DEF Own, Midway, Named
<1> QED
  BY <1>1, <1>2, <1>3, <1>4, <1>5, <1>6, OwnerStep

LEMMA ScanAliasesNames ==
  ASSUME TypeInv, OwnNames, NameInv, NEW c \in Callers, ScanAliases(c)
  PROVE  NameInv'
<1>1. op[c].at = "scan" /\ UNCHANGED <<storing, manager>>
  BY DEF ScanAliases
<1>2. PICK n \in Names : n = op[c].name
  BY <1>1, NamesOf DEF Named
<1>3. /\ Up /\ \A e \in Callers : e # c => op'[e] = op[e]
      /\ op'[c] = Idle \/ (op'[c].at = "remove" /\ op'[c].name = n)
  BY <1>2, ScanAliasesTypes
<1>4. n \in MayCall[c] /\ collections[n] # None /\ Settled(n)
  BY <1>1, <1>2 DEF NameInv, Own, Midway, Named
<1>5. Settled(n)' /\ Restartable(n)'
  BY <1>1, <1>4, SettledStays DEF NameInv, Restartable, Loadable
<1>6. Own(c)' /\ Midway(c)'
  BY <1>1, <1>3, <1>4, <1>5, IdleIsOp DEF Own, Midway, Named
<1> QED
  BY <1>1, <1>2, <1>3, <1>4, <1>5, <1>6, OwnerStep

LEMMA RemoveCollectionNames ==
  ASSUME TypeInv, OwnNames, NameInv, NEW c \in Callers, RemoveCollection(c)
  PROVE  NameInv'
<1>1. op[c].at = "remove" /\ UNCHANGED <<held, disk, manager, reused, failed>>
  BY DEF RemoveCollection
<1>2. PICK n \in Names : n = op[c].name
  BY <1>1, NamesOf DEF Named
<1>3. n \in MayCall[c]
  BY <1>1, <1>2 DEF NameInv, Own, Named
<1>4. /\ Up /\ \A e \in Callers : e # c => op'[e] = op[e]
      /\ op'[c].at = "list" /\ op'[c].name = n /\ collections'[n] = None
      /\ \A m \in Names : m # n => collections'[m] = collections[m]
      /\ \A m \in Names : Referenced(m)' => pool'[m] = pool[m]
  BY <1>2, RemoveCollectionTypes
<1>5. Restartable(n)'
  BY <1>1 DEF NameInv, Restartable, Loadable
<1>6. Own(c)' /\ Midway(c)'
  BY <1>3, <1>4 DEF Own, Midway
<1>7. ~Quiet(n)'
  BY <1>4, IdleIsOp DEF Quiet, Saving
<1> QED
  BY <1>1, <1>2, <1>3, <1>4, <1>5, <1>6, <1>7, OwnerStep

LEMMA ListDirectoryNames ==
  ASSUME TypeInv, OwnNames, NameInv, NEW c \in Callers, ListDirectory(c)
  PROVE  NameInv'
<1>1. op[c].at = "list" /\ UNCHANGED <<storing, manager>>
  BY DEF ListDirectory
<1>2. PICK n \in Names : n = op[c].name
  BY <1>1, NamesOf DEF Named
<1>3. n \in MayCall[c] /\ collections[n] = None
  BY <1>1, <1>2 DEF NameInv, Own, Midway, Named
<1>4. /\ Up /\ \A e \in Callers : e # c => op'[e] = op[e]
      /\ \/ op'[c] = Idle /\ disk[n] = None
         \/ /\ op'[c].at = "unlink" /\ op'[c].name = n
            /\ \A f \in {"meta", "file"} : f \notin op'[c].todo => disk[n][f] = None
  BY <1>2, ListDirectoryTypes
<1>5. Restartable(n)'
  BY <1>1 DEF NameInv, Restartable, Loadable
<1>6. CASE op'[c] = Idle
  <2>1. disk[n] = None
    BY <1>4, <1>6, IdleIsOp
  <2>2. Settled(n)'
    BY <1>1, <1>3, <2>1 DEF Settled, Gone, Loadable
  <2>3. Own(c)' /\ Midway(c)'
    BY <1>6, IdleIsOp DEF Own, Midway, Named
  <2> QED
    BY <1>1, <1>2, <1>3, <1>4, <1>5, <2>2, <2>3, OwnerStep
<1>7. CASE op'[c].at = "unlink"
  <2>1. op'[c].name = n /\ \A f \in {"meta", "file"} : f \notin op'[c].todo => disk[n][f] = None
    BY <1>4, <1>7, IdleIsOp
  <2>2. Own(c)' /\ Midway(c)'
    BY <1>1, <1>3, <1>7, <2>1 DEF Own, Midway
  <2>3. ~Quiet(n)'
    BY <1>7, <2>1, IdleIsOp DEF Quiet, Saving
  <2> QED
    BY <1>1, <1>2, <1>3, <1>4, <1>5, <2>2, <2>3, OwnerStep
<1> QED
  BY <1>4, <1>6, <1>7

LEMMA RemoveEntryNames ==
  ASSUME TypeInv, OwnNames, NameInv, NEW c \in Callers, NEW f \in {"meta", "file"},
         RemoveEntry(c, f)
  PROVE  NameInv'
<1>1. /\ op[c].at = "unlink" /\ UNCHANGED <<collections, held, manager, reused>>
      /\ \A m \in failed : m # op[c].name => m \in failed'
  BY DEF RemoveEntry
<1>2. PICK n \in Names : n = op[c].name
  BY <1>1, NamesOf DEF Named
<1>3. /\ n \in MayCall[c] /\ collections[n] = None
      /\ \A g \in {"meta", "file"} : disk[n] # None /\ g \notin op[c].todo => disk[n][g] = None
  BY <1>1, <1>2 DEF NameInv, Own, Midway, Named
<1>4. /\ Up /\ \A e \in Callers : e # c => op'[e] = op[e]
      /\ op'[c].at = "unlink" /\ op'[c].name = n /\ op'[c].todo = op[c].todo \ {f}
      /\ \A m \in Names : m # n => disk'[m] = disk[m] /\ pool'[m] = pool[m]
      /\ disk[n] = None => disk'[n] = None
      /\ disk[n] # None =>
           /\ disk'[n] # None
           /\ disk'[n].meta = IF f = "meta" THEN None ELSE disk[n].meta
           /\ disk'[n].file = IF f = "file" THEN None ELSE disk[n].file
  BY <1>2, RemoveEntryTypes
<1>5. Restartable(n)'
  BY <1>1, <1>4, CollectionsAssumption DEF NameInv, Restartable, Loadable
<1>6. ASSUME NEW g \in {"meta", "file"}, disk'[n] # None, g \notin op'[c].todo
      PROVE  disk'[n][g] = None
  BY <1>3, <1>4, <1>6
<1>7. Own(c)' /\ Midway(c)'
  BY <1>1, <1>3, <1>4, <1>6 DEF Own, Midway
<1>8. ~Quiet(n)'
  BY <1>4, IdleIsOp DEF Quiet, Saving
<1> QED
  BY <1>1, <1>2, <1>3, <1>4, <1>5, <1>7, <1>8, OwnerStep

LEMMA RemoveDirectoryNames ==
  ASSUME TypeInv, OwnNames, NameInv, NEW c \in Callers, RemoveDirectory(c)
  PROVE  NameInv'
<1>1. /\ op[c].at = "unlink" /\ op[c].todo = {}
      /\ UNCHANGED <<collections, pool, held, manager, reused, failed>>
  BY DEF RemoveDirectory
<1>2. PICK n \in Names : n = op[c].name
  BY <1>1, NamesOf DEF Named
<1>3. /\ n \in MayCall[c] /\ collections[n] = None
      /\ disk[n] # None => disk[n].meta = None
  BY <1>1, <1>2 DEF NameInv, Own, Midway, Named
<1>4. /\ Up /\ op'[c] = Idle /\ \A e \in Callers : e # c => op'[e] = op[e]
      /\ \A m \in Names : m # n => disk'[m] = disk[m]
      /\ disk'[n] \in {disk[n], None}
  BY <1>2, RemoveDirectoryTypes
<1>5. Settled(n)' /\ Restartable(n)'
  BY <1>1, <1>3, <1>4, CollectionsAssumption DEF Settled, Gone, Restartable, Loadable
<1>6. Own(c)' /\ Midway(c)'
  BY <1>4, IdleIsOp DEF Own, Midway, Named
<1> QED
  BY <1>1, <1>2, <1>3, <1>4, <1>5, <1>6, OwnerStep

LEMMA RemoveFailsNames ==
  ASSUME TypeInv, OwnNames, NameInv, NEW c \in Callers, RemoveFails(c)
  PROVE  NameInv'
<1>1. PICK n \in Names : n = op[c].name
  BY RemoveFailsTypes
<1>2. /\ Up /\ op'[c] = Idle /\ \A e \in Callers : e # c => op'[e] = op[e]
      /\ op[c].at \in {"list", "unlink"} /\ failed \subseteq failed' /\ (Loadable(n) => n \in failed')
      /\ UNCHANGED <<collections, pool, held, disk, manager, reused>>
  BY <1>1, RemoveFailsTypes
<1>3. n \in MayCall[c] /\ collections[n] = None
  BY <1>1, <1>2 DEF NameInv, Own, Midway, Named
<1>4. Settled(n)' /\ Restartable(n)'
  BY <1>2, <1>3 DEF NameInv, Settled, Gone, Restartable, Loadable
<1>5. Own(c)' /\ Midway(c)'
  BY <1>2, IdleIsOp DEF Own, Midway, Named
<1> QED
  BY <1>1, <1>2, <1>3, <1>4, <1>5, OwnerStep

LEMMA InsertAliasNames ==
  ASSUME TypeInv, OwnNames, NameInv, NEW c \in Callers, InsertAlias(c)
  PROVE  NameInv'
<1>1. op[c].at = "alias"
  BY DEF InsertAlias
<1>2. PICK n \in Names : n = op[c].name
  BY <1>1, NamesOf DEF Named
<1>3. n \in MayCall[c] /\ Settled(n)
  BY <1>1, <1>2 DEF NameInv, Own, Midway, Named
<1>4. /\ Up /\ op'[c].at = "snapshot" /\ \A e \in Callers : e # c => op'[e] = op[e]
      /\ UNCHANGED <<storing, manager>>
  BY InsertAliasTypes
<1>5. Settled(n)' /\ Restartable(n)'
  BY <1>3, <1>4, SettledStays DEF NameInv, Restartable, Loadable
<1>6. Own(c)' /\ Midway(c)'
  BY <1>4 DEF Own, Midway, Named
<1> QED
  BY <1>2, <1>3, <1>4, <1>5, <1>6, OwnerStep

LEMMA SavingNames ==
  ASSUME TypeInv, NameInv, NEW c \in Callers,
         \/ \E a \in Names : DeleteAlias(c, a)
         \/ SnapshotAliases(c) \/ TruncateAliases(c) \/ WriteAliases(c) \/ SaveFails(c)
  PROVE  NameInv'
<1>1. CASE \E a \in Names : DeleteAlias(c, a)
  BY <1>1, DeleteAliasTypes, SavingStep DEF Saving
<1>2. CASE SnapshotAliases(c)
  BY <1>2, SnapshotAliasesTypes, SavingStep DEF Saving, SnapshotAliases
<1>3. CASE TruncateAliases(c)
  BY <1>3, TruncateAliasesTypes, SavingStep DEF Saving, TruncateAliases
<1>4. CASE WriteAliases(c)
  BY <1>4, WriteAliasesTypes, SavingStep DEF Saving, WriteAliases
<1>5. CASE SaveFails(c)
  BY <1>5, SaveFailsTypes, SavingStep DEF Saving, SaveFails
<1> QED
  BY <1>1, <1>2, <1>3, <1>4, <1>5

LEMMA ClientNames ==
  ASSUME TypeInv, NameInv, NEW n \in Names, GetCollection(n) \/ Release(n)
  PROVE  NameInv'
<1>1. CASE GetCollection(n)
  BY <1>1, GetCollectionTypes, ClientStep DEF GetCollection
<1>2. CASE Release(n)
  BY <1>2, ReleaseTypes, ClientStep DEF Release
<1> QED
  BY <1>1, <1>2

LEMMA StutterNames == NameInv /\ UNCHANGED vars => NameInv'
BY DEF NameInv, vars, Own, Midway, Settled, Gone, Restartable, Loading, Loadable, Backed, Quiet, Saving, Up

LEMMA NextNames == OwnNames /\ TypeInv /\ NameInv /\ [Next]_vars => NameInv'
<1> SUFFICES ASSUME OwnNames, TypeInv, NameInv, [Next]_vars PROVE NameInv'
  OBVIOUS
<1>1. CASE LoadAliases \/ Loaded \/ Crash
  BY <1>1, LoadAliasesNames, LoadedNames, CrashNames
<1>2. ASSUME NEW n \in Names, LoadCollection(n) \/ LoadFails(n) \/ GetCollection(n) \/ Release(n)
      PROVE  NameInv'
  BY <1>2, LoadCollectionNames, LoadFailsNames, ClientNames
<1>3. ASSUME NEW c \in Callers, Call(c) PROVE NameInv'
  BY <1>3, CheckNameNames, CheckExistsNames, CheckAliasNames, SavingNames DEF Call
<1>4. ASSUME NEW c \in Callers, Step(c) PROVE NameInv'
  BY <1>4, MakeDirectoryNames, NewCollectionNames, TruncateMetadataNames, WriteMetadataNames,
     InsertCollectionNames, ScanAliasesNames, RemoveCollectionNames, ListDirectoryNames,
     RemoveEntryNames, RemoveDirectoryNames, InsertAliasNames, SavingNames, CreateFailsNames,
     RemoveFailsNames DEF Step
<1>5. CASE UNCHANGED vars
  BY <1>5, StutterNames
<1> QED
  BY <1>1, <1>2, <1>3, <1>4, <1>5 DEF Next

LEMMA NameInvariant == ASSUME OwnNames PROVE Spec => [](TypeInv /\ NameInv)
<1>1. Init => TypeInv /\ NameInv
  BY InitTypes, InitNames
<1>2. TypeInv /\ NameInv /\ [Next]_vars => (TypeInv /\ NameInv)'
  BY NextTypes, NextNames
<1> QED
  BY <1>1, <1>2, PTL DEF Spec

\* While every name has one caller that creates and deletes it, a restart finds
\* what the map has, with the file of the open database, unless a create found
\* a database or metadata: however often the process died, and whatever else
\* failed before.
THEOREM MapSurvives == ASSUME OwnNames PROVE Spec => []RestartFinds
<1>1. NameInv => RestartFinds
  BY DEF NameInv, RestartFinds, Settled, Backed
<1> QED
  BY <1>1, NameInvariant, PTL

-----------------------------------------------------------------------------
(* Aliases                                                                 *)

LEMMA UpIsNotDown == Up => manager # Down /\ manager.at # "down"
BY DEF Up, Down

LEMMA NotSaving ==
  ASSUME NEW c \in Callers, op[c] = Idle \/ op[c].at \in Named
  PROVE  ~Saving(c)
BY IdleIsOp DEF Saving, Named

LEMMA AliasTargets ==
  ASSUME TypeInv, NEW a \in Names
  PROVE  /\ aliases[a] # None => aliases[a] \in Names
         /\ Readable /\ aliasFile[a] # None => aliasFile[a] \in Names
BY DEF TypeInv, AliasTyped, Readable

\* What could be loaded still can, and nothing else, and failures stay known.
LEMMA LoadableStays ==
  ASSUME \A m \in Names : Loadable(m)' <=> Loadable(m), failed \subseteq failed', NEW m \in Names
  PROVE  (Kept(m) => Kept(m)') /\ (Gone(m) => Gone(m)')
BY DEF Kept, Gone

\* While its owner is not saving aliases, the file has of a name what the map has.
LEMMA FileAsMap ==
  ASSUME OwnNames, AliasInv, ~muddled, Readable, manager # Down,
         NEW c \in Callers, ~Saving(c), NEW n \in MayCall[c],
         NEW a \in Names, aliasFile[a] # None, a = n \/ aliasFile[a] = n
  PROVE  aliases[a] = aliasFile[a]
<1>1. PICK e \in Callers : a \in MayCall[e] /\ aliasFile[a] \in MayCall[e]
  BY DEF AliasInv, WithinOne
<1>2. e = c
  BY <1>1 DEF OwnNames
<1> QED
  BY <1>1, <1>2 DEF AliasInv, Tidy

\* A step of the owner c of n leaves what AliasStep says of e as it was.
LEMMA OthersAliasStep ==
  ASSUME TypeInv, OwnNames, NameInv, AliasInv, NEW c \in Callers, NEW n \in MayCall[c],
         NEW e \in Callers, e # c, op'[e] = op[e], UNCHANGED <<aliases, stray>>,
         \A m \in Names : m # n => (Kept(m) => Kept(m)') /\ (Gone(m) => Gone(m)')
  PROVE  AliasStep(e)'
<1>1. AliasStep(e)
  BY DEF AliasInv
<1>2. CASE op[e].at = "alias"
  <2>1. op[e].name \in MayCall[e] /\ op[e].target \in MayCall[e]
    BY <1>2 DEF NameInv, Own, Named
  <2>2. op[e].name # n /\ op[e].target # n
    BY <2>1 DEF OwnNames
  <2>3. op[e].name \in Names /\ op[e].target \in Names
    BY <2>1, CollectionsAssumption
  <2> QED
    BY <1>1, <1>2, <2>2, <2>3 DEF AliasStep
<1>3. CASE op[e].at # "alias"
  BY <1>1, <1>3 DEF AliasStep, WithinOne
<1> QED
  BY <1>2, <1>3

\* The owner c of n takes a step on the disk: what it takes away from a restart no
\* alias stands for, and what it adds no alias hides.
LEMMA DiskStep ==
  ASSUME TypeInv, OwnNames, NameInv, AliasInv, Up, NEW c \in Callers, NEW n \in MayCall[c],
         UNCHANGED <<aliasing, manager>>, ~Saving(c), ~Saving(c)',
         \A e \in Callers : e # c => op'[e] = op[e],
         \A m \in Names : m # n => (Kept(m) => Kept(m)') /\ (Gone(m) => Gone(m)'),
         (Kept(n) => Kept(n)') \/ \A a \in Names : aliases[a] # n,
         (Gone(n) => Gone(n)') \/ aliases[n] = None,
         AliasStep(c)'
  PROVE  AliasInv'
<1>1. \A e \in Callers : AliasStep(e)'
  BY OthersAliasStep
<1>2. \A e \in Callers : Saving(e)' <=> Saving(e)
  BY DEF Saving
<1>3. WithinOne(aliases)' /\ (Readable' => WithinOne(aliasFile)')
  BY DEF AliasInv, WithinOne, Readable
<1>4. Restored(aliases)'
  <2> SUFFICES ASSUME NEW a \in Names, aliases[a] # None, a \notin stray
               PROVE  Kept(aliases[a])' /\ Gone(a)'
    BY DEF Restored
  <2>1. Kept(aliases[a]) /\ Gone(a) /\ aliases[a] \in Names
    BY AliasTargets DEF AliasInv, Restored
  <2> QED
    BY <2>1
<1>5. ASSUME ~muddled PROVE Tidy'
  <2>1. Tidy
    BY <1>5 DEF AliasInv
  <2>2. ASSUME Readable PROVE Restored(aliasFile)'
    <3> SUFFICES ASSUME NEW a \in Names, aliasFile[a] # None, a \notin stray
                 PROVE  Kept(aliasFile[a])' /\ Gone(a)'
      BY DEF Restored
    <3>1. Kept(aliasFile[a]) /\ Gone(a) /\ aliasFile[a] \in Names
      BY <2>1, <2>2, AliasTargets DEF Tidy, Restored
    <3>2. a = n \/ aliasFile[a] = n => aliases[a] = aliasFile[a]
      BY <1>5, <2>2, UpIsNotDown, FileAsMap
    <3> QED
      BY <3>1, <3>2
  <2>3. \A e \in Callers : op[e].at \in {"clear", "save"} => op'[e] = op[e]
    BY DEF Saving
  <2>4. \A e \in Callers : op'[e].at \in {"clear", "save"} => op'[e] = op[e]
    BY DEF Saving
  <2>5. Readable' <=> Readable
    BY DEF Readable
  <2> QED
    BY <1>2, <2>1, <2>2, <2>4, <2>5, UpIsNotDown DEF Tidy
<1> QED
  BY <1>1, <1>3, <1>4, <1>5 DEF AliasInv

\* Such a step that leaves a restart what it finds.
LEMMA OwnerLeavesAliases ==
  ASSUME TypeInv, OwnNames, NameInv, AliasInv, Up, NEW c \in Callers, NEW n \in MayCall[c],
         UNCHANGED <<aliasing, manager>>, ~Saving(c), ~Saving(c)',
         \A e \in Callers : e # c => op'[e] = op[e],
         \A m \in Names : Loadable(m)' <=> Loadable(m), failed \subseteq failed', AliasStep(c)'
  PROVE  AliasInv'
<1>1. n \in Names
  BY CollectionsAssumption
<1> QED
  BY <1>1, LoadableStays, DiskStep

\* Steps of nobody that is in a call.
LEMMA StillAliases ==
  ASSUME TypeInv, AliasInv, UNCHANGED <<aliasing, op>>, manager # Down \/ manager' = manager,
         \A m \in Names : (Kept(m) => Kept(m)') /\ (Gone(m) => Gone(m)'),
         \A c \in Callers : op[c].at # "alias" \/ UNCHANGED <<disk, failed>>
  PROVE  AliasInv'
<1>1. WithinOne(aliases)' /\ (Readable' => WithinOne(aliasFile)')
  BY DEF AliasInv, WithinOne, Readable
<1>2. Restored(aliases)'
  BY AliasTargets DEF AliasInv, Restored
<1>3. ASSUME NEW c \in Callers PROVE AliasStep(c)'
  BY DEF AliasInv, AliasStep, WithinOne, Kept, Gone, Loadable
<1>4. ASSUME ~muddled PROVE Tidy'
  <2>1. Tidy
    BY <1>4 DEF AliasInv
  <2>2. Readable' => Restored(aliasFile)'
    BY <2>1, AliasTargets DEF Tidy, Restored, Readable
  <2> QED
    BY <2>1, <2>2 DEF Tidy, Saving, Readable
<1> QED
  BY <1>1, <1>2, <1>3, <1>4 DEF AliasInv

LEMMA InitAliases == Init => AliasInv
<1> SUFFICES ASSUME Init PROVE AliasInv
  OBVIOUS
<1>1. \A a \in Names : aliases[a] = None /\ aliasFile[a] = None
  BY DEF Init, NoNames
<1>2. WithinOne(aliases) /\ WithinOne(aliasFile) /\ Restored(aliases) /\ Restored(aliasFile)
  BY <1>1 DEF WithinOne, Restored
<1>3. \A c \in Callers : op[c] = Idle
  BY DEF Init
<1>4. \A c \in Callers : AliasStep(c) /\ ~Saving(c)
  BY <1>3, IdleIsOp DEF AliasStep, Saving
<1>5. aliasFile = aliases
  BY DEF Init
<1>6. Tidy
  BY <1>2, <1>4, <1>5 DEF Tidy, Saving
<1> QED
  BY <1>2, <1>4, <1>6 DEF AliasInv

LEMMA LoadAliasesAliases == TypeInv /\ AliasInv /\ LoadAliases => AliasInv'
<1> SUFFICES ASSUME TypeInv, AliasInv, LoadAliases PROVE AliasInv'
  OBVIOUS
<1>1. /\ UNCHANGED <<storing, aliasFile, op>> /\ aliases' = aliasFile /\ Readable
      /\ stray' = (IF muddled THEN stray \cup {a \in Names : aliasFile[a] # None} ELSE stray)
      /\ manager = Down
  BY DEF LoadAliases, Readable
<1>2. WithinOne(aliasFile)' /\ WithinOne(aliases)'
  BY <1>1 DEF AliasInv, WithinOne
<1>3. Restored(aliasFile)' /\ Restored(aliases)'
  <2>1. CASE muddled
    BY <1>1, <2>1 DEF Restored
  <2>2. CASE ~muddled
    BY <1>1, <2>2 DEF AliasInv, Tidy, Restored, Kept, Gone, Loadable
  <2> QED
    BY <2>1, <2>2
<1>4. \A c \in Callers : op'[c] = Idle
  BY <1>1 DEF TypeInv, ManagerTyped, Up, Down
<1>5. \A c \in Callers : AliasStep(c)' /\ ~Saving(c)'
  BY <1>4, IdleIsOp DEF AliasStep, Saving
<1>6. Tidy'
  BY <1>1, <1>3, <1>5 DEF Tidy, Saving
<1> QED
  BY <1>2, <1>3, <1>5, <1>6 DEF AliasInv

\* new loads collections, or passes them over, while nobody is in a call.
LEMMA LoadingAliases ==
  ASSUME TypeInv, AliasInv,
         Loaded \/ \E n \in Names : LoadCollection(n) \/ LoadFails(n)
  PROVE  AliasInv'
<1>1. /\ manager.at = "loading" /\ \A m \in Names : Loadable(m)' <=> Loadable(m)
      /\ failed \subseteq failed' /\ UNCHANGED <<aliasing, op>>
  <2>1. CASE Loaded
    BY <2>1 DEF Loaded, Loadable
  <2>2. ASSUME NEW n \in Names, LoadCollection(n)
        PROVE  /\ manager.at = "loading" /\ \A m \in Names : Loadable(m)' <=> Loadable(m)
               /\ failed \subseteq failed' /\ UNCHANGED <<aliasing, op>>
    BY <2>2, LoadCollectionTypes DEF LoadCollection
  <2>3. ASSUME NEW n \in Names, LoadFails(n)
        PROVE  /\ manager.at = "loading" /\ \A m \in Names : Loadable(m)' <=> Loadable(m)
               /\ failed \subseteq failed' /\ UNCHANGED <<aliasing, op>>
    BY <2>3, LoadFailsTypes DEF LoadFails
  <2> QED
    BY <2>1, <2>2, <2>3
<1>2. manager # Down /\ ~Up
  BY <1>1 DEF Down, Up
<1>3. \A c \in Callers : op[c].at # "alias"
  BY <1>2, IdleIsOp DEF TypeInv, ManagerTyped
<1> QED
  BY <1>1, <1>2, <1>3, LoadableStays, StillAliases

LEMMA CrashAliases == TypeInv /\ AliasInv /\ Crash => AliasInv'
<1> SUFFICES ASSUME TypeInv, AliasInv, Crash PROVE AliasInv'
  OBVIOUS
<1>1. UNCHANGED <<disk, aliasFile, failed, muddled, stray>> /\ aliases' = NoNames /\ manager' = Down
  BY DEF Crash
<1>2. WithinOne(aliases)' /\ Restored(aliases)'
  BY <1>1 DEF WithinOne, Restored, NoNames
<1>3. Readable' => WithinOne(aliasFile)'
  BY <1>1 DEF AliasInv, WithinOne, Readable
<1>4. \A c \in Callers : AliasStep(c)' /\ ~Saving(c)'
  BY CrashTypes, IdleIsOp DEF AliasStep, Saving
<1>5. ~muddled => (Readable' => Restored(aliasFile)')
  BY <1>1 DEF AliasInv, Tidy, Restored, Kept, Gone, Loadable, Readable
<1>6. ~muddled' => Tidy'
  BY <1>1, <1>4, <1>5 DEF Tidy, Saving
<1> QED
  BY <1>2, <1>3, <1>4, <1>6 DEF AliasInv

LEMMA CheckNameAliases ==
  ASSUME TypeInv, OwnNames, NameInv, AliasInv, NEW c \in Callers, NEW n \in Names, NEW x \in Configs,
         CheckName(c, n, x)
  PROVE  AliasInv'
<1>1. n \in MayCall[c] /\ aliases[n] = None /\ UNCHANGED <<aliasing, storing, manager>>
  BY DEF CheckName
<1>2. /\ Up /\ op[c] = Idle /\ op'[c].at = "open" /\ op'[c].name = n
      /\ \A e \in Callers : e # c => op'[e] = op[e]
  BY CheckNameTypes
<1>3. AliasStep(c)' /\ ~Saving(c) /\ ~Saving(c)'
  BY <1>1, <1>2, NotSaving DEF AliasStep, Saving
<1>4. \A m \in Names : Loadable(m)' <=> Loadable(m)
  BY <1>1 DEF Loadable
<1> QED
  BY <1>1, <1>2, <1>3, <1>4, OwnerLeavesAliases

LEMMA CheckExistsAliases ==
  ASSUME TypeInv, OwnNames, NameInv, AliasInv, NEW c \in Callers, NEW n \in Names, CheckExists(c, n)
  PROVE  AliasInv'
<1>1. n \in MayCall[c] /\ UNCHANGED <<aliasing, storing, manager>>
  BY DEF CheckExists
<1>2. /\ Up /\ op[c] = Idle /\ op'[c].at = "scan"
      /\ \A e \in Callers : e # c => op'[e] = op[e]
  BY CheckExistsTypes
<1>3. AliasStep(c)' /\ ~Saving(c) /\ ~Saving(c)'
  BY <1>1, <1>2, NotSaving DEF AliasStep, Saving
<1>4. \A m \in Names : Loadable(m)' <=> Loadable(m)
  BY <1>1 DEF Loadable
<1> QED
  BY <1>1, <1>2, <1>3, <1>4, OwnerLeavesAliases

\* The names are settled, since their owner is in no other call.
LEMMA CheckAliasAliases ==
  ASSUME TypeInv, OwnNames, NameInv, AliasInv, NEW c \in Callers, NEW n \in Names, NEW a \in Names,
         CheckNewAlias(c, a, n) \/ CheckSwitch(c, a, n)
  PROVE  AliasInv'
<1>1. a \in MayCall[c] /\ n \in MayCall[c] /\ collections[n] # None
  BY DEF CheckNewAlias, CheckSwitch
<1>2. /\ Up /\ op[c] = Idle /\ op'[c].at = "alias" /\ op'[c].name = a /\ op'[c].target = n
      /\ \A e \in Callers : e # c => op'[e] = op[e]
      /\ UNCHANGED <<aliasing, storing, manager>>
  BY CheckAliasTypes
<1>3. Settled(a) /\ Settled(n)
  BY <1>1, <1>2, QuietByOwner DEF NameInv
<1>4. Kept(n)
  BY <1>1, <1>3 DEF Settled, Kept
<1>5. Gone(a) \/ (a \in stray /\ aliases[a] # None)
  <2>1. CASE CheckNewAlias(c, a, n)
    BY <1>3, <2>1 DEF CheckNewAlias, Settled
  <2>2. CASE CheckSwitch(c, a, n)
    BY <2>2 DEF CheckSwitch, AliasInv, Restored
  <2> QED
    BY <2>1, <2>2
<1>6. Kept(n)' /\ (Gone(a) => Gone(a)') /\ \A m \in Names : Loadable(m)' <=> Loadable(m)
  BY <1>2, <1>4 DEF Kept, Gone, Loadable
<1>7. AliasStep(c)' /\ ~Saving(c) /\ ~Saving(c)'
  BY <1>2, <1>5, <1>6, NotSaving DEF AliasStep, Saving
<1> QED
  BY <1>1, <1>2, <1>6, <1>7, OwnerLeavesAliases

LEMMA MakeDirectoryAliases ==
  ASSUME TypeInv, OwnNames, NameInv, AliasInv, NEW c \in Callers, MakeDirectory(c)
  PROVE  AliasInv'
<1>1. op[c].at = "open" /\ UNCHANGED <<aliasing, failed, manager>>
  BY DEF MakeDirectory
<1>2. op[c].name \in MayCall[c] /\ ~Saving(c)
  BY <1>1, NotSaving DEF NameInv, Own, Named
<1>3. /\ Up /\ op'[c].at = "database" /\ op'[c].name = op[c].name
      /\ \A e \in Callers : e # c => op'[e] = op[e]
      /\ \A m \in Names : Loadable(m)' <=> Loadable(m)
  BY MakeDirectoryTypes
<1>4. AliasStep(c)' /\ ~Saving(c)'
  BY <1>1, <1>3 DEF AliasStep, AliasInv, Saving
<1> QED
  BY <1>1, <1>2, <1>3, <1>4, OwnerLeavesAliases

LEMMA NewCollectionAliases ==
  ASSUME TypeInv, OwnNames, NameInv, AliasInv, NEW c \in Callers, NewCollection(c)
  PROVE  AliasInv'
<1>1. op[c].at = "database" /\ UNCHANGED <<aliasing, failed, manager>>
  BY DEF NewCollection
<1>2. op[c].name \in MayCall[c] /\ ~Saving(c)
  BY <1>1, NotSaving DEF NameInv, Own, Named
<1>3. /\ Up /\ \A e \in Callers : e # c => op'[e] = op[e]
      /\ \A m \in Names : Loadable(m)' <=> Loadable(m)
      /\ op'[c] = Idle \/ (op'[c].at = "truncate" /\ op'[c].name = op[c].name)
  BY NewCollectionTypes
<1>4. AliasStep(c)' /\ ~Saving(c)'
  BY <1>1, <1>3, IdleIsOp DEF AliasStep, AliasInv, Saving
<1> QED
  BY <1>1, <1>2, <1>3, <1>4, OwnerLeavesAliases

\* Readable metadata that is truncated is known to be of a failure.
LEMMA TruncateMetadataAliases ==
  ASSUME TypeInv, OwnNames, NameInv, AliasInv, NEW c \in Callers, TruncateMetadata(c)
  PROVE  AliasInv'
<1>1. op[c].at = "truncate" /\ UNCHANGED <<aliasing, failed, manager>>
  BY DEF TruncateMetadata
<1>2. PICK n \in Names : n = op[c].name
  BY <1>1, NamesOf DEF Named
<1>3. n \in MayCall[c] /\ ~Saving(c) /\ Gone(n)
  BY <1>1, <1>2, NotSaving DEF NameInv, Own, Midway, Named
<1>4. /\ Up /\ \A e \in Callers : e # c => op'[e] = op[e]
      /\ \A m \in Names : m # n => disk'[m] = disk[m]
      /\ \/ op'[c] = Idle /\ disk[n] = None /\ disk' = disk
         \/ /\ op'[c].at = "write" /\ op'[c].name = n
            /\ disk'[n] # None /\ disk'[n].meta = Empty
  BY <1>2, TruncateMetadataTypes
<1>5. ~Loadable(n)'
  BY <1>4, CollectionsAssumption DEF Loadable
<1>6. /\ \A m \in Names : m # n => (Kept(m) => Kept(m)') /\ (Gone(m) => Gone(m)')
      /\ (Kept(n) => Kept(n)') /\ Gone(n)'
  BY <1>1, <1>3, <1>4, <1>5 DEF Loadable, Kept, Gone
<1>7. AliasStep(c)' /\ ~Saving(c)'
  BY <1>1, <1>2, <1>4, IdleIsOp DEF AliasStep, AliasInv, Saving
<1> QED
  BY <1>1, <1>3, <1>4, <1>6, <1>7, DiskStep

LEMMA WriteMetadataAliases ==
  ASSUME TypeInv, OwnNames, NameInv, AliasInv, NEW c \in Callers, WriteMetadata(c)
  PROVE  AliasInv'
<1>1. op[c].at = "write" /\ UNCHANGED <<aliasing, failed, manager>>
  BY DEF WriteMetadata
<1>2. PICK n \in Names : n = op[c].name
  BY <1>1, NamesOf DEF Named
<1>3. n \in MayCall[c] /\ ~Saving(c) /\ disk[n] # None /\ disk[n].meta = Empty /\ aliases[n] = None
  BY <1>1, <1>2, NotSaving DEF NameInv, Own, Midway, Named, AliasInv, AliasStep
<1>4. /\ Up /\ \A e \in Callers : e # c => op'[e] = op[e] /\ op[c].config \in Configs
      /\ \A m \in Names : m # n => disk'[m] = disk[m]
      /\ op'[c].at = "insert" /\ op'[c].name = n
      /\ disk'[n] # None /\ disk'[n].meta = op[c].config
  BY <1>2, <1>3, WriteMetadataTypes DEF CreateOps
<1>5. Loadable(n)'
  BY <1>2, <1>3, <1>4, WriteMetadataTypes DEF Loadable, CreateOps
<1>6. /\ \A m \in Names : m # n => (Kept(m) => Kept(m)') /\ (Gone(m) => Gone(m)')
      /\ Kept(n)'
  BY <1>1, <1>4, <1>5 DEF Loadable, Kept, Gone
<1>7. AliasStep(c)' /\ ~Saving(c)'
  BY <1>1, <1>3, <1>4 DEF AliasStep, Saving
<1> QED
  BY <1>1, <1>3, <1>4, <1>6, <1>7, DiskStep

\* At most metadata that could not be read is garbled.
LEMMA CreateFailsAliases ==
  ASSUME TypeInv, OwnNames, NameInv, AliasInv, NEW c \in Callers, CreateFails(c)
  PROVE  AliasInv'
<1>1. /\ op[c].at \in {"open", "database", "truncate", "write"}
      /\ UNCHANGED <<aliasing, failed, manager>>
  BY DEF CreateFails
<1>2. PICK n \in Names : n = op[c].name
  BY <1>1, NamesOf DEF Named
<1>3. n \in MayCall[c] /\ ~Saving(c) /\ (op[c].at = "write" => disk[n] # None /\ disk[n].meta = Empty)
  BY <1>1, <1>2, NotSaving DEF NameInv, Own, Midway, Named
<1>4. /\ Up /\ op'[c] = Idle /\ \A e \in Callers : e # c => op'[e] = op[e]
      /\ \A m \in Names : m # n => disk'[m] = disk[m]
      /\ \A m \in Names : Loadable(m)' => Loadable(m)
      /\ op[c].at # "write" => disk' = disk
  BY <1>2, CreateFailsTypes
<1>5. op[c].at = "write" => ~Loadable(n)
  BY <1>3, CollectionsAssumption DEF Loadable
<1>6. \A m \in Names : Loadable(m)' <=> Loadable(m)
  BY <1>4, <1>5 DEF Loadable
<1>7. AliasStep(c)' /\ ~Saving(c)'
  BY <1>4, IdleIsOp DEF AliasStep, Saving
<1> QED
  BY <1>1, <1>3, <1>4, <1>6, <1>7, OwnerLeavesAliases

LEMMA InsertCollectionAliases ==
  ASSUME TypeInv, OwnNames, NameInv, AliasInv, NEW c \in Callers, InsertCollection(c)
  PROVE  AliasInv'
<1>1. op[c].at = "insert" /\ UNCHANGED <<aliasing, disk, manager>> /\ failed' = failed \ {op[c].name}
  BY DEF InsertCollection
<1>2. PICK n \in Names : n = op[c].name
  BY <1>1, NamesOf DEF Named
<1>3. n \in MayCall[c] /\ ~Saving(c) /\ aliases[n] = None /\ disk[n] # None /\ disk[n].meta = op[c].config
  BY <1>1, <1>2, NotSaving DEF NameInv, Own, Midway, Named, AliasInv, AliasStep
<1>4. /\ Up /\ op'[c] = Idle /\ op[c].config \in Configs
      /\ \A e \in Callers : e # c => op'[e] = op[e]
  BY InsertCollectionTypes
<1>5. /\ \A m \in Names : m # n => (Kept(m) => Kept(m)') /\ (Gone(m) => Gone(m)')
      /\ Kept(n)'
  BY <1>1, <1>2, <1>3, <1>4 DEF Loadable, Kept, Gone
<1>6. AliasStep(c)' /\ ~Saving(c)'
  BY <1>4, IdleIsOp DEF AliasStep, Saving
<1> QED
  BY <1>1, <1>3, <1>4, <1>5, <1>6, DiskStep

LEMMA ScanAliasesAliases ==
  ASSUME TypeInv, OwnNames, NameInv, AliasInv, NEW c \in Callers, ScanAliases(c)
  PROVE  AliasInv'
<1>1. op[c].at = "scan" /\ UNCHANGED <<aliasing, storing, manager>>
  BY DEF ScanAliases
<1>2. op[c].name \in MayCall[c] /\ ~Saving(c)
  BY <1>1, NotSaving DEF NameInv, Own, Named
<1>3. /\ Up /\ \A e \in Callers : e # c => op'[e] = op[e]
      /\ \/ op'[c] = Idle
         \/ /\ op'[c].at = "remove" /\ op'[c].name = op[c].name
            /\ \A a \in Names : aliases[a] # op[c].name
  BY ScanAliasesTypes
<1>4. AliasStep(c)' /\ ~Saving(c)'
  BY <1>1, <1>3, IdleIsOp DEF AliasStep, Saving
<1>5. \A m \in Names : Loadable(m)' <=> Loadable(m)
  BY <1>1 DEF Loadable
<1> QED
  BY <1>1, <1>2, <1>3, <1>4, <1>5, OwnerLeavesAliases

LEMMA RemoveCollectionAliases ==
  ASSUME TypeInv, OwnNames, NameInv, AliasInv, NEW c \in Callers, RemoveCollection(c)
  PROVE  AliasInv'
<1>1. op[c].at = "remove" /\ UNCHANGED <<aliasing, disk, failed, manager>>
  BY DEF RemoveCollection
<1>2. op[c].name \in MayCall[c] /\ ~Saving(c)
  BY <1>1, NotSaving DEF NameInv, Own, Named
<1>3. /\ Up /\ op'[c].at = "list" /\ op'[c].name = op[c].name
      /\ \A e \in Callers : e # c => op'[e] = op[e]
  BY RemoveCollectionTypes
<1>4. AliasStep(c)' /\ ~Saving(c)'
  BY <1>1, <1>3 DEF AliasStep, AliasInv, Saving
<1>5. \A m \in Names : Loadable(m)' <=> Loadable(m)
  BY <1>1 DEF Loadable
<1> QED
  BY <1>1, <1>2, <1>3, <1>4, <1>5, OwnerLeavesAliases

LEMMA ListDirectoryAliases ==
  ASSUME TypeInv, OwnNames, NameInv, AliasInv, NEW c \in Callers, ListDirectory(c)
  PROVE  AliasInv'
<1>1. op[c].at = "list" /\ UNCHANGED <<aliasing, storing, manager>>
  BY DEF ListDirectory
<1>2. op[c].name \in MayCall[c] /\ ~Saving(c)
  BY <1>1, NotSaving DEF NameInv, Own, Named
<1>3. /\ Up /\ \A e \in Callers : e # c => op'[e] = op[e]
      /\ op'[c] = Idle \/ (op'[c].at = "unlink" /\ op'[c].name = op[c].name)
  BY ListDirectoryTypes
<1>4. AliasStep(c)' /\ ~Saving(c)'
  BY <1>1, <1>3, IdleIsOp DEF AliasStep, AliasInv, Saving
<1>5. \A m \in Names : Loadable(m)' <=> Loadable(m)
  BY <1>1 DEF Loadable
<1> QED
  BY <1>1, <1>2, <1>3, <1>4, <1>5, OwnerLeavesAliases

LEMMA RemoveEntryAliases ==
  ASSUME TypeInv, OwnNames, NameInv, AliasInv, NEW c \in Callers,
         NEW f \in {"meta", "file"}, RemoveEntry(c, f)
  PROVE  AliasInv'
<1>1. /\ op[c].at = "unlink" /\ UNCHANGED <<aliasing, manager>>
      /\ failed' = IF f = "meta" THEN failed \ {op[c].name} ELSE failed
  BY DEF RemoveEntry
<1>2. PICK n \in Names : n = op[c].name
  BY <1>1, NamesOf DEF Named
<1>3. n \in MayCall[c] /\ ~Saving(c) /\ \A a \in Names : aliases[a] # n
  BY <1>1, <1>2, NotSaving DEF NameInv, Own, Named, AliasInv, AliasStep
<1>4. /\ Up /\ \A e \in Callers : e # c => op'[e] = op[e]
      /\ op'[c].at = "unlink" /\ op'[c].name = n
      /\ \A m \in Names : m # n => disk'[m] = disk[m]
      /\ disk[n] = None => disk'[n] = None
      /\ disk[n] # None =>
           disk'[n] # None /\ disk'[n].meta = (IF f = "meta" THEN None ELSE disk[n].meta)
  BY <1>2, RemoveEntryTypes
<1>5. Gone(n) => Gone(n)'
  BY <1>1, <1>2, <1>4, CollectionsAssumption DEF Loadable, Gone
<1>6. \A m \in Names : m # n => (Kept(m) => Kept(m)') /\ (Gone(m) => Gone(m)')
  BY <1>1, <1>2, <1>4 DEF Loadable, Kept, Gone
<1>7. AliasStep(c)' /\ ~Saving(c)'
  BY <1>1, <1>3, <1>4 DEF AliasStep, Saving
<1> QED
  BY <1>1, <1>3, <1>4, <1>5, <1>6, <1>7, DiskStep

LEMMA RemoveDirectoryAliases ==
  ASSUME TypeInv, OwnNames, NameInv, AliasInv, NEW c \in Callers, RemoveDirectory(c)
  PROVE  AliasInv'
<1>1. op[c].at = "unlink" /\ op[c].todo = {} /\ UNCHANGED <<aliasing, failed, manager>>
  BY DEF RemoveDirectory
<1>2. PICK n \in Names : n = op[c].name
  BY <1>1, NamesOf DEF Named
<1>3. n \in MayCall[c] /\ ~Saving(c) /\ (disk[n] # None => disk[n].meta = None)
  BY <1>1, <1>2, NotSaving DEF NameInv, Own, Midway, Named
<1>4. /\ Up /\ op'[c] = Idle /\ \A e \in Callers : e # c => op'[e] = op[e]
      /\ \A m \in Names : m # n => disk'[m] = disk[m]
      /\ disk'[n] \in {disk[n], None}
  BY <1>2, RemoveDirectoryTypes
<1>5. \A m \in Names : Loadable(m)' <=> Loadable(m)
  BY <1>3, <1>4, CollectionsAssumption DEF Loadable
<1>6. AliasStep(c)' /\ ~Saving(c)'
  BY <1>4, IdleIsOp DEF AliasStep, Saving
<1> QED
  BY <1>1, <1>3, <1>4, <1>5, <1>6, OwnerLeavesAliases

LEMMA RemoveFailsAliases ==
  ASSUME TypeInv, OwnNames, NameInv, AliasInv, NEW c \in Callers, RemoveFails(c)
  PROVE  AliasInv'
<1>1. /\ Up /\ op'[c] = Idle /\ \A e \in Callers : e # c => op'[e] = op[e]
      /\ op[c].at \in {"list", "unlink"} /\ failed \subseteq failed'
      /\ UNCHANGED <<aliasing, disk, manager>>
  BY RemoveFailsTypes
<1>2. op[c].name \in MayCall[c] /\ ~Saving(c)
  BY <1>1, NotSaving DEF NameInv, Own, Named
<1>3. \A m \in Names : Loadable(m)' <=> Loadable(m)
  BY <1>1 DEF Loadable
<1>4. AliasStep(c)' /\ ~Saving(c)'
  BY <1>1, IdleIsOp DEF AliasStep, Saving
<1> QED
  BY <1>1, <1>2, <1>3, <1>4, OwnerLeavesAliases

\* A caller changes the map: unless others are saving, the file has what the map
\* had.
LEMMA MapStep ==
  ASSUME TypeInv, OwnNames, NameInv, AliasInv, Up, NEW c \in Callers, ~Saving(c),
         NEW a \in MayCall[c], a \in Names,
         \A b \in Names : b # a => aliases'[b] = aliases[b],
         \/ aliases'[a] = None
         \/ aliases'[a] \in MayCall[c] /\ Kept(aliases'[a]) /\ (Gone(a) \/ a \in stray),
         muddled' = (muddled \/ ~SavesAlone(c)),
         op'[c].at = "snapshot", \A e \in Callers : e # c => op'[e] = op[e],
         UNCHANGED <<storing, aliasFile, stray, manager>>
  PROVE  AliasInv'
<1>1. \A m : (Kept(m)' <=> Kept(m)) /\ (Gone(m)' <=> Gone(m))
  BY DEF Kept, Gone, Loadable
<1>2. WithinOne(aliases)' /\ (Readable' => WithinOne(aliasFile)')
  BY DEF AliasInv, WithinOne, Readable
<1>3. Restored(aliases)'
  <2> SUFFICES ASSUME NEW b \in Names, aliases'[b] # None, b \notin stray
               PROVE  Kept(aliases'[b]) /\ Gone(b)
    BY <1>1 DEF Restored
  <2>1. CASE b = a
    BY <2>1
  <2>2. CASE b # a
    BY <2>2 DEF AliasInv, Restored
  <2> QED
    BY <2>1, <2>2
<1>4. AliasStep(c)'
  BY DEF AliasStep
<1>5. ASSUME NEW e \in Callers, e # c PROVE AliasStep(e)'
  <2>1. op'[e] = op[e] /\ AliasStep(e)
    BY <1>5 DEF AliasInv
  <2>2. ASSUME op[e].at \in {"open", "database", "truncate", "write", "insert"}
        PROVE  aliases'[op[e].name] = None
    <3>1. op[e].name # a /\ op[e].name \in Names
      BY <1>5, <2>2, OwnerAlone, NamesOf DEF Named
    <3> QED
      BY <2>1, <2>2, <3>1 DEF AliasStep
  <2>3. ASSUME op[e].at \in {"remove", "list", "unlink"}, NEW b \in Names
        PROVE  aliases'[b] # op[e].name
    <3>1. op[e].name \in Names /\ op[e].name # aliases'[a]
      <4>1. op[e].name \in Names
        BY <2>3, NamesOf DEF Named
      <4>2. CASE aliases'[a] = None
        BY <4>1, <4>2, CollectionsAssumption
      <4>3. CASE aliases'[a] \in MayCall[c]
        BY <1>5, <2>3, <4>1, <4>3, OwnerAlone DEF Named
      <4> QED
        BY <4>1, <4>2, <4>3
    <3> QED
      BY <2>1, <2>3, <3>1 DEF AliasStep
  <2>4. ASSUME op[e].at = "alias"
        PROVE  /\ Kept(op[e].target)
               /\ Gone(op[e].name) \/ (op[e].name \in stray /\ aliases'[op[e].name] # None)
    <3>1. op[e].name # a /\ op[e].name \in Names
      BY <1>5, <2>4, OwnerAlone, NamesOf DEF Named
    <3> QED
      BY <2>1, <2>4, <3>1 DEF AliasStep
  <2>5. op[e].at \in {"clear", "save"} => WithinOne(op[e].copy)
    BY <2>1 DEF AliasStep
  <2> QED
    BY <1>1, <2>1, <2>2, <2>3, <2>4, <2>5 DEF AliasStep, WithinOne
<1>6. ASSUME ~muddled' PROVE Tidy'
  <2>1. Tidy /\ SavesAlone(c)
    BY <1>6 DEF AliasInv
  <2>2. \A e \in Callers : ~Saving(e) /\ (Saving(e)' <=> e = c)
    BY <2>1 DEF SavesAlone, Saving
  <2>3. aliasFile = aliases
    BY <2>1, <2>2, UpIsNotDown DEF Tidy
  <2>4. Readable' => Restored(aliasFile)'
    BY <1>1, <2>1 DEF Tidy, Restored, Readable
  <2>5. ASSUME NEW e \in Callers, e # c, NEW b \in MayCall[e] PROVE aliasFile[b] = aliases'[b]
    <3>1. b # a /\ b \in Names
      BY <2>5, CollectionsAssumption DEF OwnNames
    <3> QED
      BY <2>3, <3>1
  <2>6. \A e \in Callers : op'[e].at \notin {"clear", "save"}
    BY <2>2 DEF Saving
  <2> QED
    BY <2>2, <2>4, <2>5, <2>6 DEF Tidy
<1> QED
  BY <1>2, <1>3, <1>4, <1>5, <1>6 DEF AliasInv

LEMMA DeleteAliasAliases ==
  ASSUME TypeInv, OwnNames, NameInv, AliasInv, NEW c \in Callers, NEW a \in Names,
         DeleteAlias(c, a)
  PROVE  AliasInv'
<1>1. /\ a \in MayCall[c] /\ aliases' = [aliases EXCEPT ![a] = None]
      /\ muddled' = (muddled \/ ~SavesAlone(c))
  BY DEF DeleteAlias
<1>2. /\ Up /\ op[c] = Idle /\ op'[c].at = "snapshot" /\ \A d \in Callers : d # c => op'[d] = op[d]
      /\ UNCHANGED <<storing, aliasFile, stray, manager>>
  BY DeleteAliasTypes
<1>3. aliases'[a] = None /\ \A b \in Names : b # a => aliases'[b] = aliases[b]
  BY <1>1 DEF TypeInv, AliasTyped
<1>4. ~Saving(c)
  BY <1>2, NotSaving
<1> QED
  BY <1>1, <1>2, <1>3, <1>4, MapStep

LEMMA InsertAliasAliases ==
  ASSUME TypeInv, OwnNames, NameInv, AliasInv, NEW c \in Callers, InsertAlias(c)
  PROVE  AliasInv'
<1>1. op[c].at = "alias" /\ muddled' = (muddled \/ ~SavesAlone(c))
  BY DEF InsertAlias
<1>2. PICK a \in Names : a = op[c].name
  BY <1>1, NamesOf DEF Named
<1>3. /\ Up /\ op'[c].at = "snapshot" /\ \A e \in Callers : e # c => op'[e] = op[e]
      /\ aliases'[a] = op[c].target /\ \A b \in Names : b # a => aliases'[b] = aliases[b]
      /\ UNCHANGED <<storing, aliasFile, stray, manager>>
  BY <1>2, InsertAliasTypes
<1>4. a \in MayCall[c] /\ op[c].target \in MayCall[c] /\ ~Saving(c)
  BY <1>1, <1>2, NotSaving DEF NameInv, Own, Named
<1>5. Kept(op[c].target) /\ (Gone(a) \/ a \in stray)
  BY <1>1, <1>2 DEF AliasInv, AliasStep
<1> QED
  BY <1>1, <1>3, <1>4, <1>5, MapStep

\* save_aliases goes on: only its caller moves, and the map stays.
LEMMA SaveStep ==
  ASSUME TypeInv, NameInv, AliasInv, Up, NEW c \in Callers, Saving(c),
         UNCHANGED <<storing, aliases, manager>>, stray' \subseteq stray,
         \A a \in Names : a \in stray /\ aliases[a] # None => a \in stray',
         \A e \in Callers : e # c => op'[e] = op[e],
         Readable' => WithinOne(aliasFile)', AliasStep(c)',
         ~muddled' => Tidy'
  PROVE  AliasInv'
<1>1. \A m : (Kept(m)' <=> Kept(m)) /\ (Gone(m)' <=> Gone(m))
  BY DEF Kept, Gone, Loadable
<1>2. WithinOne(aliases)'
  BY DEF AliasInv, WithinOne
<1>3. Restored(aliases)'
  BY <1>1 DEF AliasInv, Restored
<1>4. ASSUME NEW e \in Callers, e # c PROVE AliasStep(e)'
  <2>1. op'[e] = op[e] /\ AliasStep(e)
    BY <1>4 DEF AliasInv
  <2>2. op[e].at = "alias" => op[e].name \in Names
    BY NamesOf DEF Named
  <2> QED
    BY <1>1, <2>1, <2>2 DEF AliasStep, WithinOne
<1> QED
  BY <1>2, <1>3, <1>4 DEF AliasInv

LEMMA SnapshotAliasesAliases ==
  ASSUME TypeInv, NameInv, AliasInv, NEW c \in Callers, SnapshotAliases(c)
  PROVE  AliasInv'
<1>1. op[c].at = "snapshot" /\ UNCHANGED <<aliasing, storing, manager>>
  BY DEF SnapshotAliases
<1>2. Up /\ op'[c].at = "clear" /\ op'[c].copy = aliases /\ \A e \in Callers : e # c => op'[e] = op[e]
  BY SnapshotAliasesTypes
<1>3. AliasStep(c)' /\ (Readable' => WithinOne(aliasFile)')
  BY <1>1, <1>2 DEF AliasInv, AliasStep, WithinOne, Readable
<1>4. \A e \in Callers : Saving(e)' <=> Saving(e)
  BY <1>1, <1>2 DEF Saving
<1>5. ASSUME ~muddled PROVE Tidy'
  <2>1. Tidy
    BY <1>5 DEF AliasInv
  <2>2. Readable' => Restored(aliasFile)'
    BY <1>1, <2>1 DEF Tidy, Restored, Readable, Kept, Gone, Loadable
  <2>3. \A e \in Callers : op'[e].at \in {"clear", "save"} => op'[e].copy = aliases
    BY <1>2, <2>1 DEF Tidy
  <2>4. \A e \in Callers : op'[e].at = "save" => aliasFile = Empty
    BY <1>2, <2>1 DEF Tidy
  <2> QED
    BY <1>1, <1>4, <2>1, <2>2, <2>3, <2>4 DEF Tidy, Readable
<1> QED
  BY <1>1, <1>2, <1>3, <1>5, SaveStep DEF Saving

LEMMA TruncateAliasesAliases ==
  ASSUME TypeInv, NameInv, AliasInv, NEW c \in Callers, TruncateAliases(c)
  PROVE  AliasInv'
<1>1. /\ op[c].at = "clear" /\ UNCHANGED <<storing, aliases, muddled, stray, manager>>
      /\ aliasFile' = Empty
  BY DEF TruncateAliases
<1>2. Up /\ op'[c].at = "save" /\ op'[c].copy = op[c].copy /\ \A e \in Callers : e # c => op'[e] = op[e]
  BY TruncateAliasesTypes
<1>3. AliasStep(c)' /\ ~Readable'
  BY <1>1, <1>2 DEF AliasInv, AliasStep, WithinOne, Readable
<1>4. \A e \in Callers : Saving(e)' <=> Saving(e)
  BY <1>1, <1>2 DEF Saving
<1>5. ASSUME ~muddled PROVE Tidy'
  <2>1. Tidy
    BY <1>5 DEF AliasInv
  <2>2. \A e \in Callers : op'[e].at \in {"clear", "save"} => op'[e].copy = aliases
    BY <1>1, <1>2, <2>1 DEF Tidy
  <2>3. Saving(c)'
    BY <1>2 DEF Saving
  <2> QED
    BY <1>1, <1>3, <1>4, <2>1, <2>2, <2>3 DEF Tidy
<1> QED
  BY <1>1, <1>2, <1>3, <1>5, SaveStep DEF Saving

\* Alone, it writes what the map has: for want of others since it copied, or by
\* what makes it clean.
LEMMA WriteAliasesAliases ==
  ASSUME TypeInv, NameInv, AliasInv, NEW c \in Callers, WriteAliases(c)
  PROVE  AliasInv'
<1> DEFINE clean == SavesAlone(c) /\ aliasFile' = aliases
<1>1. /\ op[c].at = "save" /\ aliasFile' \in Written(aliasFile, op[c].copy)
      /\ muddled' = (muddled /\ ~clean)
      /\ UNCHANGED <<storing, aliases, manager>>
  BY DEF WriteAliases
<1>2. /\ Up /\ op'[c] = Idle /\ \A e \in Callers : e # c => op'[e] = op[e]
      /\ aliasFile' \in {op[c].copy, Torn} /\ stray' \subseteq stray
      /\ \A a \in Names : a \in stray /\ aliases[a] # None => a \in stray'
  BY WriteAliasesTypes
<1>3. Saving(c) /\ ~Saving(c)' /\ AliasStep(c)'
  BY <1>1, <1>2, IdleIsOp DEF Saving, AliasStep
<1>4. Readable' => WithinOne(aliasFile)'
  BY <1>1, <1>2 DEF AliasInv, AliasStep, WithinOne, Readable
<1>5. ASSUME ~muddled' PROVE Tidy'
  <2>1. clean
    <3>1. CASE ~muddled
      <4>1. Tidy
        BY <3>1 DEF AliasInv
      <4>2. SavesAlone(c)
        BY <1>3, <4>1 DEF Tidy, SavesAlone
      <4>3. op[c].copy = aliases /\ aliasFile = Empty
        BY <1>1, <4>1 DEF Tidy
      <4> QED
        BY <1>1, <4>2, <4>3 DEF Written
    <3>2. CASE muddled
      BY <1>1, <1>5, <3>2
    <3> QED
      BY <3>1, <3>2
  <2>2. \A e \in Callers : ~Saving(e)'
    BY <1>2, <1>3, <2>1 DEF SavesAlone, Saving
  <2>3. Restored(aliasFile)'
    BY <1>1, <1>2, <2>1 DEF AliasInv, Restored, Kept, Gone, Loadable
  <2> QED
    BY <1>1, <2>1, <2>2, <2>3 DEF Tidy, Saving
<1> HIDE DEF clean
<1> QED
  BY <1>1, <1>2, <1>3, <1>4, <1>5, SaveStep

LEMMA SaveFailsAliases ==
  ASSUME TypeInv, NameInv, AliasInv, NEW c \in Callers, SaveFails(c)
  PROVE  AliasInv'
<1>1. op[c].at \in {"clear", "save"} /\ muddled'
  BY DEF SaveFails
<1>2. /\ Up /\ op'[c] = Idle /\ \A e \in Callers : e # c => op'[e] = op[e]
      /\ UNCHANGED <<storing, aliases, stray, manager>> /\ aliasFile' \in {aliasFile, Torn}
  BY SaveFailsTypes
<1>3. Saving(c) /\ AliasStep(c)'
  BY <1>1, <1>2, IdleIsOp DEF Saving, AliasStep
<1>4. Readable' => WithinOne(aliasFile)'
  BY <1>2 DEF AliasInv, WithinOne, Readable
<1> QED
  BY <1>1, <1>2, <1>3, <1>4, SaveStep

LEMMA ClientAliases ==
  ASSUME TypeInv, AliasInv, UNCHANGED <<aliasing, disk, failed, manager, op>>
  PROVE  AliasInv'
<1>1. \A m \in Names : (Kept(m) => Kept(m)') /\ (Gone(m) => Gone(m)')
  BY DEF Kept, Gone, Loadable
<1> QED
  BY <1>1, StillAliases

LEMMA NextAliases == OwnNames /\ TypeInv /\ NameInv /\ AliasInv /\ [Next]_vars => AliasInv'
<1> SUFFICES ASSUME OwnNames, TypeInv, NameInv, AliasInv, [Next]_vars PROVE AliasInv'
  OBVIOUS
<1>1. CASE LoadAliases \/ Loaded \/ Crash
  BY <1>1, LoadAliasesAliases, LoadingAliases, CrashAliases
<1>2. ASSUME NEW n \in Names, LoadCollection(n) \/ LoadFails(n) \/ GetCollection(n) \/ Release(n)
      PROVE  AliasInv'
  <2>1. CASE GetCollection(n) \/ Release(n)
    BY <2>1, ClientAliases DEF GetCollection, Release
  <2> QED
    BY <1>2, <2>1, LoadingAliases
<1>3. ASSUME NEW c \in Callers, Call(c) PROVE AliasInv'
  BY <1>3, CheckNameAliases, CheckExistsAliases, CheckAliasAliases, DeleteAliasAliases DEF Call
<1>4. ASSUME NEW c \in Callers, Step(c) PROVE AliasInv'
  BY <1>4, MakeDirectoryAliases, NewCollectionAliases, TruncateMetadataAliases,
     WriteMetadataAliases, CreateFailsAliases, InsertCollectionAliases, ScanAliasesAliases,
     RemoveCollectionAliases, ListDirectoryAliases, RemoveEntryAliases, RemoveDirectoryAliases,
     RemoveFailsAliases, InsertAliasAliases, SnapshotAliasesAliases, TruncateAliasesAliases,
     WriteAliasesAliases, SaveFailsAliases DEF Step
<1>5. CASE UNCHANGED vars
  BY <1>5, ClientAliases DEF vars
<1> QED
  BY <1>1, <1>2, <1>3, <1>4, <1>5 DEF Next

\* While every name has one caller that creates, deletes and aliases it, and
\* however many callers do: whenever no call is running, every alias stands for a
\* collection and hides none, but for collections that could not be removed or
\* loaded and for aliases from a file that racing or failing saves left; and
\* aliases.json has what the map has, unless saves overlapped or failed since one
\* ended on its own.
THEOREM AliasesStand == ASSUME OwnNames PROVE Spec => []AliasesResolve
<1>1. NameInv /\ AliasInv => AliasesResolve
  <2> SUFFICES ASSUME NameInv, AliasInv, Up, \A c \in Callers : op[c] = Idle
               PROVE  /\ \A a \in Names \ stray : aliases[a] # None =>
                           /\ collections[aliases[a]] # None \/ aliases[a] \in failed
                           /\ collections[a] = None \/ a \in failed
                      /\ aliasFile = aliases \/ muddled
    BY DEF AliasesResolve
  <2>1. \A c \in Callers : ~Saving(c)
    BY NotSaving
  <2>2. aliasFile = aliases \/ muddled
    BY <2>1, UpIsNotDown DEF AliasInv, Tidy
  <2>3. \A n \in Names : Settled(n)
    BY DEF NameInv, Quiet
  <2>4. ASSUME NEW a \in Names \ stray, aliases[a] # None
        PROVE  /\ collections[aliases[a]] # None \/ aliases[a] \in failed
               /\ collections[a] = None \/ a \in failed
    <3>1. Kept(aliases[a]) /\ Gone(a)
      BY <2>4 DEF AliasInv, Restored
    <3>2. aliases[a] \in Names
      BY <2>4, CollectionsAssumption DEF AliasInv, WithinOne
    <3> QED
      BY <2>3, <3>1, <3>2 DEF Settled, Kept, Gone
  <2> QED
    BY <2>2, <2>4
<1>2. Init => TypeInv /\ NameInv /\ AliasInv
  BY InitTypes, InitNames, InitAliases
<1>3. (TypeInv /\ NameInv /\ AliasInv) /\ [Next]_vars => (TypeInv /\ NameInv /\ AliasInv)'
  BY NextTypes, NextNames, NextAliases
<1> QED
  BY <1>1, <1>2, <1>3, PTL DEF Spec

=============================================================================
