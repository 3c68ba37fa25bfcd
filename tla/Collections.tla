----------------------------- MODULE Collections -----------------------------
(***************************************************************************)
(* CollectionManager of crates/ruvector-collections: named collections,    *)
(* each a VectorDB in a directory of its own, and aliases for them.        *)
(*                                                                         *)
(* Collections and aliases are two concurrent maps, and no lock is held    *)
(* over a method: it looks names up, then changes a map, then the disk.    *)
(* Clients keep a collection they got by get_collection as long as they    *)
(* like, deleted or not, and with it the database in the pool of           *)
(* crates/ruvector-core (see SharedFile): an opening of the path joins     *)
(* that database, although its file may be gone.                           *)
(*                                                                         *)
(* fs::write truncates a file, which is Empty then, and writes.  The       *)
(* process may die between any two steps, and a step on the disk may fail. *)
(***************************************************************************)
EXTENDS Naturals, FiniteSets

CONSTANTS
    Callers,
    Names,          \* of collections and of aliases
    Configs,
    MayCall,        \* the names each caller creates, deletes and aliases
    MaxCalls,       \* bound: calls of create and delete methods
    MaxFaults,      \* bound: deaths of the process and failing steps
    None,
    Empty, Torn     \* files no reader can parse: truncated, and garbled

\* An open database, and whether its file still has a name; the metadata and the
\* database file in a collection's directory.
Databases == [config : Configs, linked : BOOLEAN]
Directories == [meta : Configs \cup {None, Empty, Torn}, file : Configs \cup {None}]

ASSUME CollectionsAssumption ==
    /\ MayCall \in [Callers -> SUBSET Names]
    /\ MaxCalls \in Nat /\ MaxFaults \in Nat
    /\ None \notin Names \cup Configs
    /\ {Empty, Torn} \cap (Configs \cup {None} \cup [Names -> Names \cup {None}]) = {}
    /\ None \notin Databases \cup Directories

VARIABLES
    collections,    \* the configuration of each collection in the map, or None
    aliases,        \* alias -> collection or None
    pool,           \* the open database of each path
    held,           \* collections, by name, that clients keep
    disk,           \* the directory of each name, or None
    aliasFile,      \* aliases.json
    manager,        \* whether there is one, and what new still has to load
    op,             \* what each caller is in the middle of
    calls, faults,  \* bounds
    reused,         \* history: the last create of the name found something
    failed,         \* history: collections that could not be removed or loaded
    muddled,        \* history: saves of aliases overlapped, or one failed
    stray           \* history: aliases loaded from the file of such saves

vars == <<collections, aliases, pool, held, disk, aliasFile, manager, op, calls,
          faults, reused, failed, muddled, stray>>

\* What only methods on aliases and new change, and what only they leave alone.
aliasing == <<aliases, aliasFile, muddled, stray>>
storing == <<collections, pool, held, disk, reused, failed>>

NoNames == [n \in Names |-> None]

Idle == [at |-> "idle"]

Init ==
    /\ collections = NoNames /\ aliases = NoNames /\ pool = NoNames
    /\ held = {}
    /\ disk = NoNames /\ aliasFile = NoNames
    /\ manager = [at |-> "loading", todo |-> {}]
    /\ op = [c \in Callers |-> Idle]
    /\ calls = 0 /\ faults = 0
    /\ reused = [n \in Names |-> FALSE]
    /\ failed = {} /\ muddled = FALSE /\ stray = {}

Down == [at |-> "down", todo |-> {}]

Up == manager.at = "up"

Goto(c, at) == op' = [op EXCEPT ![c].at = at]

Return(c) == op' = [op EXCEPT ![c] = Idle]

Fault == faults < MaxFaults /\ faults' = faults + 1

\* What a file may hold once a writer that truncated it writes: a shorter
\* content leaves the end of what another writer has put there since.
Written(old, content) == IF old = Empty THEN {content} ELSE {content, Torn}

\* Callers inside create_collection that have opened the database of n.
Opened(ops, n) == \E c \in Callers : ops[c].at \in {"truncate", "write", "insert"} /\ ops[c].name = n

\* Mutant: what clients keep does not count.
DropUnlisted ==
    pool' = [n \in Names |->
        IF collections'[n] # None \/ Opened(op', n) THEN pool[n] ELSE None]

\* A database stays open while something refers to it.
DropUnused ==
    pool' = [n \in Names |->
        IF collections'[n] # None \/ n \in held' \/ Opened(op', n) THEN pool[n] ELSE None]

-----------------------------------------------------------------------------
(* new                                                                     *)

\* Directories are loaded when their metadata can be read.
Loadable(n) == disk[n] # None /\ disk[n].meta \in Configs

\* Aliases that cannot be read fail the whole of new.
LoadAliases ==
    /\ manager = Down /\ aliasFile \notin {Empty, Torn}
    /\ aliases' = aliasFile
    /\ manager' = [at |-> "loading", todo |-> {n \in Names : Loadable(n)}]
    /\ stray' = IF muddled THEN stray \cup {a \in Names : aliasFile[a] # None} ELSE stray
    /\ muddled' = FALSE
    /\ UNCHANGED <<storing, aliasFile, op, calls, faults>>

\* The database of n, opened with configuration x: the pool's, or the file's,
\* or a new one.
Database(n, x) ==
    IF pool[n] # None THEN pool[n]
    ELSE [config |-> IF disk[n].file = None THEN x ELSE disk[n].file, linked |-> TRUE]

\* The disk once it is open.
WithFile(n, x) ==
    IF pool[n] = None THEN [disk EXCEPT ![n].file = Database(n, x).config] ELSE disk

OpenDatabase(n, x) ==
    /\ pool' = [pool EXCEPT ![n] = Database(n, x)]
    /\ disk' = WithFile(n, x)

LoadCollection(n) ==
    /\ n \in manager.todo
    /\ OpenDatabase(n, disk[n].meta)
    /\ collections' = [collections EXCEPT ![n] = disk[n].meta]
    /\ manager' = [manager EXCEPT !.todo = @ \ {n}]
    /\ UNCHANGED <<aliasing, held, op, calls, faults, reused, failed>>

\* A collection that cannot be opened is passed over, with or without a new file.
LoadFails(n) ==
    /\ n \in manager.todo /\ Fault
    /\ disk' \in {disk, WithFile(n, disk[n].meta)}
    /\ failed' = failed \cup {n}
    /\ manager' = [manager EXCEPT !.todo = @ \ {n}]
    /\ UNCHANGED <<aliasing, collections, pool, held, op, calls, reused>>

Loaded ==
    /\ manager = [at |-> "loading", todo |-> {}]
    /\ manager' = [manager EXCEPT !.at = "up"]
    /\ UNCHANGED <<aliasing, storing, op, calls, faults>>

\* The process dies; what a new that fails leaves behind is the same.
Crash ==
    /\ manager # Down /\ Fault
    /\ collections' = NoNames /\ aliases' = NoNames /\ pool' = NoNames
    /\ held' = {}
    /\ manager' = Down
    /\ op' = [c \in Callers |-> Idle]
    /\ UNCHANGED <<disk, aliasFile, calls, reused, failed, muddled, stray>>

-----------------------------------------------------------------------------
(* create_collection                                                       *)

MayBegin(c) == Up /\ op[c] = Idle /\ calls < MaxCalls

Begin(c, o) ==
    /\ op' = [op EXCEPT ![c] = o]
    /\ calls' = calls + 1

\* The name is neither a collection nor an alias; the rest of the method does
\* not look again.
CheckName(c, n, x) ==
    /\ MayBegin(c) /\ n \in MayCall[c]
    /\ collections[n] = None /\ aliases[n] = None
    /\ Begin(c, [at |-> "open", name |-> n, config |-> x])
    /\ UNCHANGED <<aliasing, storing, manager, faults>>

\* create_dir_all, which VectorStorage::new does once more.
MakeDirectory(c) ==
    LET n == op[c].name IN
    /\ op[c].at = "open"
    /\ disk' = IF disk[n] = None THEN [disk EXCEPT ![n] = [meta |-> None, file |-> None]] ELSE disk
    /\ Goto(c, "database")
    /\ UNCHANGED <<aliasing, collections, pool, held, manager, calls, faults, reused, failed>>

\* Mutant: the metadata is not saved.
NewCollectionUnsaved(c) ==
    /\ op[c].at = "database" /\ disk[op[c].name] # None
    /\ OpenDatabase(op[c].name, op[c].config)
    /\ reused' = [reused EXCEPT ![op[c].name] = FALSE]
    /\ Goto(c, "insert")
    /\ UNCHANGED <<aliasing, collections, held, manager, calls, faults, failed>>

\* Collection::new.  Its configuration is the one asked for, whatever the
\* database is configured with.
NewCollection(c) ==
    LET n == op[c].name IN
    /\ op[c].at = "database"
    /\ IF pool[n] = None /\ disk[n] = None
       THEN Return(c) /\ UNCHANGED <<pool, disk, reused>>
       ELSE /\ OpenDatabase(n, op[c].config)
            /\ reused' = [reused EXCEPT ![n] = pool[n] # None \/ disk[n].file # None \/ Loadable(n)]
            /\ Goto(c, "truncate")
    /\ UNCHANGED <<aliasing, collections, held, manager, calls, faults, failed>>

\* save_collection_metadata, which fails when the directory is gone again.
TruncateMetadata(c) ==
    LET n == op[c].name IN
    /\ op[c].at = "truncate"
    /\ IF disk[n] = None THEN Return(c) /\ UNCHANGED disk
       ELSE Goto(c, "write") /\ disk' = [disk EXCEPT ![n].meta = Empty]
    /\ UNCHANGED <<aliasing, collections, held, manager, calls, faults, reused, failed>>
    /\ DropUnused

\* The directories once n's metadata file holds one of the contents; a file that
\* was unlinked meanwhile stays so.
Rewritten(n, contents) ==
    IF disk[n] = None \/ disk[n].meta = None THEN {disk}
    ELSE {[disk EXCEPT ![n].meta = x] : x \in contents}

WriteMetadata(c) ==
    /\ op[c].at = "write"
    /\ disk' \in Rewritten(op[c].name, Written(disk[op[c].name].meta, op[c].config))
    /\ Goto(c, "insert")
    /\ UNCHANGED <<aliasing, collections, pool, held, manager, calls, faults, reused, failed>>

\* Any of these steps may fail, and what was done before stays: create_dir_all,
\* Collection::new, and save_collection_metadata, which may have written a part.
\* A Collection::new that fails over a new file leaves what a save that fails does.
CreateFails(c) ==
    LET n == op[c].name IN
    /\ op[c].at \in {"open", "database", "truncate", "write"} /\ Fault
    /\ \/ UNCHANGED disk
       \/ op[c].at = "write" /\ disk' \in Rewritten(n, {Torn})
    /\ Return(c)
    /\ UNCHANGED <<aliasing, collections, held, manager, calls, reused, failed>>
    /\ DropUnused

InsertCollection(c) ==
    /\ op[c].at = "insert"
    /\ collections' = [collections EXCEPT ![op[c].name] = op[c].config]
    /\ failed' = failed \ {op[c].name}
    /\ Return(c)
    /\ UNCHANGED <<aliasing, pool, held, disk, manager, calls, faults, reused>>

-----------------------------------------------------------------------------
(* delete_collection                                                       *)

CheckExists(c, n) ==
    /\ MayBegin(c) /\ n \in MayCall[c]
    /\ collections[n] # None
    /\ Begin(c, [at |-> "scan", name |-> n])
    /\ UNCHANGED <<aliasing, storing, manager, faults>>

\* Mutant: aliases are not looked for.
ScanNothing(c) ==
    /\ op[c].at = "scan"
    /\ Goto(c, "remove")
    /\ UNCHANGED <<aliasing, storing, manager, calls, faults>>

\* With an alias the collection stays.
ScanAliases(c) ==
    /\ op[c].at = "scan"
    /\ IF \E a \in Names : aliases[a] = op[c].name THEN Return(c) ELSE Goto(c, "remove")
    /\ UNCHANGED <<aliasing, storing, manager, calls, faults>>

RemoveCollection(c) ==
    /\ op[c].at = "remove"
    /\ collections' = [collections EXCEPT ![op[c].name] = None]
    /\ Goto(c, "list")
    /\ UNCHANGED <<aliasing, held, disk, manager, calls, faults, reused, failed>>
    /\ DropUnused

\* Mutant: the directory is left on disk.
ListNothing(c) ==
    /\ op[c].at = "list"
    /\ Return(c)
    /\ UNCHANGED <<aliasing, storing, manager, calls, faults>>

\* remove_dir_all lists the directory, removes what it lists in any order, and
\* the directory when it is empty.
ListDirectory(c) ==
    LET n == op[c].name
        entries == {f \in {"meta", "file"} : disk[n][f] # None}
    IN
    /\ op[c].at = "list"
    /\ IF disk[n] = None THEN Return(c)
       ELSE op' = [op EXCEPT ![c] = [at |-> "unlink", name |-> n, todo |-> entries]]
    /\ UNCHANGED <<aliasing, storing, manager, calls, faults>>

\* Who has the database open keeps it, without a name.
RemoveEntry(c, f) ==
    LET n == op[c].name IN
    /\ op[c].at = "unlink" /\ f \in op[c].todo
    /\ disk' = [disk EXCEPT ![n] = IF @ = None THEN None ELSE [@ EXCEPT ![f] = None]]
    /\ pool' = [pool EXCEPT ![n] =
         IF @ = None \/ f # "file" THEN @ ELSE [@ EXCEPT !.linked = FALSE]]
    /\ failed' = IF f = "meta" THEN failed \ {n} ELSE failed
    /\ op' = [op EXCEPT ![c].todo = @ \ {f}]
    /\ UNCHANGED <<aliasing, collections, held, manager, calls, faults, reused>>

RemoveDirectory(c) ==
    LET n == op[c].name IN
    /\ op[c].at = "unlink" /\ op[c].todo = {}
    /\ disk' = IF disk[n] = [meta |-> None, file |-> None] THEN [disk EXCEPT ![n] = None] ELSE disk
    /\ Return(c)
    /\ UNCHANGED <<aliasing, collections, pool, held, manager, calls, faults, reused, failed>>

\* It may fail anywhere, and then the metadata may be left, readable.
RemoveFails(c) ==
    /\ op[c].at \in {"list", "unlink"} /\ Fault
    /\ failed' = IF Loadable(op[c].name) THEN failed \cup {op[c].name} ELSE failed
    /\ Return(c)
    /\ UNCHANGED <<aliasing, collections, pool, held, disk, manager, calls, reused>>

-----------------------------------------------------------------------------
(* create_alias, switch_alias and delete_alias                             *)

\* create_alias: the alias is new and no collection, and its target is one.
CheckNewAlias(c, a, n) ==
    /\ MayBegin(c) /\ {a, n} \subseteq MayCall[c]
    /\ aliases[a] = None /\ collections[a] = None /\ collections[n] # None
    /\ Begin(c, [at |-> "alias", name |-> a, target |-> n])
    /\ UNCHANGED <<aliasing, storing, manager, faults>>

\* switch_alias: the alias and its new target exist.
CheckSwitch(c, a, n) ==
    /\ MayBegin(c) /\ {a, n} \subseteq MayCall[c]
    /\ aliases[a] # None /\ collections[n] # None
    /\ Begin(c, [at |-> "alias", name |-> a, target |-> n])
    /\ UNCHANGED <<aliasing, storing, manager, faults>>

Saving(c) == op[c].at \in {"snapshot", "clear", "save"}

\* No caller but c is in save_aliases.
SavesAlone(c) == \A other \in Callers \ {c} : ~Saving(other)

InsertAlias(c) ==
    /\ op[c].at = "alias"
    /\ aliases' = [aliases EXCEPT ![op[c].name] = op[c].target]
    /\ muddled' = (muddled \/ ~SavesAlone(c))
    /\ op' = [op EXCEPT ![c] = [at |-> "snapshot"]]
    /\ UNCHANGED <<storing, aliasFile, stray, manager, calls, faults>>

DeleteAlias(c, a) ==
    /\ MayBegin(c) /\ a \in MayCall[c]
    /\ aliases[a] # None
    /\ aliases' = [aliases EXCEPT ![a] = None]
    /\ muddled' = (muddled \/ ~SavesAlone(c))
    /\ Begin(c, [at |-> "snapshot"])
    /\ UNCHANGED <<storing, aliasFile, stray, manager, faults>>

\* save_aliases copies the map and then writes the copy.
SnapshotAliases(c) ==
    /\ op[c].at = "snapshot"
    /\ op' = [op EXCEPT ![c] = [at |-> "clear", copy |-> aliases]]
    /\ UNCHANGED <<aliasing, storing, manager, calls, faults>>

TruncateAliases(c) ==
    /\ op[c].at = "clear"
    /\ aliasFile' = Empty
    /\ Goto(c, "save")
    /\ UNCHANGED <<storing, aliases, muddled, stray, manager, calls, faults>>

\* A save that ends on its own with what the map has makes up for those before.
WriteAliases(c) ==
    LET clean == SavesAlone(c) /\ aliasFile' = aliases IN
    /\ op[c].at = "save"
    /\ aliasFile' \in Written(aliasFile, op[c].copy)
    /\ muddled' = (muddled /\ ~clean)
    /\ stray' = IF clean THEN {a \in stray : aliases[a] # None} ELSE stray
    /\ Return(c)
    /\ UNCHANGED <<storing, aliases, manager, calls, faults>>

\* The map keeps what could not be written.
SaveFails(c) ==
    /\ op[c].at \in {"clear", "save"} /\ Fault
    /\ \/ UNCHANGED aliasFile
       \/ op[c].at = "save" /\ aliasFile' = Torn
    /\ muddled' = TRUE
    /\ Return(c)
    /\ UNCHANGED <<storing, aliases, stray, manager, calls>>

-----------------------------------------------------------------------------
(* get_collection                                                          *)

\* By name, or by an alias that is resolved before: a collection that is in
\* the map when it is looked up.
GetCollection(n) ==
    /\ Up /\ collections[n] # None
    /\ held' = held \cup {n}
    /\ UNCHANGED <<aliasing, collections, pool, disk, manager, op, calls, faults, reused, failed>>

\* The last client that keeps collections of this name lets go of them.
Release(n) ==
    /\ n \in held
    /\ held' = held \ {n}
    /\ UNCHANGED <<aliasing, collections, disk, manager, op, calls, faults, reused, failed>>
    /\ DropUnused

Step(c) ==
    \/ MakeDirectory(c) \/ NewCollection(c) \/ TruncateMetadata(c) \/ WriteMetadata(c)
    \/ InsertCollection(c) \/ CreateFails(c)
    \/ ScanAliases(c) \/ RemoveCollection(c) \/ ListDirectory(c)
    \/ \E f \in {"meta", "file"} : RemoveEntry(c, f)
    \/ RemoveDirectory(c) \/ RemoveFails(c)
    \/ InsertAlias(c) \/ SnapshotAliases(c) \/ TruncateAliases(c) \/ WriteAliases(c)
    \/ SaveFails(c)

Call(c) ==
    \E n \in Names :
        \/ \E x \in Configs : CheckName(c, n, x)
        \/ CheckExists(c, n)
        \/ \E a \in Names : CheckNewAlias(c, a, n) \/ CheckSwitch(c, a, n)
        \/ DeleteAlias(c, n)

Next ==
    \/ LoadAliases
    \/ \E n \in Names : LoadCollection(n) \/ LoadFails(n) \/ GetCollection(n) \/ Release(n)
    \/ Loaded
    \/ Crash
    \/ \E c \in Callers : Call(c) \/ Step(c)

Spec == Init /\ [][Next]_vars

-----------------------------------------------------------------------------
(* Properties                                                              *)

\* No caller is inside a method about the name n.
Quiet(n) == \A c \in Callers : op[c] = Idle \/ Saving(c) \/ op[c].name # n

\* Every variable has its type.
TypeOK ==
    /\ collections \in [Names -> Configs \cup {None}]
    /\ aliases \in [Names -> Names \cup {None}]
    /\ pool \in [Names -> Databases \cup {None}]
    /\ disk \in [Names -> Directories \cup {None}]
    /\ aliasFile \in [Names -> Names \cup {None}] \cup {Empty, Torn}
    /\ held \subseteq Names
    /\ \A n \in Names : collections[n] # None \/ n \in held => pool[n] # None

\* What the map has, a restart finds again: its metadata is on disk, and the
\* database that is open is the file in its directory, with the configuration
\* it was created with.  The exception is a create that found a database or
\* metadata: of a deleted collection which a client keeps, or the remains of a
\* crash or of a step that failed.
RestartFinds ==
    \A n \in Names : Up /\ collections[n] # None /\ Quiet(n) =>
        /\ Loadable(n) /\ disk[n].meta = collections[n]
        /\ \/ pool[n].linked /\ disk[n].file = pool[n].config
              /\ pool[n].config = collections[n]
           \/ reused[n]

\* What the map does not have, a restart does not bring back: no readable
\* metadata is left of a deleted collection, or of one that was not finished,
\* however the process died and creates failed before.  The exceptions are a
\* remove_dir_all that failed and a collection that new passed over, until its
\* metadata is removed or it is created again.
NothingComesBack ==
    \A n \in Names : Up /\ collections[n] = None /\ Quiet(n) /\ n \notin failed => ~Loadable(n)

\* Every alias stands for a collection, and no alias hides a collection of its
\* name, from which get_collection would take it; and the file has what the
\* map has.  The exceptions are collections that could not be removed or loaded;
\* the file, from saves that overlap or fail until one ends on its own; and what
\* new loads from such a file.
AliasesResolve ==
    Up /\ (\A c \in Callers : op[c] = Idle) =>
        /\ \A a \in Names \ stray : aliases[a] # None =>
             /\ collections[aliases[a]] # None \/ aliases[a] \in failed
             /\ collections[a] = None \/ a \in failed
        /\ aliasFile = aliases \/ muddled

=============================================================================
