----------------------------- MODULE SharedFile -----------------------------
(***************************************************************************)
(* What VectorStorage promises to the holders of handles, with no pool, no *)
(* slot and no lock: a handle on a path that is already open sees the file *)
(* the other handles see, a handle on a path nobody has open gets the file *)
(* the name has now, and two paths never write one file through two        *)
(* databases.  StoragePool implements this specification.                  *)
(***************************************************************************)

CONSTANTS Clients, Paths, Names, NameOf, Inodes, None

VARIABLES
    at,         \* the path a client has open, or None
    sees,       \* the inode its handle reads and writes, or None
    dir         \* the inode a directory entry points at, or None

vars == <<at, sees, dir>>

Open(c) == at[c] # None

Init ==
    /\ at = [c \in Clients |-> None]
    /\ sees = [c \in Clients |-> None]
    /\ dir = [n \in Names |-> None]

Handle(c, p, i) ==
    /\ ~Open(c)
    /\ at' = [at EXCEPT ![c] = p]
    /\ sees' = [sees EXCEPT ![c] = i]

\* The path is open: share its file, even when the name is gone from disk.
Join(c, p) ==
    /\ \E o \in Clients : at[o] = p /\ Handle(c, p, sees[o])
    /\ UNCHANGED dir

\* The path is not open: the file of that name, new when there is none, which
\* no other path may have open.
OpenFile(c, p) ==
    /\ \A o \in Clients : at[o] # p
    /\ \E i \in Inodes :
         /\ dir[NameOf[p]] \in {i, None}
         /\ dir[NameOf[p]] = None => \A n \in Names : dir[n] # i
         /\ \A o \in Clients : sees[o] # i
         /\ Handle(c, p, i)
         /\ dir' = [dir EXCEPT ![NameOf[p]] = i]

Leave(c) ==
    /\ Open(c)
    /\ at' = [at EXCEPT ![c] = None]
    /\ sees' = [sees EXCEPT ![c] = None]
    /\ UNCHANGED dir

\* The world outside, or an open that failed, removes or makes a file.
DirectoryChange(n) ==
    /\ \E i \in Inodes \cup {None} : dir' = [dir EXCEPT ![n] = i]
    /\ UNCHANGED <<at, sees>>

Next ==
    \/ \E c \in Clients :
         \/ \E p \in Paths : Join(c, p) \/ OpenFile(c, p)
         \/ Leave(c)
    \/ \E n \in Names : DirectoryChange(n)

Spec == Init /\ [][Next]_vars

=============================================================================
