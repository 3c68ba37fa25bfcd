------------------------------- MODULE Cluster -------------------------------
(***************************************************************************)
(* ClusterManager of crates/ruvector-cluster: the nodes of a cluster, the  *)
(* consistent-hashing ring of those that hold shards, and the assignment   *)
(* of every shard to nodes.                                                *)
(*                                                                         *)
(* add_node and remove_node change the ring, then the map of nodes, then   *)
(* go over all shards; start does so for every discovered node and then    *)
(* assigns all shards once more.  No lock is held over a method.  Two      *)
(* kinds of locks are nested: an entry of the map of shards, whose lock is *)
(* that of a bucket of the map, and the RwLock of the ring.  A writer of   *)
(* such a lock first announces itself, which keeps new readers out, and    *)
(* then waits for the readers that are in.                                 *)
(*                                                                         *)
(* Health checks are left out: they set a status that nothing reads.       *)
(***************************************************************************)
EXTENDS Naturals, Sequences, FiniteSets

CONSTANTS
    Callers,
    Nodes,
    ShardCount,     \* shard_count; shards are numbered from 1 here
    Copies,         \* replication_factor
    Prefer,         \* for each shard, the nodes in the order of the full ring
    Bucket,         \* the bucket of the shard map each shard is in
    Discovered,     \* what discovery answers, without the node itself
    MayChange,      \* bound: the nodes each caller adds and removes
    MaxCalls,       \* bound: calls of the manager's methods
    None

Shards == 1..ShardCount

ASSUME ClusterAssumption ==
    /\ ShardCount \in Nat \ {0} /\ Copies \in Nat \ {0} /\ MaxCalls \in Nat
    /\ Prefer \in [Shards -> Seq(Nodes)]
    /\ \A s \in Shards : \A n \in Nodes : \E k \in DOMAIN Prefer[s] : Prefer[s][k] = n
    /\ DOMAIN Bucket = Shards
    /\ Discovered \subseteq Nodes
    /\ MayChange \in [Callers -> SUBSET Nodes]
    /\ None \notin Nodes /\ None \notin Seq(Nodes)

VARIABLES
    ring,           \* the nodes in the hash ring
    nodes,          \* the nodes in the map of nodes
    shards,         \* the nodes of each shard, the primary first, or None
    op,             \* what each caller is in the middle of
    calls,          \* bound: calls made so far
    contested       \* history: nodes that two calls changed at a time

vars == <<ring, nodes, shards, op, calls, contested>>

\* A caller is in a method "does", about the node; todo are the nodes start has
\* yet to add, and shard the one that is looked at.
Idle == [at |-> "idle", does |-> "nothing", node |-> None, todo |-> {}, shard |-> 1]

Init ==
    /\ ring = {}
    /\ nodes = {}
    /\ shards = [s \in Shards |-> None]
    /\ op = [c \in Callers |-> Idle]
    /\ calls = 0
    /\ contested = {}

-----------------------------------------------------------------------------
(* The ring                                                                *)

\* ConsistentHashRing::get_nodes: the first nodes met on a walk from the hash of
\* the shard, none only if the ring is empty.  A node that is not in the ring
\* does not change the order of the others.
Owners(s, members) ==
    LET walk == SelectSeq(Prefer[s], LAMBDA n : n \in members)
    IN  SubSeq(walk, 1, IF Len(walk) < Copies THEN Len(walk) ELSE Copies)

\* The locks, by where callers are.
WriterAnnounced == \E c \in Callers : op[c].at = "drain"

Readers == {c \in Callers : op[c].at = "insert"}

\* Mutant: the entry is still locked while assign_shard is called.
HoldsEntryToTheEnd(o) ==
    \/ o.at = "update"
    \/ o.does \in {"add", "remove"} /\ o.at \in {"assign", "insert"}

\* The entry that get_mut returned is kept until the ring was read.
HoldsEntry(o) == o.at = "update"

BucketFree(s) ==
    \A c \in Callers : HoldsEntry(op[c]) => Bucket[op[c].shard] # Bucket[s]

-----------------------------------------------------------------------------
(* Calls                                                                   *)

\* The caller is about to change n, or has changed it in the ring only.
Changes(o, n) == o.node = n /\ o.at \in {"write", "drain", "map"}

Begin(c, o) ==
    /\ op' = [op EXCEPT ![c] = o]
    /\ contested' = IF \E d \in Callers \ {c} : Changes(op[d], o.node)
                    THEN contested \cup {o.node} ELSE contested

Call(c, o) ==
    /\ op[c] = Idle /\ calls < MaxCalls
    /\ calls' = calls + 1
    /\ Begin(c, o)
    /\ UNCHANGED <<ring, nodes, shards>>

AddNode(c, n) == Call(c, [Idle EXCEPT !.at = "write", !.does = "add", !.node = n])

RemoveNode(c, n) == Call(c, [Idle EXCEPT !.at = "write", !.does = "remove", !.node = n])

\* How start goes on: a discovered node is added, or all are and every shard is
\* assigned.
Discover(todo) ==
    IF todo = {} THEN {[Idle EXCEPT !.at = "assign", !.does = "init"]}
    ELSE {[at |-> "write", does |-> "start", node |-> n, todo |-> todo \ {n}, shard |-> 1] :
            n \in todo}

Start(c) == \E o \in Discover(Discovered) : Call(c, o)

AssignShard(c, s) == Call(c, [Idle EXCEPT !.at = "assign", !.does = "assign", !.shard = s])

-----------------------------------------------------------------------------
(* Steps of add_node, remove_node and start                                *)

AnnounceWriter(c) ==
    /\ op[c].at = "write" /\ ~WriterAnnounced
    /\ op' = [op EXCEPT ![c].at = "drain"]
    /\ UNCHANGED <<ring, nodes, shards, calls, contested>>

Put(o, members) ==
    IF o.does = "remove" THEN members \ {o.node} ELSE members \cup {o.node}

\* Mutant: a node that is removed stays in the ring.
OnlyAddToRing(c) ==
    /\ op[c].at = "drain" /\ Readers = {}
    /\ ring' = IF op[c].does = "remove" THEN ring ELSE ring \cup {op[c].node}
    /\ op' = [op EXCEPT ![c].at = "map"]
    /\ UNCHANGED <<nodes, shards, calls, contested>>

WriteRing(c) ==
    /\ op[c].at = "drain" /\ Readers = {}
    /\ ring' = Put(op[c], ring)
    /\ op' = [op EXCEPT ![c].at = "map"]
    /\ UNCHANGED <<nodes, shards, calls, contested>>

\* Mutant: the shards of a removed node stay where they are.
UpdateNodesAndReturn(c) ==
    /\ op[c].at = "map"
    /\ nodes' = Put(op[c], nodes)
    /\ op' = [op EXCEPT ![c] = IF op[c].does = "remove" THEN Idle ELSE [@ EXCEPT !.at = "visit"]]
    /\ UNCHANGED <<ring, shards, calls, contested>>

UpdateNodes(c) ==
    /\ op[c].at = "map"
    /\ nodes' = Put(op[c], nodes)
    /\ op' = [op EXCEPT ![c].at = "visit"]
    /\ UNCHANGED <<ring, shards, calls, contested>>

\* What may follow when a shard is done.
Continue(o) ==
    IF o.does # "assign" /\ o.shard < ShardCount
    THEN {[o EXCEPT !.shard = @ + 1, !.at = IF o.does = "init" THEN "assign" ELSE "visit"]}
    ELSE IF o.does = "start" THEN Discover(o.todo) ELSE {Idle}

\* rebalance_shards looks the shard up; the entry, if there is one, stays locked.
VisitShard(c) ==
    /\ op[c].at = "visit" /\ BucketFree(op[c].shard)
    /\ op' = [op EXCEPT ![c].at = IF shards[op[c].shard] = None THEN "assign" ELSE "update"]
    /\ UNCHANGED <<ring, nodes, shards, calls, contested>>

\* The ring is read, the entry written, and both unlocked.  An empty ring leaves
\* the shard where it was.
UpdateShard(c) ==
    LET s == op[c].shard IN
    /\ op[c].at = "update" /\ ~WriterAnnounced
    /\ shards' = IF ring = {} THEN shards ELSE [shards EXCEPT ![s] = Owners(s, ring)]
    /\ \E o \in Continue(op[c]) : Begin(c, o)
    /\ UNCHANGED <<ring, nodes, calls>>

\* assign_shard reads the ring and keeps it locked; with an empty ring it fails,
\* and with it the method that called it.
ReadRing(c) ==
    /\ op[c].at = "assign" /\ ~WriterAnnounced
    /\ op' = [op EXCEPT ![c] = IF ring = {} THEN Idle ELSE [@ EXCEPT !.at = "insert"]]
    /\ UNCHANGED <<ring, nodes, shards, calls, contested>>

InsertShard(c) ==
    LET s == op[c].shard IN
    /\ op[c].at = "insert" /\ BucketFree(s)
    /\ shards' = [shards EXCEPT ![s] = Owners(s, ring)]
    /\ \E o \in Continue(op[c]) : Begin(c, o)
    /\ UNCHANGED <<ring, nodes, calls>>

-----------------------------------------------------------------------------
Step(c) ==
    \/ AnnounceWriter(c) \/ WriteRing(c) \/ UpdateNodes(c)
    \/ VisitShard(c) \/ UpdateShard(c)
    \/ ReadRing(c) \/ InsertShard(c)

Next ==
    \E c \in Callers :
        \/ \E n \in MayChange[c] : AddNode(c, n) \/ RemoveNode(c, n)
        \/ Start(c)
        \/ \E s \in Shards : AssignShard(c, s)
        \/ Step(c)

Spec == Init /\ [][Next]_vars

FairSpec == Spec /\ \A c \in Callers : WF_vars(Step(c))

-----------------------------------------------------------------------------
(* Properties                                                              *)

\* Every variable has its type, and a shard is where some ring wanted it.
TypeOK ==
    /\ ring \subseteq Nodes /\ nodes \subseteq Nodes /\ contested \subseteq Nodes
    /\ DOMAIN shards = Shards
    /\ \A s \in Shards : shards[s] \in {None} \cup {Owners(s, M) : M \in SUBSET Nodes}
    /\ op \in [Callers ->
         [at : {"idle", "write", "drain", "map", "visit", "update", "assign", "insert"},
          does : {"nothing", "add", "remove", "start", "init", "assign"},
          node : Nodes \cup {None}, todo : SUBSET Nodes, shard : Shards]]
    /\ \A c \in Callers : op[c].at \in {"write", "drain", "map"} =>
         op[c].node \in Nodes /\ op[c].does \in {"add", "remove", "start"} /\ op[c].shard = 1
    /\ calls \in Nat

\* The caller will still look at shard s with whatever the ring is then.
Revisits(c, s) ==
    /\ op[c].does \in {"add", "remove", "start"}
    /\ \/ op[c].at = "map"
       \/ op[c].at \in {"visit", "update", "assign", "insert"} /\ op[c].shard <= s

\* Every shard is where the ring wants it, or a call that changed the ring has
\* yet to come to it: no two overlapping calls, and no call that fails half
\* way, leave a shard with owners of an earlier ring for good.  An empty ring
\* has no owners to name, and the shards keep the last ones.
ShardsFollowRing ==
    ring # {} =>
        \A s \in Shards : shards[s] = Owners(s, ring) \/ \E c \in Callers : Revisits(c, s)

\* The map of nodes and the ring have the same nodes, except those a call is
\* just changing, and those that two calls changed at a time: of an add and a
\* remove of one node each may win in one of the two.
NodesMatchRing ==
    \A n \in Nodes \ contested :
        (\A c \in Callers : ~Changes(op[c], n)) => (n \in nodes <=> n \in ring)

\* Everyone waits: for the ring behind a writer, with an entry locked; for the
\* readers of the ring; and, reading the ring, for the entry.
CircularWait ==
    /\ WriterAnnounced
    /\ \E c, d \in Callers :
         /\ op[c].at = "update" /\ op[d].at = "insert"
         /\ Bucket[op[c].shard] = Bucket[op[d].shard]

\* Calls end, unless three of them come to wait for each other in a circle.
CallsEnd == \A c \in Callers : op[c] # Idle ~> op[c] = Idle \/ CircularWait

=============================================================================
