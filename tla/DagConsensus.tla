---------------------------- MODULE DagConsensus ----------------------------
(***************************************************************************)
(* DagConsensus of crates/ruvector-cluster: every node keeps a DAG of      *)
(* vertices, each with a transaction, the tips its creator saw as parents, *)
(* and a vector clock.  Vertices are added to other nodes in any order,    *)
(* repeatedly or never.  A vertex is final on a node when vertices of      *)
(* enough different nodes name it as a parent.                             *)
(*                                                                         *)
(* The methods share maps and locks without one lock over a whole method;  *)
(* an action is one pass over the map, or what one lock covers.            *)
(***************************************************************************)
EXTENDS Naturals, FiniteSets

CONSTANTS
    Nodes,
    Vertices,       \* bound: the vertices that are ever created
    Quorum,         \* min_quorum_size
    MaxSubmitted,   \* bound: transactions submitted to each node
    None

ASSUME DagAssumption ==
    /\ IsFiniteSet(Nodes)
    /\ Quorum \in Nat
    /\ MaxSubmitted \in [Nodes -> Nat]
    /\ None \notin Vertices
    /\ None \notin [by : Nodes, parents : SUBSET Vertices, clock : [Nodes -> Nat]]

VARIABLES
    vertex,         \* what each vertex is; None when it was not created yet
    submitted,      \* transactions submitted to each node
    pending,        \* how many of them wait in pending_txs
    present,        \* the vertices in each node's map
    finalized,
    clock,          \* the vector clock of each node; 0 is an absent entry
    creating,       \* create_vertex of each node: it holds pending_txs
    adding,         \* add_vertex of each node, between its check and its merge
    confirmed       \* finalize_vertices of each node, between scan and write

vars == <<vertex, submitted, pending, present, finalized, clock, creating,
          adding, confirmed>>

Clocks == [Nodes -> Nat]

Created == {v \in Vertices : vertex[v] # None}

Parents(v) == vertex[v].parents

Idle == [at |-> "idle", marked |-> {}, tips |-> {}]

Init ==
    /\ vertex = [v \in Vertices |-> None]
    /\ submitted = [n \in Nodes |-> 0]
    /\ pending = [n \in Nodes |-> 0]
    /\ present = [n \in Nodes |-> {}]
    /\ finalized = [n \in Nodes |-> {}]
    /\ clock = [n \in Nodes |-> [m \in Nodes |-> 0]]
    /\ creating = [n \in Nodes |-> Idle]
    /\ adding = [n \in Nodes |-> None]
    /\ confirmed = [n \in Nodes |-> {}]

-----------------------------------------------------------------------------
(* create_vertex                                                           *)

\* create_vertex holds pending_txs to its end, and submit waits for it.
SubmitTransaction(n) ==
    /\ submitted[n] < MaxSubmitted[n] /\ creating[n] = Idle
    /\ submitted' = [submitted EXCEPT ![n] = @ + 1]
    /\ pending' = [pending EXCEPT ![n] = @ + 1]
    /\ UNCHANGED <<vertex, present, finalized, clock, creating, adding, confirmed>>

\* A transaction is taken; find_tips passes over the map a first time.
MarkParents(n) ==
    /\ creating[n] = Idle /\ pending[n] > 0
    /\ pending' = [pending EXCEPT ![n] = @ - 1]
    /\ creating' = [creating EXCEPT ![n] =
         [at |-> "filter", marked |-> UNION {Parents(v) : v \in present[n]}, tips |-> {}]]
    /\ UNCHANGED <<vertex, submitted, present, finalized, clock, adding, confirmed>>

\* find_tips passes over the map a second time.  A vertex added since the first
\* pass is a tip, and so is its parent.
FilterTips(n) ==
    /\ creating[n].at = "filter"
    /\ creating' = [creating EXCEPT ![n] =
         [at |-> "insert", marked |-> {}, tips |-> present[n] \ @.marked]]
    /\ UNCHANGED <<vertex, submitted, pending, present, finalized, clock, adding, confirmed>>

\* Mutant: the node's own counter is not counted up.
InsertWithoutIncrement(n, v) ==
    /\ creating[n].at = "insert" /\ v \notin Created
    /\ vertex' = [vertex EXCEPT
         ![v] = [by |-> n, parents |-> creating[n].tips, clock |-> clock[n]]]
    /\ present' = [present EXCEPT ![n] = @ \cup {v}]
    /\ creating' = [creating EXCEPT ![n] = Idle]
    /\ UNCHANGED <<submitted, pending, finalized, clock, adding, confirmed>>

\* Under the lock of the vector clock.
InsertVertex(n, v) ==
    /\ creating[n].at = "insert" /\ v \notin Created
    /\ clock' = [clock EXCEPT ![n][n] = @ + 1]
    /\ vertex' = [vertex EXCEPT
         ![v] = [by |-> n, parents |-> creating[n].tips, clock |-> clock'[n]]]
    /\ present' = [present EXCEPT ![n] = @ \cup {v}]
    /\ creating' = [creating EXCEPT ![n] = Idle]
    /\ UNCHANGED <<submitted, pending, finalized, adding, confirmed>>

-----------------------------------------------------------------------------
(* add_vertex                                                              *)

\* Mutant: a vertex is taken before its parents are.
CheckNothing(n, v) ==
    /\ adding[n] = None /\ v \in Created
    /\ adding' = [adding EXCEPT ![n] = v]
    /\ UNCHANGED <<vertex, submitted, pending, present, finalized, clock, creating, confirmed>>

\* Otherwise add_vertex fails and changes nothing.
CheckParents(n, v) ==
    /\ adding[n] = None /\ v \in Created
    /\ Parents(v) \subseteq present[n] \cup finalized[n]
    /\ adding' = [adding EXCEPT ![n] = v]
    /\ UNCHANGED <<vertex, submitted, pending, present, finalized, clock, creating, confirmed>>

Later(c, e) == [m \in Nodes |-> IF c[m] < e[m] THEN e[m] ELSE c[m]]

\* Under the lock of the vector clock.
AddVertex(n) ==
    /\ adding[n] # None
    /\ clock' = [clock EXCEPT ![n] = Later(@, vertex[adding[n]].clock)]
    /\ present' = [present EXCEPT ![n] = @ \cup {adding[n]}]
    /\ adding' = [adding EXCEPT ![n] = None]
    /\ UNCHANGED <<vertex, submitted, pending, finalized, creating, confirmed>>

-----------------------------------------------------------------------------
(* finalize_vertices and prune_old_vertices                                *)

\* The nodes whose vertices in vs name v as a parent.
Confirmers(v, vs) == {vertex[w].by : w \in {u \in vs : v \in Parents(u)}}

\* Mutant: the creator of a vertex confirms it, too.
ConfirmedByCreator(n) ==
    {v \in present[n] :
        /\ Confirmers(v, present[n]) # {}
        /\ Cardinality(Confirmers(v, present[n]) \cup {vertex[v].by}) >= Quorum}

\* A quorum of 0 does not finalize a vertex without children.
Confirmed(n) ==
    {v \in present[n] : /\ Confirmers(v, present[n]) # {}
                        /\ Cardinality(Confirmers(v, present[n])) >= Quorum}

ScanConfirmations(n) ==
    /\ confirmed[n] = {}
    /\ confirmed' = [confirmed EXCEPT ![n] = Confirmed(n) \ finalized[n]]
    /\ confirmed' # confirmed
    /\ UNCHANGED <<vertex, submitted, pending, present, finalized, clock, creating, adding>>

WriteFinalized(n) ==
    /\ confirmed[n] # {}
    /\ finalized' = [finalized EXCEPT ![n] = @ \cup confirmed[n]]
    /\ confirmed' = [confirmed EXCEPT ![n] = {}]
    /\ UNCHANGED <<vertex, submitted, pending, present, clock, creating, adding>>

\* One removal of prune_old_vertices.  The oldest by timestamp go, and a
\* timestamp is what its creator's wall clock said: it can be any of them.
Prune(n, v) ==
    /\ v \in present[n] \cap finalized[n]
    /\ present' = [present EXCEPT ![n] = @ \ {v}]
    /\ UNCHANGED <<vertex, submitted, pending, finalized, clock, creating, adding, confirmed>>

Next ==
    \E n \in Nodes :
        \/ SubmitTransaction(n)
        \/ MarkParents(n)
        \/ FilterTips(n)
        \/ AddVertex(n)
        \/ ScanConfirmations(n)
        \/ WriteFinalized(n)
        \/ \E v \in Vertices : InsertVertex(n, v) \/ CheckParents(n, v) \/ Prune(n, v)

Spec == Init /\ [][Next]_vars

-----------------------------------------------------------------------------
(* Properties                                                              *)

\* Every variable has its type.
TypeOK ==
    /\ vertex \in [Vertices -> [by : Nodes, parents : SUBSET Vertices, clock : Clocks]
                                  \cup {None}]
    /\ submitted \in [Nodes -> Nat] /\ pending \in [Nodes -> Nat]
    /\ present \in [Nodes -> SUBSET Vertices]
    /\ finalized \in [Nodes -> SUBSET Vertices]
    /\ clock \in [Nodes -> Clocks]
    /\ creating \in [Nodes -> [at : {"idle", "filter", "insert"},
                               marked : SUBSET Vertices, tips : SUBSET Vertices]]
    /\ adding \in [Nodes -> Vertices \cup {None}]
    /\ confirmed \in [Nodes -> SUBSET Vertices]

\* The clock of a vertex is after the clocks of its parents, although the tips
\* are listed before the clock is locked and vertices are added in between.
ClockFollowsDag ==
    \A v \in Created : \A p \in Parents(v) :
        /\ p \in Created
        /\ \A n \in Nodes : vertex[p].clock[n] <= vertex[v].clock[n]
        /\ vertex[p].clock[vertex[v].by] < vertex[v].clock[vertex[v].by]

\* A node that has a vertex has its parents, or knows that they were final:
\* pruning between the steps of another thread never makes a hole.
ParentsKnown ==
    \A n \in Nodes : \A v \in present[n] :
        Parents(v) \subseteq present[n] \cup finalized[n]

\* A vertex that some node takes for final is the parent of vertices of a
\* quorum of different nodes, whatever was pruned meanwhile.
FinalizedHasQuorum ==
    \A n \in Nodes : \A v \in finalized[n] :
        /\ v \in Created
        /\ Cardinality(Confirmers(v, Created)) >= Quorum

=============================================================================
