------------------------- MODULE DagConsensusProofs -------------------------
(***************************************************************************)
(* Proofs about DagConsensus, for any nodes, vertices and quorum, and with *)
(* no bound on what is submitted: vector clocks follow the DAG, pruning    *)
(* makes no hole in it, and what is final has its quorum.                  *)
(***************************************************************************)
EXTENDS DagConsensus, FiniteSetTheorems, TLAPS

\* What a node has or had: pruning takes only what is final out of its map.
Known(n) == present[n] \cup finalized[n]

HasQuorum(v) == v \in Created /\ Cardinality(Confirmers(v, Created)) >= Quorum

\* What the threads of a node carry from one step to the next.
CarryInv ==
    \A n \in Nodes :
        /\ creating[n].tips \subseteq Known(n)
        /\ adding[n] # None => adding[n] \in Created /\ Parents(adding[n]) \subseteq Known(n)
        /\ confirmed[n] \subseteq Known(n)
        /\ \A v \in confirmed[n] : HasQuorum(v)

\* What a node knows exists, and its clock covers it.
KnownInv ==
    \A n \in Nodes :
        /\ Known(n) \subseteq Created
        /\ \A v \in Known(n), m \in Nodes : vertex[v].clock[m] <= clock[n][m]

IndInv ==
    /\ TypeOK
    /\ CarryInv
    /\ KnownInv
    /\ ParentsKnown
    /\ FinalizedHasQuorum
    /\ ClockFollowsDag

-----------------------------------------------------------------------------
LEMMA InitInv == Init => IndInv
<1> SUFFICES ASSUME Init PROVE IndInv
  OBVIOUS
<1> USE DEF Init
<1>1. TypeOK
  BY DEF TypeOK, Clocks, Idle
<1>2. Created = {}
  BY DEF Created
<1>3. \A n \in Nodes : Known(n) = {} /\ creating[n].tips = {} /\ adding[n] = None
                       /\ confirmed[n] = {} /\ present[n] = {} /\ finalized[n] = {}
  BY DEF Known, Idle
<1>4. CarryInv /\ KnownInv
  BY <1>3 DEF CarryInv, KnownInv
<1>5. ParentsKnown /\ FinalizedHasQuorum /\ ClockFollowsDag
  BY <1>2, <1>3 DEF ParentsKnown, FinalizedHasQuorum, ClockFollowsDag
<1> QED
  BY <1>1, <1>4, <1>5 DEF IndInv

\* A vertex that some node knows has parents among the vertices.
LEMMA KnownTyped ==
  TypeOK /\ KnownInv => \A n \in Nodes : \A v \in Known(n) :
    /\ v \in Created
    /\ vertex[v] \in [by : Nodes, parents : SUBSET Vertices, clock : Clocks]
    /\ Parents(v) \subseteq Vertices
BY DEF TypeOK, KnownInv, Known, Created, Parents

LEMMA TypeStep == TypeOK /\ CarryInv /\ KnownInv /\ [Next]_vars => TypeOK'
<1> SUFFICES ASSUME TypeOK, CarryInv, KnownInv, [Next]_vars PROVE TypeOK'
  OBVIOUS
<1>0. \A n \in Nodes : \A v \in present[n] : Parents(v) \subseteq Vertices
  BY KnownTyped DEF Known
<1> USE DEF TypeOK
<1>1. CASE UNCHANGED vars
  BY <1>1 DEF vars
<1>2. CASE \E n \in Nodes : SubmitTransaction(n)
  BY <1>2 DEF SubmitTransaction
<1>3. ASSUME NEW n \in Nodes, MarkParents(n)
      PROVE  TypeOK'
  <2>1. UNION {Parents(v) : v \in present[n]} \subseteq Vertices
    BY <1>0
  <2>2. pending' \in [Nodes -> Nat]
    BY <1>3 DEF MarkParents
  <2> QED
    BY <1>3, <2>1, <2>2 DEF MarkParents
<1>4. CASE \E n \in Nodes : FilterTips(n)
  BY <1>4 DEF FilterTips
<1>5. ASSUME NEW n \in Nodes, AddVertex(n)
      PROVE  TypeOK'
  <2>1. vertex[adding[n]].clock \in Clocks
    BY <1>5 DEF AddVertex, CarryInv, Created
  <2>2. Later(clock[n], vertex[adding[n]].clock) \in Clocks
    BY <2>1 DEF Later, Clocks
  <2> QED
    BY <1>5, <2>2 DEF AddVertex
<1>6. CASE \E n \in Nodes : ScanConfirmations(n)
  BY <1>6 DEF ScanConfirmations, Confirmed
<1>7. CASE \E n \in Nodes : WriteFinalized(n)
  BY <1>7 DEF WriteFinalized
<1>8. ASSUME NEW n \in Nodes, NEW v \in Vertices, InsertVertex(n, v)
      PROVE  TypeOK'
  <2>1. clock' \in [Nodes -> Clocks]
    BY <1>8 DEF InsertVertex, Clocks
  <2>2. Idle \in [at : {"idle", "filter", "insert"},
                  marked : SUBSET Vertices, tips : SUBSET Vertices]
    BY DEF Idle
  <2> QED
    BY <1>8, <2>1, <2>2 DEF InsertVertex
<1>9. CASE \E n \in Nodes, v \in Vertices : CheckParents(n, v)
  BY <1>9 DEF CheckParents, Created
<1>10. CASE \E n \in Nodes, v \in Vertices : Prune(n, v)
  BY <1>10 DEF Prune
<1> QED
  BY <1>1, <1>2, <1>3, <1>4, <1>5, <1>6, <1>7, <1>8, <1>9, <1>10 DEF Next

-----------------------------------------------------------------------------
(* Confirmations only accumulate.                                          *)

LEMMA ConfirmersFinite ==
  ASSUME TypeOK, NEW v, NEW vs \in SUBSET Created
  PROVE  IsFiniteSet(Confirmers(v, vs)) /\ Confirmers(v, vs) \subseteq Nodes
<1>1. Confirmers(v, vs) \subseteq Nodes
  BY DEF Confirmers, Created, TypeOK
<1> QED
  BY <1>1, DagAssumption, FS_Subset

LEMMA MoreConfirmers ==
  ASSUME TypeOK, NEW n \in Nodes, NEW v \in Created, present[n] \subseteq Created,
         Cardinality(Confirmers(v, present[n])) >= Quorum
  PROVE  HasQuorum(v)
<1>1. Confirmers(v, present[n]) \subseteq Confirmers(v, Created)
  BY DEF Confirmers
<1>2. IsFiniteSet(Confirmers(v, Created)) /\ IsFiniteSet(Confirmers(v, present[n]))
  BY ConfirmersFinite
<1>3. Cardinality(Confirmers(v, present[n])) <= Cardinality(Confirmers(v, Created))
  BY <1>1, <1>2, FS_Subset
<1>4. Cardinality(Confirmers(v, present[n])) \in Nat /\ Cardinality(Confirmers(v, Created)) \in Nat
  BY <1>2, FS_CardinalityType
<1> QED
  BY <1>3, <1>4, DagAssumption DEF HasQuorum

\* Everything but InsertVertex leaves the vertices alone.
LEMMA SameVertices ==
  ASSUME vertex' = vertex
  PROVE  /\ Created' = Created
         /\ \A v : Parents(v)' = Parents(v)
         /\ \A v : HasQuorum(v) => HasQuorum(v)'
BY DEF Created, Parents, HasQuorum, Confirmers

LEMMA InsertKeepsQuorum ==
  ASSUME TypeOK, TypeOK', NEW n \in Nodes, NEW u \in Vertices, InsertVertex(n, u),
         NEW v, HasQuorum(v)
  PROVE  HasQuorum(v)'
<1>1. \A w \in Created : w \in Created' /\ vertex'[w] = vertex[w]
  BY DEF InsertVertex, TypeOK, Created
<1>2. Confirmers(v, Created) \subseteq Confirmers(v, Created)'
  BY <1>1 DEF Confirmers, Parents
<1>3. IsFiniteSet(Confirmers(v, Created)) /\ IsFiniteSet(Confirmers(v, Created)')
  <2>1. IsFiniteSet(Confirmers(v, Created))
    BY ConfirmersFinite
  <2>2. Confirmers(v, Created)' \subseteq Nodes
    BY DEF Confirmers, Created, TypeOK
  <2> QED
    BY <2>1, <2>2, DagAssumption, FS_Subset
<1>4. Cardinality(Confirmers(v, Created)) <= Cardinality(Confirmers(v, Created)')
  BY <1>2, <1>3, FS_Subset
<1>5. Cardinality(Confirmers(v, Created)) \in Nat /\ Cardinality(Confirmers(v, Created)') \in Nat
  BY <1>3, FS_CardinalityType
<1>6. v \in Created'
  BY <1>1 DEF HasQuorum
<1> QED
  BY <1>4, <1>5, <1>6, DagAssumption DEF HasQuorum

-----------------------------------------------------------------------------
(* The steps                                                               *)

\* When the vertices and clocks stay and no node comes to know less, only what
\* the step itself adds remains to be shown.
LEMMA FrameStep ==
  ASSUME IndInv, TypeOK', vertex' = vertex,
         \A n \in Nodes : Known(n)' = Known(n) /\ clock'[n] = clock[n],
         \A n \in Nodes : present'[n] \subseteq present[n],
         \A n \in Nodes : finalized'[n] \subseteq finalized[n] \cup confirmed[n],
         CarryInv'
  PROVE  IndInv'
<1>0. Created' = Created /\ (\A v : Parents(v)' = Parents(v))
      /\ (\A v : HasQuorum(v) => HasQuorum(v)')
  BY SameVertices
<1>1. KnownInv'
  BY <1>0 DEF IndInv, KnownInv
<1>2. ParentsKnown'
  BY <1>0 DEF IndInv, ParentsKnown, Known
<1>3. FinalizedHasQuorum'
  <2>1. \A n \in Nodes : \A v \in finalized'[n] : HasQuorum(v)
    BY DEF IndInv, FinalizedHasQuorum, CarryInv, HasQuorum
  <2> QED
    BY <2>1, <1>0 DEF FinalizedHasQuorum, HasQuorum
<1>4. ClockFollowsDag'
  BY <1>0 DEF IndInv, ClockFollowsDag
<1> QED
  BY <1>1, <1>2, <1>3, <1>4 DEF IndInv

LEMMA InsertStep ==
  ASSUME IndInv, TypeOK', NEW n \in Nodes, NEW u \in Vertices, InsertVertex(n, u)
  PROVE  IndInv'
<1> DEFINE new == [by |-> n, parents |-> creating[n].tips, clock |-> clock'[n]]
<1> USE DEF IndInv
<1>1. /\ u \notin Created
      /\ Created' = Created \cup {u}
      /\ vertex'[u] = new
      /\ \A v \in Created : vertex'[v] = vertex[v]
  <2>1. new # None
    <3>1. creating[n].tips \in SUBSET Vertices /\ clock'[n] \in [Nodes -> Nat]
      BY DEF TypeOK, Clocks
    <3> QED
      BY <3>1, DagAssumption
  <2> QED
    BY <2>1 DEF InsertVertex, TypeOK, Created
<1>2. /\ \A m \in Nodes : Known(m)' = IF m = n THEN Known(n) \cup {u} ELSE Known(m)
      /\ \A m \in Nodes : present'[m] = IF m = n THEN present[n] \cup {u} ELSE present[m]
      /\ finalized' = finalized
  BY DEF InsertVertex, TypeOK, Known
<1>3. \A m, k \in Nodes :
        /\ clock[m][k] \in Nat /\ clock'[m][k] \in Nat
        /\ clock'[m][k] = IF m = n /\ k = n THEN clock[n][n] + 1 ELSE clock[m][k]
  BY DEF InsertVertex, TypeOK, Clocks
<1>4. \A v \in Created : Parents(v)' = Parents(v) /\ vertex[v].clock \in Clocks
  BY <1>1 DEF Parents, Created, TypeOK
<1>5. Parents(u)' = creating[n].tips /\ creating[n].tips \subseteq Known(n)
  BY <1>1 DEF Parents, CarryInv
<1>6. \A v : HasQuorum(v) => HasQuorum(v)'
  BY InsertKeepsQuorum
<1>7. CarryInv'
  <2>1. /\ adding' = adding /\ confirmed' = confirmed
        /\ \A m \in Nodes : creating'[m].tips = IF m = n THEN {} ELSE creating[m].tips
    BY DEF InsertVertex, Idle, TypeOK
  <2> QED
    BY <2>1, <1>1, <1>2, <1>4, <1>6 DEF CarryInv
<1>8. KnownInv'
  <2>1. \A m \in Nodes : Known(m)' \subseteq Created'
    BY <1>1, <1>2 DEF KnownInv
  <2>2. ASSUME NEW m \in Nodes, NEW v \in Known(m), NEW k \in Nodes
        PROVE  vertex'[v].clock[k] <= clock'[m][k]
    <3>1. v \in Created /\ vertex[v].clock[k] <= clock[m][k]
      BY DEF KnownInv
    <3>2. vertex[v].clock[k] \in Nat
      BY <3>1, <1>4 DEF Clocks
    <3> QED
      BY <3>1, <3>2, <1>1, <1>3
  <2>3. \A k \in Nodes : vertex'[u].clock[k] <= clock'[n][k]
    BY <1>1, <1>3
  <2> QED
    BY <2>1, <2>2, <2>3, <1>2 DEF KnownInv
<1>9. ParentsKnown'
  <2>1. \A m \in Nodes : \A v \in present[m] : v \in Created
    BY DEF KnownInv, Known
  <2>2. \A m \in Nodes : Known(m) \subseteq Known(m)'
    BY <1>2
  <2> QED
    BY <1>2, <1>4, <1>5, <2>1, <2>2 DEF ParentsKnown, Known
<1>10. FinalizedHasQuorum'
  <2>1. \A m \in Nodes : \A v \in finalized[m] : HasQuorum(v)
    BY DEF FinalizedHasQuorum, HasQuorum
  <2> QED
    BY <2>1, <1>2, <1>6 DEF FinalizedHasQuorum, HasQuorum
<1>11. ClockFollowsDag'
  <2>1. ASSUME NEW v \in Created, NEW p \in Parents(v)'
        PROVE  /\ p \in Created'
               /\ \A m \in Nodes : vertex'[p].clock[m] <= vertex'[v].clock[m]
               /\ vertex'[p].clock[vertex'[v].by] < vertex'[v].clock[vertex'[v].by]
    BY <1>1, <1>4 DEF ClockFollowsDag
  <2>2. ASSUME NEW p \in Parents(u)'
        PROVE  /\ p \in Created'
               /\ \A m \in Nodes : vertex'[p].clock[m] <= vertex'[u].clock[m]
               /\ vertex'[p].clock[vertex'[u].by] < vertex'[u].clock[vertex'[u].by]
    <3>1. p \in Created /\ \A m \in Nodes : vertex[p].clock[m] <= clock[n][m]
      BY <1>5 DEF KnownInv
    <3>2. \A m \in Nodes : vertex[p].clock[m] \in Nat
      BY <3>1, <1>4 DEF Clocks
    <3>3. vertex'[p] = vertex[p] /\ vertex'[u].by = n /\ vertex'[u].clock = clock'[n]
      BY <3>1, <1>1
    <3> QED
      BY <3>1, <3>2, <3>3, <1>1, <1>3
  <2> QED
    BY <2>1, <2>2, <1>1 DEF ClockFollowsDag
<1> QED
  BY <1>7, <1>8, <1>9, <1>10, <1>11

LEMMA AddStep ==
  ASSUME IndInv, TypeOK', NEW n \in Nodes, AddVertex(n)
  PROVE  IndInv'
<1> DEFINE u == adding[n]
<1> USE DEF IndInv
<1>0. Created' = Created /\ (\A v : Parents(v)' = Parents(v))
      /\ (\A v : HasQuorum(v) => HasQuorum(v)') /\ vertex' = vertex
  BY SameVertices DEF AddVertex
<1>1. u \in Created /\ Parents(u) \subseteq Known(n)
  BY DEF AddVertex, CarryInv
<1>2. /\ \A m \in Nodes : Known(m)' = IF m = n THEN Known(n) \cup {u} ELSE Known(m)
      /\ \A m \in Nodes : present'[m] = IF m = n THEN present[n] \cup {u} ELSE present[m]
      /\ finalized' = finalized
  BY DEF AddVertex, TypeOK, Known
<1>3. \A m, k \in Nodes :
        /\ clock[m][k] \in Nat /\ clock'[m][k] \in Nat /\ clock[m][k] <= clock'[m][k]
        /\ vertex[u].clock[k] <= clock'[n][k]
  <2>1. vertex[u].clock \in Clocks
    BY <1>1 DEF Created, TypeOK
  <2> QED
    BY <2>1 DEF AddVertex, Later, TypeOK, Clocks
<1>4. CarryInv'
  <2>1. /\ creating' = creating /\ confirmed' = confirmed
        /\ \A m \in Nodes : adding'[m] = IF m = n THEN None ELSE adding[m]
    BY DEF AddVertex, TypeOK
  <2> QED
    BY <2>1, <1>0, <1>2 DEF CarryInv
<1>5. KnownInv'
  <2>1. ASSUME NEW m \in Nodes, NEW v \in Known(m), NEW k \in Nodes
        PROVE  vertex'[v].clock[k] <= clock'[m][k]
    <3>1. vertex[v].clock[k] <= clock[m][k] /\ v \in Created
      BY DEF KnownInv
    <3>2. vertex[v].clock[k] \in Nat
      BY <3>1 DEF Created, TypeOK, Clocks
    <3> QED
      BY <3>1, <3>2, <1>0, <1>3
  <2> QED
    BY <2>1, <1>0, <1>1, <1>2, <1>3 DEF KnownInv
<1>6. ParentsKnown'
  <2>1. \A m \in Nodes : Known(m) \subseteq Known(m)'
    BY <1>2
  <2> QED
    BY <2>1, <1>0, <1>1, <1>2 DEF ParentsKnown, Known
<1>7. FinalizedHasQuorum'
  BY <1>0, <1>2 DEF FinalizedHasQuorum, HasQuorum
<1>8. ClockFollowsDag'
  BY <1>0 DEF ClockFollowsDag
<1> QED
  BY <1>4, <1>5, <1>6, <1>7, <1>8

LEMMA StepInv == IndInv /\ [Next]_vars => IndInv'
<1> SUFFICES ASSUME IndInv, [Next]_vars PROVE IndInv'
  OBVIOUS
<1>0. TypeOK'
  BY TypeStep DEF IndInv
<1>00. \A n \in Nodes : present[n] \subseteq Known(n) /\ finalized[n] \subseteq Known(n)
  BY DEF Known
<1>1. CASE UNCHANGED vars
  <2>1. CarryInv' /\ \A n \in Nodes : Known(n)' = Known(n)
    BY <1>1 DEF vars, IndInv, CarryInv, Known, HasQuorum, Created, Confirmers, Parents
  <2> QED
    BY <1>0, <1>1, <2>1, FrameStep DEF vars
<1>2. ASSUME NEW n \in Nodes, SubmitTransaction(n)
      PROVE  IndInv'
  <2>1. /\ vertex' = vertex /\ present' = present /\ finalized' = finalized
        /\ clock' = clock /\ creating' = creating /\ adding' = adding
        /\ confirmed' = confirmed
    BY <1>2 DEF SubmitTransaction
  <2>2. \A m \in Nodes : Known(m)' = Known(m)
    BY <2>1 DEF Known
  <2>3. CarryInv'
    BY <2>1, <2>2, SameVertices DEF IndInv, CarryInv
  <2> QED
    BY <1>0, <2>1, <2>2, <2>3, FrameStep
<1>3. ASSUME NEW n \in Nodes, MarkParents(n) \/ FilterTips(n)
      PROVE  IndInv'
  <2>1. /\ vertex' = vertex /\ present' = present /\ finalized' = finalized
        /\ clock' = clock /\ adding' = adding /\ confirmed' = confirmed
        /\ \A m \in Nodes : creating'[m].tips \subseteq creating[m].tips \cup present[m]
    <3>1. CASE MarkParents(n)
      BY <3>1 DEF MarkParents, IndInv, TypeOK
    <3>2. CASE FilterTips(n)
      BY <3>2 DEF FilterTips, IndInv, TypeOK
    <3> QED
      BY <1>3, <3>1, <3>2
  <2>2. \A m \in Nodes : Known(m)' = Known(m)
    BY <2>1 DEF Known
  <2>3. CarryInv'
    BY <2>1, <2>2, <1>00, SameVertices DEF IndInv, CarryInv
  <2> QED
    BY <1>0, <2>1, <2>2, <2>3, FrameStep
<1>4. ASSUME NEW n \in Nodes, NEW v \in Vertices, CheckParents(n, v)
      PROVE  IndInv'
  <2>1. /\ vertex' = vertex /\ present' = present /\ finalized' = finalized
        /\ clock' = clock /\ creating' = creating /\ confirmed' = confirmed
        /\ \A m \in Nodes : adding'[m] = IF m = n THEN v ELSE adding[m]
        /\ v \in Created /\ Parents(v) \subseteq Known(n)
    BY <1>4 DEF CheckParents, IndInv, TypeOK, Known
  <2>2. \A m \in Nodes : Known(m)' = Known(m)
    BY <2>1 DEF Known
  <2>3. CarryInv'
    BY <2>1, <2>2, SameVertices DEF IndInv, CarryInv
  <2> QED
    BY <1>0, <2>1, <2>2, <2>3, FrameStep
<1>5. ASSUME NEW n \in Nodes, ScanConfirmations(n)
      PROVE  IndInv'
  <2>1. /\ vertex' = vertex /\ present' = present /\ finalized' = finalized
        /\ clock' = clock /\ creating' = creating /\ adding' = adding
        /\ \A m \in Nodes : confirmed'[m] = IF m = n THEN Confirmed(n) \ finalized[n]
                                                     ELSE confirmed[m]
    BY <1>5 DEF ScanConfirmations, IndInv, TypeOK
  <2>2. \A m \in Nodes : Known(m)' = Known(m)
    BY <2>1 DEF Known
  <2>3. \A v \in Confirmed(n) : v \in Known(n) /\ HasQuorum(v)
    <3>1. present[n] \subseteq Created
      BY <1>00 DEF IndInv, KnownInv
    <3> QED
      BY <3>1, <1>00, MoreConfirmers DEF Confirmed, IndInv
  <2>4. CarryInv'
    BY <2>1, <2>2, <2>3, SameVertices DEF IndInv, CarryInv
  <2> QED
    BY <1>0, <2>1, <2>2, <2>4, FrameStep
<1>6. ASSUME NEW n \in Nodes, WriteFinalized(n)
      PROVE  IndInv'
  <2>1. /\ vertex' = vertex /\ present' = present /\ adding' = adding
        /\ clock' = clock /\ creating' = creating
        /\ \A m \in Nodes : finalized'[m] = IF m = n THEN finalized[n] \cup confirmed[n]
                                                     ELSE finalized[m]
        /\ \A m \in Nodes : confirmed'[m] \subseteq confirmed[m]
    BY <1>6 DEF WriteFinalized, IndInv, TypeOK
  <2>2. \A m \in Nodes : Known(m)' = Known(m)
    BY <2>1 DEF Known, IndInv, CarryInv
  <2>3. CarryInv'
    BY <2>1, <2>2, SameVertices DEF IndInv, CarryInv
  <2> QED
    BY <1>0, <2>1, <2>2, <2>3, FrameStep
<1>7. ASSUME NEW n \in Nodes, NEW v \in Vertices, Prune(n, v)
      PROVE  IndInv'
  <2>1. /\ vertex' = vertex /\ finalized' = finalized /\ adding' = adding
        /\ clock' = clock /\ creating' = creating /\ confirmed' = confirmed
        /\ v \in finalized[n]
        /\ \A m \in Nodes : present'[m] = IF m = n THEN present[n] \ {v} ELSE present[m]
    BY <1>7 DEF Prune, IndInv, TypeOK
  <2>2. \A m \in Nodes : Known(m)' = Known(m)
    BY <2>1 DEF Known
  <2>3. CarryInv'
    BY <2>1, <2>2, SameVertices DEF IndInv, CarryInv
  <2> QED
    BY <1>0, <2>1, <2>2, <2>3, FrameStep
<1>8. CASE \E n \in Nodes : AddVertex(n)
  BY <1>0, <1>8, AddStep
<1>9. CASE \E n \in Nodes, v \in Vertices : InsertVertex(n, v)
  BY <1>0, <1>9, InsertStep
<1> QED
  BY <1>1, <1>2, <1>3, <1>4, <1>5, <1>6, <1>7, <1>8, <1>9 DEF Next

-----------------------------------------------------------------------------
(* Theorems                                                                *)

LEMMA Inductive == Spec => []IndInv
<1>1. Init => IndInv
  BY InitInv
<1>2. IndInv /\ [Next]_vars => IndInv'
  BY StepInv
<1> QED
  BY <1>1, <1>2, PTL DEF Spec

\* Every variable of DagConsensus keeps its type.
THEOREM DagTypeOK == Spec => []TypeOK
<1>1. IndInv => TypeOK
  BY DEF IndInv
<1> QED
  BY <1>1, Inductive, PTL

\* The clock of a vertex is after those of its parents, although find_tips
\* and the lock of the clock are two steps of create_vertex.
THEOREM ClocksFollowDag == Spec => []ClockFollowsDag
<1>1. IndInv => ClockFollowsDag
  BY DEF IndInv
<1> QED
  BY <1>1, Inductive, PTL

\* prune_old_vertices makes no hole under the threads of create_vertex and
\* add_vertex: parents are present or were final.
THEOREM NoHoles == Spec => []ParentsKnown
<1>1. IndInv => ParentsKnown
  BY DEF IndInv
<1> QED
  BY <1>1, Inductive, PTL

\* finalize_vertices counts before it locks, and what it then writes still has
\* children of min_quorum_size nodes.
THEOREM FinalHasQuorum == Spec => []FinalizedHasQuorum
<1>1. IndInv => FinalizedHasQuorum
  BY DEF IndInv
<1> QED
  BY <1>1, Inductive, PTL

=============================================================================
