---------------------------- MODULE ClusterProofs ----------------------------
(***************************************************************************)
(* Proofs about Cluster, for any callers, nodes, shards, copies, hash      *)
(* function and buckets, and for every call on every node: types, that     *)
(* shards end up where the ring wants them, and that nodes and ring agree. *)
(***************************************************************************)
EXTENDS Cluster, TLAPS

Ops ==
    [at : {"idle", "write", "drain", "map", "visit", "update", "assign", "insert"},
     does : {"nothing", "add", "remove", "start", "init", "assign"},
     node : Nodes \cup {None}, todo : SUBSET Nodes, shard : Shards]

Changing == {"write", "drain", "map"}

OpOK(o) ==
    /\ o \in Ops
    /\ o.at \in Changing =>
         o.node \in Nodes /\ o.does \in {"add", "remove", "start"} /\ o.shard = 1

\* A node that was never contested is changed by one call at a time, which is
\* either still to write the ring or has written it.
OneChanges ==
    \A n \in Nodes \ contested : \A c, d \in Callers :
        Changes(op[c], n) /\ Changes(op[d], n) => c = d

RingWritten ==
    \A n \in Nodes \ contested : \A c \in Callers :
        /\ op[c].node = n /\ op[c].at \in {"write", "drain"} => (n \in nodes <=> n \in ring)
        /\ op[c].node = n /\ op[c].at = "map" => (n \in ring <=> op[c].does # "remove")

IndInv == TypeOK /\ ShardsFollowRing /\ OneChanges /\ RingWritten /\ NodesMatchRing

-----------------------------------------------------------------------------
(* What calls are put in op                                                *)

LEMMA OneShard == 1 \in Shards /\ Shards \subseteq Nat
BY ClusterAssumption DEF Shards

LEMMA OpsTyped == TypeOK => \A c \in Callers : OpOK(op[c])
BY DEF TypeOK, OpOK, Ops, Changing

LEMMA IdleTyped == OpOK(Idle) /\ Idle.at = "idle"
BY OneShard DEF OpOK, Ops, Idle, Changing

LEMMA DiscoverTyped ==
  ASSUME NEW todo \in SUBSET Nodes, NEW o \in Discover(todo)
  PROVE  OpOK(o) /\ o.at \in {"assign", "write"}
<1>1. CASE todo = {}
  BY <1>1, OneShard DEF Discover, OpOK, Ops, Idle, Changing
<1>2. CASE todo # {}
  <2>1. PICK n \in todo : o = [at |-> "write", does |-> "start", node |-> n,
                               todo |-> todo \ {n}, shard |-> 1]
    BY <1>2 DEF Discover
  <2> QED
    BY <2>1, OneShard DEF OpOK, Ops, Changing
<1> QED
  BY <1>1, <1>2

\* After a shard comes the next one, or the call has none left to look at.
LEMMA ContinueTyped ==
  ASSUME NEW o, OpOK(o), o.at \in {"update", "insert"}, NEW p \in Continue(o)
  PROVE  /\ OpOK(p) /\ p.at \in {"idle", "write", "visit", "assign"}
         /\ \A s \in Shards \ {o.shard} :
              o.does \in {"add", "remove", "start"} /\ o.shard <= s =>
                p.does = o.does /\ p.shard <= s /\ p.at = "visit"
<1>1. o.shard \in Nat /\ ShardCount \in Nat
  BY OneShard, ClusterAssumption DEF OpOK, Ops
<1>2. CASE o.does # "assign" /\ o.shard < ShardCount
  <2>1. p = [o EXCEPT !.shard = @ + 1, !.at = IF o.does = "init" THEN "assign" ELSE "visit"]
    BY <1>2 DEF Continue
  <2>2. o.shard + 1 \in Shards
    BY <1>1, <1>2 DEF Shards
  <2>3. p \in Ops /\ p.shard = o.shard + 1 /\ p.does = o.does
        /\ p.at = IF o.does = "init" THEN "assign" ELSE "visit"
    BY <2>1, <2>2 DEF OpOK, Ops
  <2> QED
    BY <1>1, <2>3 DEF OpOK, Changing, Shards
<1>3. CASE ~(o.does # "assign" /\ o.shard < ShardCount)
  <2>1. OpOK(p) /\ p.at \in {"idle", "write", "assign"}
    BY <1>3, DiscoverTyped, IdleTyped DEF Continue, OpOK, Ops
  <2>2. ASSUME NEW s \in Shards \ {o.shard}, o.does \in {"add", "remove", "start"}, o.shard <= s
        PROVE  FALSE
    BY <1>1, <1>3, <2>2 DEF Shards
  <2> QED
    BY <2>1, <2>2
<1> QED
  BY <1>2, <1>3

-----------------------------------------------------------------------------
(* Types                                                                   *)

Placed(S) == DOMAIN S = Shards /\ \A s \in Shards : S[s] \in {None} \cup {Owners(s, M) : M \in SUBSET Nodes}

LEMMA TypesFrom ==
  ASSUME TypeOK, ring' \in SUBSET Nodes, nodes' \in SUBSET Nodes, contested' \in SUBSET Nodes,
         Placed(shards'), calls' \in Nat,
         NEW c \in Callers, NEW o, OpOK(o), op' = [op EXCEPT ![c] = o]
  PROVE  TypeOK'
<1>1. op \in [Callers -> Ops] /\ \A d \in Callers : OpOK(op[d])
  BY OpsTyped DEF TypeOK, Ops
<1>2. op' \in [Callers -> Ops] /\ \A d \in Callers : OpOK(op'[d])
  BY <1>1 DEF OpOK
<1>3. DOMAIN shards' = Shards
      /\ \A s \in Shards : shards'[s] \in {None} \cup {Owners(s, M) : M \in SUBSET Nodes}
  BY DEF Placed
<1>4. \A d \in Callers : op'[d].at \in {"write", "drain", "map"} =>
        op'[d].node \in Nodes /\ op'[d].does \in {"add", "remove", "start"} /\ op'[d].shard = 1
  BY <1>2 DEF OpOK, Changing
<1>5. op' \in [Callers -> Ops]
  BY <1>2
<1> QED
  BY <1>3, <1>4, <1>5 DEF TypeOK, Ops

LEMMA CallTypes ==
  ASSUME TypeOK, NEW c \in Callers, NEW o, OpOK(o), Call(c, o)
  PROVE  TypeOK'
<1>1. contested' \in SUBSET Nodes
  BY OpsTyped DEF Call, Begin, Changes, OpOK, Changing, TypeOK
<1>2. ring' \in SUBSET Nodes /\ nodes' \in SUBSET Nodes /\ calls' \in Nat /\ Placed(shards')
  BY DEF Call, TypeOK, Placed
<1>3. op' = [op EXCEPT ![c] = o]
  BY DEF Call, Begin
<1> QED
  BY <1>1, <1>2, <1>3, TypesFrom

\* The calls there are.
LEMMA CallsTyped ==
  ASSUME NEW c \in Callers,
         \/ \E n \in MayChange[c] : AddNode(c, n) \/ RemoveNode(c, n)
         \/ Start(c)
         \/ \E s \in Shards : AssignShard(c, s)
  PROVE  \E o : OpOK(o) /\ o.at \in {"write", "assign"} /\ Call(c, o)
<1>1. ASSUME NEW n \in MayChange[c], AddNode(c, n) \/ RemoveNode(c, n)
      PROVE  \E o : OpOK(o) /\ o.at \in {"write", "assign"} /\ Call(c, o)
  <2>1. n \in Nodes
    BY ClusterAssumption
  <2> DEFINE add == [Idle EXCEPT !.at = "write", !.does = "add", !.node = n]
             rem == [Idle EXCEPT !.at = "write", !.does = "remove", !.node = n]
  <2>2. /\ OpOK(add) /\ add.at = "write"
        /\ OpOK(rem) /\ rem.at = "write"
    BY <2>1, OneShard DEF OpOK, Ops, Idle, Changing
  <2> QED
    BY <1>1, <2>2 DEF AddNode, RemoveNode
<1>2. CASE Start(c)
  BY <1>2, DiscoverTyped, ClusterAssumption DEF Start
<1>3. ASSUME NEW s \in Shards, AssignShard(c, s)
      PROVE  \E o : OpOK(o) /\ o.at \in {"write", "assign"} /\ Call(c, o)
  <2> DEFINE o == [Idle EXCEPT !.at = "assign", !.does = "assign", !.shard = s]
  <2>1. OpOK(o) /\ o.at = "assign"
    BY DEF OpOK, Ops, Idle, Changing
  <2> QED
    BY <1>3, <2>1 DEF AssignShard
<1> QED
  BY <1>1, <1>2, <1>3

LEMMA StepTypes ==
  ASSUME TypeOK, NEW c \in Callers, Step(c)
  PROVE  TypeOK'
<1>1. OpOK(op[c]) /\ op[c].shard \in Shards
  BY OpsTyped DEF OpOK, Ops
<1>2. CASE AnnounceWriter(c)
  <2> DEFINE o == [op[c] EXCEPT !.at = "drain"]
  <2>1. OpOK(o)
    BY <1>1, <1>2 DEF AnnounceWriter, OpOK, Ops, Changing
  <2>2. op' = [op EXCEPT ![c] = o]
    BY <1>2 DEF AnnounceWriter
  <2> QED
    BY <1>2, <2>1, <2>2, TypesFrom DEF AnnounceWriter, TypeOK, Placed
<1>3. CASE WriteRing(c)
  <2> DEFINE o == [op[c] EXCEPT !.at = "map"]
  <2>1. OpOK(o) /\ op[c].node \in Nodes
    BY <1>1, <1>3 DEF WriteRing, OpOK, Ops, Changing
  <2>2. op' = [op EXCEPT ![c] = o]
    BY <1>3 DEF WriteRing
  <2> QED
    BY <1>3, <2>1, <2>2, TypesFrom DEF WriteRing, Put, TypeOK, Placed
<1>4. CASE UpdateNodes(c)
  <2> DEFINE o == [op[c] EXCEPT !.at = "visit"]
  <2>1. OpOK(o) /\ op[c].node \in Nodes
    BY <1>1, <1>4 DEF UpdateNodes, OpOK, Ops, Changing
  <2>2. op' = [op EXCEPT ![c] = o]
    BY <1>4 DEF UpdateNodes
  <2> QED
    BY <1>4, <2>1, <2>2, TypesFrom DEF UpdateNodes, Put, TypeOK, Placed
<1>5. CASE VisitShard(c)
  <2> DEFINE o == [op[c] EXCEPT !.at = IF shards[op[c].shard] = None THEN "assign" ELSE "update"]
  <2>1. OpOK(o)
    BY <1>1, <1>5 DEF VisitShard, OpOK, Ops, Changing
  <2>2. op' = [op EXCEPT ![c] = o]
    BY <1>5 DEF VisitShard
  <2> QED
    BY <1>5, <2>1, <2>2, TypesFrom DEF VisitShard, TypeOK, Placed
<1>6. CASE ReadRing(c)
  <2> DEFINE o == IF ring = {} THEN Idle ELSE [op[c] EXCEPT !.at = "insert"]
  <2>1. OpOK(o)
    BY <1>1, <1>6, IdleTyped DEF ReadRing, OpOK, Ops, Changing
  <2>2. op' = [op EXCEPT ![c] = o]
    BY <1>6 DEF ReadRing
  <2> QED
    BY <1>6, <2>1, <2>2, TypesFrom DEF ReadRing, TypeOK, Placed
<1>7. CASE UpdateShard(c) \/ InsertShard(c)
  <2>1. PICK o \in Continue(op[c]) : Begin(c, o)
    BY <1>7 DEF UpdateShard, InsertShard
  <2>2. OpOK(o)
    BY <1>1, <1>7, <2>1, ContinueTyped DEF UpdateShard, InsertShard
  <2>3. contested' \in SUBSET Nodes
    BY <2>1, OpsTyped DEF Begin, Changes, OpOK, Changing, TypeOK
  <2>4. Placed(shards')
    BY <1>1, <1>7 DEF UpdateShard, InsertShard, TypeOK, Placed
  <2> QED
    BY <1>7, <2>1, <2>2, <2>3, <2>4, TypesFrom DEF Begin, UpdateShard, InsertShard, TypeOK
<1> QED
  BY <1>2, <1>3, <1>4, <1>5, <1>6, <1>7 DEF Step

LEMMA TypesInductive == TypeOK /\ [Next]_vars => TypeOK'
<1> SUFFICES ASSUME TypeOK, [Next]_vars PROVE TypeOK'
  OBVIOUS
<1>1. CASE UNCHANGED vars
  BY <1>1 DEF vars, TypeOK
<1>2. ASSUME NEW c \in Callers, Step(c) PROVE TypeOK'
  BY <1>2, StepTypes
<1>3. ASSUME NEW c \in Callers, NEW o, OpOK(o), Call(c, o) PROVE TypeOK'
  BY <1>3, CallTypes
<1> QED
  BY <1>1, <1>2, <1>3, CallsTyped DEF Next

-----------------------------------------------------------------------------
(* Shards follow the ring                                                  *)

\* A step that leaves the ring and the shards alone, and in which c goes on
\* without forgetting a shard.
LEMMA SameRing ==
  ASSUME ShardsFollowRing, NEW c \in Callers, ring' = ring,
         \A d \in Callers \ {c} : op'[d] = op[d],
         \A s \in Shards : Revisits(c, s) => Revisits(c, s)' \/ shards'[s] = Owners(s, ring) \/ ring = {},
         \A s \in Shards : shards'[s] = shards[s] \/ shards'[s] = Owners(s, ring)
  PROVE  ShardsFollowRing'
BY DEF ShardsFollowRing, Revisits

LEMMA CallFollows ==
  ASSUME TypeOK, ShardsFollowRing, NEW c \in Callers, NEW o, OpOK(o), Call(c, o)
  PROVE  ShardsFollowRing'
<1>1. \A d \in Callers \ {c} : op'[d] = op[d]
  BY DEF Call, Begin, TypeOK
<1>2. \A s \in Shards : ~Revisits(c, s)
  BY DEF Call, Idle, Revisits
<1> QED
  BY <1>1, <1>2, SameRing DEF Call

LEMMA StepFollows ==
  ASSUME TypeOK, ShardsFollowRing, NEW c \in Callers, Step(c)
  PROVE  ShardsFollowRing'
<1>1. OpOK(op[c]) /\ op[c].shard \in Shards /\ \A s \in Shards : 1 <= s
  BY OpsTyped DEF OpOK, Ops, Shards
<1>2. \A d \in Callers \ {c} : op'[d] = op[d]
  BY DEF Step, AnnounceWriter, WriteRing, UpdateNodes, VisitShard, UpdateShard, ReadRing,
         InsertShard, Begin, TypeOK
<1>3. CASE AnnounceWriter(c)
  <2>1. \A s \in Shards : ~Revisits(c, s)
    BY <1>3 DEF AnnounceWriter, Revisits
  <2> QED
    BY <1>2, <1>3, <2>1, SameRing DEF AnnounceWriter
<1>4. CASE WriteRing(c)
  <2>1. op'[c].at = "map" /\ op'[c].does = op[c].does
    BY <1>1, <1>4 DEF WriteRing, TypeOK
  <2>2. op[c].does \in {"add", "remove", "start"}
    BY <1>1, <1>4 DEF WriteRing, OpOK, Changing
  <2> QED
    BY <2>1, <2>2 DEF ShardsFollowRing, Revisits
<1>5. CASE UpdateNodes(c)
  <2>1. op'[c].at = "visit" /\ op'[c].does = op[c].does /\ op'[c].shard = 1
    BY <1>1, <1>5 DEF UpdateNodes, TypeOK, OpOK, Changing
  <2>2. \A s \in Shards : Revisits(c, s) => Revisits(c, s)'
    BY <1>1, <2>1 DEF Revisits
  <2> QED
    BY <1>2, <1>5, <2>2, SameRing DEF UpdateNodes
<1>6. CASE VisitShard(c)
  <2>1. op'[c].at \in {"assign", "update"} /\ op'[c].does = op[c].does /\ op'[c].shard = op[c].shard
    BY <1>1, <1>6 DEF VisitShard, TypeOK
  <2>2. \A s \in Shards : Revisits(c, s) => Revisits(c, s)'
    BY <1>6, <2>1 DEF Revisits, VisitShard
  <2> QED
    BY <1>2, <1>6, <2>2, SameRing DEF VisitShard
<1>7. CASE ReadRing(c)
  <2>1. CASE ring = {}
    BY <1>7, <2>1 DEF ReadRing, ShardsFollowRing
  <2>2. CASE ring # {}
    <3>1. op'[c].at = "insert" /\ op'[c].does = op[c].does /\ op'[c].shard = op[c].shard
      BY <1>7, <2>2 DEF ReadRing, TypeOK
    <3>2. \A s \in Shards : Revisits(c, s) => Revisits(c, s)'
      BY <1>7, <3>1 DEF Revisits, ReadRing
    <3> QED
      BY <1>2, <1>7, <3>2, SameRing DEF ReadRing
  <2> QED
    BY <2>1, <2>2
<1>8. CASE UpdateShard(c) \/ InsertShard(c)
  <2>1. PICK o \in Continue(op[c]) : Begin(c, o)
    BY <1>8 DEF UpdateShard, InsertShard
  <2>2. op'[c] = o
    BY <2>1 DEF Begin, TypeOK
  <2>3. op[c].at \in {"update", "insert"} /\ ring' = ring
    BY <1>8 DEF UpdateShard, InsertShard
  <2>4. CASE ring = {}
    BY <2>3, <2>4 DEF ShardsFollowRing
  <2>5. CASE ring # {}
    <3>1. shards' = [shards EXCEPT ![op[c].shard] = Owners(op[c].shard, ring)]
      BY <1>8, <2>5 DEF UpdateShard, InsertShard
    <3>2. /\ shards'[op[c].shard] = Owners(op[c].shard, ring)
          /\ \A s \in Shards \ {op[c].shard} : shards'[s] = shards[s]
      BY <1>1, <3>1 DEF TypeOK
    <3>3. \A s \in Shards \ {op[c].shard} : Revisits(c, s) => Revisits(c, s)'
      BY <1>1, <2>1, <2>2, <2>3, ContinueTyped DEF Revisits
    <3> QED
      BY <1>2, <2>3, <3>2, <3>3, SameRing
  <2> QED
    BY <2>4, <2>5
<1> QED
  BY <1>3, <1>4, <1>5, <1>6, <1>7, <1>8 DEF Step

-----------------------------------------------------------------------------
(* Nodes match the ring                                                    *)

MatchInv == OneChanges /\ RingWritten /\ NodesMatchRing

\* A caller that changes nothing becomes o, which may be about to change a node.
LEMMA BeginMatches ==
  ASSUME TypeOK, MatchInv, NEW c \in Callers, NEW o, OpOK(o), o.at \notin {"drain", "map"},
         \A n \in Nodes : ~Changes(op[c], n),
         Begin(c, o), UNCHANGED <<ring, nodes>>
  PROVE  MatchInv'
<1>1. op'[c] = o /\ \A d \in Callers \ {c} : op'[d] = op[d]
  BY DEF Begin, TypeOK
<1>2. contested \subseteq contested'
      /\ \A n \in Nodes \ contested' : Changes(o, n) => \A d \in Callers \ {c} : ~Changes(op[d], n)
  BY DEF Begin, Changes
<1>3. \A n \in Nodes \ contested' : \A d \in Callers : Changes(op'[d], n) =>
        \/ d = c /\ o.at = "write" /\ \A e \in Callers : ~Changes(op[e], n)
        \/ d # c /\ Changes(op[d], n) /\ op'[d] = op[d]
  BY <1>1, <1>2 DEF Changes
<1>4. OneChanges'
  <2> SUFFICES ASSUME NEW n \in Nodes \ contested', NEW d \in Callers, NEW e \in Callers,
                      Changes(op'[d], n), Changes(op'[e], n)
               PROVE  d = e
    BY DEF OneChanges, Changes
  <2> QED
    BY <1>2, <1>3 DEF MatchInv, OneChanges
<1>5. RingWritten'
  <2> SUFFICES ASSUME NEW n \in Nodes \ contested', NEW d \in Callers, op'[d].node = n,
                      op'[d].at \in {"write", "drain", "map"}
               PROVE  /\ op'[d].at \in {"write", "drain"} => (n \in nodes <=> n \in ring)
                      /\ op'[d].at = "map" => (n \in ring <=> op'[d].does # "remove")
    BY DEF RingWritten
  <2>1. Changes(op'[d], n) /\ n \in Nodes \ contested
    BY <1>2 DEF Changes
  <2>2. CASE d = c
    BY <1>1, <1>3, <2>1, <2>2 DEF MatchInv, NodesMatchRing
  <2>3. CASE d # c
    BY <1>1, <2>1, <2>3 DEF MatchInv, RingWritten
  <2> QED
    BY <2>2, <2>3
<1>6. NodesMatchRing'
  BY <1>1, <1>2 DEF MatchInv, NodesMatchRing, Changes
<1> QED
  BY <1>4, <1>5, <1>6 DEF MatchInv

LEMMA StepMatches ==
  ASSUME TypeOK, MatchInv, NEW c \in Callers, Step(c)
  PROVE  MatchInv'
<1>1. OpOK(op[c])
  BY OpsTyped
<1>2. CASE UpdateShard(c) \/ InsertShard(c)
  <2>1. PICK o \in Continue(op[c]) : Begin(c, o)
    BY <1>2 DEF UpdateShard, InsertShard
  <2>2. OpOK(o) /\ o.at \notin {"drain", "map"}
    BY <1>1, <1>2, <2>1, ContinueTyped DEF UpdateShard, InsertShard
  <2>3. \A n \in Nodes : ~Changes(op[c], n)
    BY <1>2 DEF UpdateShard, InsertShard, Changes
  <2> QED
    BY <1>2, <2>1, <2>2, <2>3, BeginMatches DEF UpdateShard, InsertShard
<1>3. CASE VisitShard(c) \/ ReadRing(c)
  <2>1. UNCHANGED <<ring, nodes, contested>> /\ \A d \in Callers \ {c} : op'[d] = op[d]
    BY <1>3 DEF VisitShard, ReadRing, TypeOK
  <2>2. op[c].at \notin {"write", "drain", "map"} /\ op'[c].at \notin {"write", "drain", "map"}
    BY <1>3 DEF VisitShard, ReadRing, TypeOK, Idle
  <2> QED
    BY <2>1, <2>2 DEF MatchInv, OneChanges, RingWritten, NodesMatchRing, Changes
<1>4. CASE AnnounceWriter(c)
  <2>1. UNCHANGED <<ring, nodes, contested>> /\ \A d \in Callers \ {c} : op'[d] = op[d]
    BY <1>4 DEF AnnounceWriter, TypeOK
  <2>2. op[c].at = "write" /\ op'[c].at = "drain" /\ op'[c].node = op[c].node
    BY <1>4 DEF AnnounceWriter, TypeOK
  <2> QED
    BY <2>1, <2>2 DEF MatchInv, OneChanges, RingWritten, NodesMatchRing, Changes
<1>5. CASE WriteRing(c)
  <2>1. UNCHANGED <<nodes, contested>> /\ \A d \in Callers \ {c} : op'[d] = op[d]
    BY <1>5 DEF WriteRing, TypeOK
  <2>2. /\ op[c].at = "drain" /\ op'[c].at = "map"
        /\ op'[c].node = op[c].node /\ op'[c].does = op[c].does
    BY <1>5 DEF WriteRing, TypeOK
  <2>3. /\ \A n \in Nodes \ {op[c].node} : n \in ring' <=> n \in ring
        /\ op[c].node \in ring' <=> op[c].does # "remove"
    BY <1>5 DEF WriteRing, Put
  <2>4. \A n \in Nodes \ contested : \A d \in Callers \ {c} : Changes(op[d], n) => n # op[c].node
    BY <2>2 DEF MatchInv, OneChanges, Changes
  <2>5. OneChanges' /\ NodesMatchRing'
    BY <2>1, <2>2, <2>3 DEF MatchInv, OneChanges, NodesMatchRing, Changes
  <2>6. RingWritten'
    BY <2>1, <2>2, <2>3, <2>4 DEF MatchInv, RingWritten, Changes
  <2> QED
    BY <2>5, <2>6 DEF MatchInv
<1>6. CASE UpdateNodes(c)
  <2>1. UNCHANGED <<ring, contested>> /\ \A d \in Callers \ {c} : op'[d] = op[d]
    BY <1>6 DEF UpdateNodes, TypeOK
  <2>2. op[c].at = "map" /\ op'[c].at = "visit"
    BY <1>6 DEF UpdateNodes, TypeOK
  <2>3. /\ \A n \in Nodes \ {op[c].node} : n \in nodes' <=> n \in nodes
        /\ op[c].node \in nodes' <=> op[c].does # "remove"
    BY <1>6 DEF UpdateNodes, Put
  <2>4. \A n \in Nodes \ contested : \A d \in Callers \ {c} : Changes(op[d], n) => n # op[c].node
    BY <2>2 DEF MatchInv, OneChanges, Changes
  <2>5. OneChanges'
    BY <2>1, <2>2 DEF MatchInv, OneChanges, Changes
  <2>6. RingWritten'
    BY <2>1, <2>2, <2>3, <2>4 DEF MatchInv, RingWritten, Changes
  <2>7. NodesMatchRing'
    BY <2>1, <2>2, <2>3 DEF MatchInv, RingWritten, NodesMatchRing, Changes
  <2> QED
    BY <2>5, <2>6, <2>7 DEF MatchInv
<1> QED
  BY <1>2, <1>3, <1>4, <1>5, <1>6 DEF Step

-----------------------------------------------------------------------------
(* Together                                                                *)

LEMMA Inductive == Spec => []IndInv
<1>1. Init => IndInv
  <2> SUFFICES ASSUME Init PROVE IndInv
    OBVIOUS
  <2>1. op = [c \in Callers |-> Idle] /\ OpOK(Idle) /\ Idle.at = "idle"
    BY IdleTyped DEF Init
  <2>2. TypeOK
    BY <2>1 DEF Init, TypeOK, OpOK, Ops, Changing
  <2> QED
    BY <2>1, <2>2 DEF Init, IndInv, ShardsFollowRing, OneChanges, RingWritten, NodesMatchRing, Changes
<1>2. IndInv /\ [Next]_vars => IndInv'
  <2> SUFFICES ASSUME IndInv, [Next]_vars PROVE IndInv'
    OBVIOUS
  <2>1. TypeOK /\ TypeOK' /\ ShardsFollowRing /\ MatchInv
    BY TypesInductive DEF IndInv, MatchInv
  <2>2. CASE UNCHANGED vars
    BY <2>2 DEF vars, IndInv, TypeOK, ShardsFollowRing, Revisits, OneChanges, RingWritten,
                NodesMatchRing, Changes
  <2>3. ASSUME NEW c \in Callers, Step(c) PROVE IndInv'
    BY <2>1, <2>3, StepFollows, StepMatches DEF IndInv, MatchInv
  <2>4. ASSUME NEW c \in Callers, NEW o, OpOK(o), o.at \in {"write", "assign"}, Call(c, o)
        PROVE  IndInv'
    <3>1. ShardsFollowRing'
      BY <2>1, <2>4, CallFollows
    <3>2. \A n \in Nodes : ~Changes(op[c], n)
      BY <2>4 DEF Call, Idle, Changes
    <3>3. MatchInv'
      BY <2>1, <2>4, <3>2, BeginMatches DEF Call
    <3> QED
      BY <2>1, <3>1, <3>3 DEF IndInv, MatchInv
  <2> QED
    BY <2>2, <2>3, <2>4, CallsTyped DEF Next
<1> QED
  BY <1>1, <1>2, PTL DEF Spec

\* Every variable has its type, and a shard is where some ring wanted it, for
\* any hash function (ClusterManager's ring, nodes and shards).
THEOREM ClusterTypeOK == Spec => []TypeOK
<1>1. IndInv => TypeOK
  BY DEF IndInv
<1> QED
  BY <1>1, Inductive, PTL

\* A shard is where the ring wants it, or a call has yet to come to it, however
\* many calls overlap and fail (rebalance_shards, assign_shard).
THEOREM ShardsEndUpInPlace == Spec => []ShardsFollowRing
<1>1. IndInv => ShardsFollowRing
  BY DEF IndInv
<1> QED
  BY <1>1, Inductive, PTL

\* Nodes and ring agree on every node that was changed by one call at a time
\* (add_node, remove_node).
THEOREM NodesAndRingAgree == Spec => []NodesMatchRing
<1>1. IndInv => NodesMatchRing
  BY DEF IndInv
<1> QED
  BY <1>1, Inductive, PTL

=============================================================================
