------------------------ MODULE DeltaConsensusProofs ------------------------
(***************************************************************************)
(* Proofs about DeltaConsensus, for any number of replicas, threads and    *)
(* deltas: its clocks follow the dependencies, and it implements           *)
(* CausalBroadcast, whether or not the calls on a replica overlap; and     *)
(* where they do not, a delta is delivered once and nothing that is ready  *)
(* waits in the queue.                                                     *)
(***************************************************************************)
EXTENDS DeltaConsensus, TLAPS

\* What a thread carries has been created, and from the moment it is past the
\* check, so has all it depends on been delivered.
CarryInv ==
    \A t \in Threads :
        /\ op[t].pc # "idle" => op[t].id \in Created
        /\ op[t].pc \in {"clock", "apply"} => Deps(op[t].id) \subseteq Got(HomeOf[t])
        /\ \A d \in op[t].ready : d \in Created /\ Deps(d) \subseteq Got(HomeOf[t])

\* What is queued, applied or delivered exists, and what is applied was
\* delivered; what was delivered is never taken back, unlike what is applied.
QueueInv ==
    /\ \A r \in Replicas : pending[r] \subseteq Created
    /\ \A r \in Replicas : applied[r] \subseteq Got(r)
    /\ \A r \in Replicas : Got(r) \subseteq Created
    /\ \A d \in Created : Deps(d) \subseteq Created

Below(c, e) == \A q \in Replicas : c[q] <= e[q]

\* The clock of a replica covers what it made, what it delivered and what a
\* thread of it is about to mark as applied.
ClockInv ==
    /\ \A r \in Replicas : \A d \in Got(r) : Below(delta[d].clock, clock[r])
    /\ \A d \in Created : Below(delta[d].clock, clock[delta[d].origin])
    /\ \A t \in Threads :
         op[t].pc = "apply" => Below(delta[op[t].id].clock, clock[HomeOf[t]])

IndInv ==
    /\ TypeOK
    /\ CarryInv
    /\ QueueInv
    /\ ClockInv
    /\ DependenciesHappenBefore

-----------------------------------------------------------------------------
\* Appending adds one element to what a replica has taken.
LEMMA AppendAdds ==
    ASSUME NEW S, NEW s \in Seq(S), NEW d \in S
    PROVE  {Append(s, d)[k] : k \in 1..Len(Append(s, d))}
             = {s[k] : k \in 1..Len(s)} \cup {d}
<1>1. Len(Append(s, d)) = Len(s) + 1 /\ Len(s) \in Nat
  OBVIOUS
<1>2. \A k \in 1..Len(s) : Append(s, d)[k] = s[k]
  OBVIOUS
<1>3. Append(s, d)[Len(s) + 1] = d
  OBVIOUS
<1>4. 1..(Len(s) + 1) = (1..Len(s)) \cup {Len(s) + 1}
  BY <1>1
<1> QED
  BY <1>1, <1>2, <1>3, <1>4

\* What a step does to the delivered deltas: it appends at one replica.
LEMMA MarkAdds ==
    ASSUME TypeOK, NEW r \in Replicas, NEW d \in DeltaIds, MarkApplied(r, d)
    PROVE  /\ \A q \in Replicas : Got(q)' = IF q = r THEN Got(q) \cup {d} ELSE Got(q)
           /\ \A q \in Replicas :
                applied'[q] = IF q = r THEN applied[q] \cup {d} ELSE applied[q]
           /\ delivered' \in [Replicas -> Seq(DeltaIds)]
           /\ applied' \in [Replicas -> SUBSET DeltaIds]
<1>1. delivered \in [Replicas -> Seq(DeltaIds)] /\ applied \in [Replicas -> SUBSET DeltaIds]
  BY DEF TypeOK
<1>2. delivered' = [delivered EXCEPT ![r] = Append(@, d)]
  BY DEF MarkApplied
<1>3. Got(r)' = Got(r) \cup {d}
  <2>1. delivered'[r] = Append(delivered[r], d)
    BY <1>1, <1>2
  <2>2. delivered[r] \in Seq(DeltaIds)
    BY <1>1
  <2> QED
    BY <2>1, <2>2, AppendAdds DEF Got
<1>4. \A q \in Replicas : q # r => Got(q)' = Got(q)
  BY <1>1, <1>2 DEF Got
<1>5. delivered' \in [Replicas -> Seq(DeltaIds)]
  <2>1. Append(delivered[r], d) \in Seq(DeltaIds)
    BY <1>1
  <2> QED
    BY <1>1, <1>2, <2>1
<1> QED
  BY <1>1, <1>3, <1>4, <1>5 DEF MarkApplied

\* Seeing a delta moves one clock up, past the delta's own.
LEMMA SeenRaises ==
    ASSUME TypeOK, NEW r \in Replicas, NEW d \in Created, Seen(r, d)
    PROVE  /\ clock' \in [Replicas -> Clocks]
           /\ \A q \in Replicas : Below(clock[q], clock'[q])
           /\ Below(delta[d].clock, clock'[r])
<1>1. clock \in [Replicas -> Clocks] /\ delta[d].clock \in Clocks
  BY DEF TypeOK, Created
<1>2. clock' = [clock EXCEPT ![r] = Increment(Merge(clock[r], delta[d].clock), r)]
  BY <1>1 DEF Seen
<1> DEFINE m == Merge(clock[r], delta[d].clock)
<1>3. m \in Clocks
  BY <1>1 DEF Merge, Clocks
<1>4. Below(clock[r], m) /\ Below(delta[d].clock, m)
  BY <1>1 DEF Merge, Clocks, Below
<1>5. Increment(m, r) \in Clocks /\ Below(m, Increment(m, r))
  BY <1>3 DEF Increment, Clocks, Below
<1>6. clock'[r] = Increment(m, r) /\ \A q \in Replicas : q # r => clock'[q] = clock[q]
  BY <1>1, <1>2
<1>7. clock' \in [Replicas -> Clocks]
  BY <1>1, <1>2, <1>5
<1>8. Below(clock[r], clock'[r]) /\ Below(delta[d].clock, clock'[r])
  <2> HIDE DEF m
  <2> QED
    BY <1>1, <1>3, <1>4, <1>5, <1>6 DEF Below, Clocks
<1>9. ASSUME NEW q \in Replicas PROVE Below(clock[q], clock'[q])
  <2>1. CASE q = r
    BY <2>1, <1>8
  <2>2. CASE q # r
    BY <2>2, <1>1, <1>6 DEF Below, Clocks
  <2> QED
    BY <2>1, <2>2
<1> QED
  BY <1>7, <1>8, <1>9

\* Below is transitive on clocks.
LEMMA BelowTrans ==
    ASSUME NEW c \in Clocks, NEW e \in Clocks, NEW f \in Clocks, Below(c, e), Below(e, f)
    PROVE  Below(c, f)
  BY DEF Below, Clocks

\* Clocks that move up, deltas and deliveries that stay: ClockInv stays, when
\* threads on their way to apply are accounted for.
LEMMA ClockInvKept ==
    ASSUME TypeOK, CarryInv, QueueInv, ClockInv, delta' = delta,
           clock' \in [Replicas -> Clocks],
           \A q \in Replicas : Below(clock[q], clock'[q]),
           \A q \in Replicas : \A d \in Got(q)' :
              d \in Got(q) \/ (d \in Created /\ Below(delta[d].clock, clock'[q])),
           \A t \in Threads : op'[t].pc = "apply" =>
              \/ op[t].pc = "apply" /\ op'[t].id = op[t].id
              \/ Below(delta[op'[t].id].clock, clock'[HomeOf[t]])
    PROVE  ClockInv'
<1>1. \A d \in Created : delta[d].clock \in Clocks /\ delta[d].origin \in Replicas
  BY DEF TypeOK, Created
<1>2. \A q \in Replicas : clock[q] \in Clocks /\ clock'[q] \in Clocks
  BY DEF TypeOK
<1>3. Created' = Created
  BY DEF Created
<1>4. ASSUME NEW q \in Replicas, NEW d \in Got(q)' PROVE Below(delta[d].clock, clock'[q])
  <2>1. CASE d \in Got(q)
    <3>1. d \in Created /\ Below(delta[d].clock, clock[q])
      BY <2>1 DEF QueueInv, ClockInv
    <3> QED
      BY <3>1, <1>1, <1>2, BelowTrans
  <2> QED
    BY <2>1
<1>5. ASSUME NEW d \in Created PROVE Below(delta[d].clock, clock'[delta[d].origin])
  <2>1. Below(delta[d].clock, clock[delta[d].origin])
    BY DEF ClockInv
  <2> QED
    BY <2>1, <1>1, <1>2, BelowTrans
<1>6. ASSUME NEW t \in Threads, op'[t].pc = "apply"
      PROVE  Below(delta[op'[t].id].clock, clock'[HomeOf[t]])
  <2>1. CASE op[t].pc = "apply" /\ op'[t].id = op[t].id
    <3>1. op[t].id \in Created /\ Below(delta[op[t].id].clock, clock[HomeOf[t]])
      BY <2>1 DEF CarryInv, ClockInv
    <3>2. HomeOf[t] \in Replicas
      BY DeltaAssumption
    <3> QED
      BY <2>1, <3>1, <3>2, <1>1, <1>2, BelowTrans
  <2> QED
    BY <2>1, <1>6
<1> QED
  BY <1>3, <1>4, <1>5, <1>6 DEF ClockInv
-----------------------------------------------------------------------------
LEMMA InitInv == Init => IndInv
<1> SUFFICES ASSUME Init PROVE IndInv
  OBVIOUS
<1>1. TypeOK
  BY DEF Init, TypeOK, Idle, Clocks
<1>2. Created = {} /\ \A r \in Replicas : Got(r) = {}
  BY DEF Init, Created, Got
<1>3. CarryInv
  BY <1>2 DEF Init, CarryInv, Idle
<1>4. QueueInv
  BY <1>2 DEF Init, QueueInv
<1>5. ClockInv
  BY <1>2 DEF Init, ClockInv, Idle
<1>6. DependenciesHappenBefore
  BY <1>2 DEF DependenciesHappenBefore
<1> QED
  BY <1>1, <1>3, <1>4, <1>5, <1>6 DEF IndInv

LEMMA TypeStep == TypeOK /\ CarryInv /\ QueueInv /\ [Next]_vars => TypeOK'
<1> SUFFICES ASSUME TypeOK, CarryInv, QueueInv, [Next]_vars PROVE TypeOK'
  OBVIOUS
<1> USE DEF TypeOK
<1>1. ASSUME NEW r \in Replicas, NEW d \in DeltaIds, NEW on \in SUBSET DeltaIds,
             Create(r, d, on)
      PROVE  TypeOK'
  <2>1. clock' = [clock EXCEPT ![r] = Increment(clock[r], r)]
    BY <1>1 DEF Create
  <2>2. Increment(clock[r], r) \in Clocks
    BY DEF Increment, Clocks
  <2>3. clock' \in [Replicas -> Clocks]
    BY <2>1, <2>2
  <2>4. [origin |-> r, clock |-> clock'[r], deps |-> on]
          \in [origin : Replicas, clock : Clocks, deps : SUBSET DeltaIds]
    BY <2>3
  <2>5. delta' = [delta EXCEPT ![d] = [origin |-> r, clock |-> clock'[r], deps |-> on]]
    BY <1>1 DEF Create
  <2>6. delta' \in [DeltaIds -> [origin : Replicas, clock : Clocks,
                                 deps : SUBSET DeltaIds] \cup {None}]
    BY <2>4, <2>5
  <2> QED
    BY <1>1, <2>3, <2>6 DEF Create
<1>2. ASSUME NEW t \in Threads, NEW d \in DeltaIds, Receive(t, d) PROVE TypeOK'
  BY <1>2 DEF Receive
<1>3. ASSUME NEW t \in Threads, CheckDependencies(t) PROVE TypeOK'
  BY <1>3 DEF CheckDependencies, Step
<1>4. ASSUME NEW t \in Threads, Park(t) PROVE TypeOK'
  <2>1. HomeOf[t] \in Replicas /\ op[t].id \in DeltaIds
    BY <1>4, DeltaAssumption DEF Park
  <2> QED
    BY <1>4, <2>1 DEF Park, Return, Idle
<1>5. ASSUME NEW t \in Threads, UpdateClock(t) PROVE TypeOK'
  <2>1. HomeOf[t] \in Replicas /\ op[t].id \in Created
    BY <1>5, DeltaAssumption DEF UpdateClock, CarryInv
  <2>2. clock' \in [Replicas -> Clocks]
    BY <1>5, <2>1, SeenRaises DEF UpdateClock
  <2> QED
    BY <1>5, <2>2 DEF UpdateClock, Step
<1>6. ASSUME NEW t \in Threads, Apply(t) PROVE TypeOK'
  <2>1. HomeOf[t] \in Replicas /\ op[t].id \in DeltaIds
    BY <1>6, DeltaAssumption DEF Apply
  <2>2. /\ delivered' \in [Replicas -> Seq(DeltaIds)]
        /\ applied' \in [Replicas -> SUBSET DeltaIds]
    BY <1>6, <2>1, MarkAdds DEF Apply
  <2> QED
    BY <1>6, <2>2 DEF Apply, Step
<1>7. ASSUME NEW t \in Threads, Scan(t) PROVE TypeOK'
  <2>1. HomeOf[t] \in Replicas
    BY DeltaAssumption
  <2> DEFINE ready == {d \in pending[HomeOf[t]] : Satisfied(HomeOf[t], d)}
  <2>2. ready \in SUBSET DeltaIds
    BY <2>1
  <2>3. op' = IF ready = {} THEN [op EXCEPT ![t] = Idle]
              ELSE [op EXCEPT ![t] = [pc |-> "drain", id |-> op[t].id, ready |-> ready]]
    BY <1>7 DEF Scan, Return
  <2> HIDE DEF ready
  <2>4. op[t].id \in DeltaIds
    BY <1>7 DEF Scan
  <2>5. CASE ready = {}
    BY <1>7, <2>3, <2>5 DEF Scan, Idle
  <2>6. CASE ready # {}
    BY <1>7, <2>2, <2>3, <2>4, <2>6 DEF Scan
  <2> QED
    BY <2>5, <2>6
<1>8. ASSUME NEW t \in Threads, NEW d \in DeltaIds, Drain(t, d) PROVE TypeOK'
  <2>1. HomeOf[t] \in Replicas
    BY DeltaAssumption
  <2>2. op' \in [Threads ->
                 [pc : {"idle", "deps", "park", "clock", "apply", "scan", "drain"},
                  id : DeltaIds \cup {None}, ready : SUBSET DeltaIds]]
    BY <1>8 DEF Drain, Drained
  <2>3. \A u \in Threads : op'[u].pc # "idle" => op'[u].id \in DeltaIds
    BY <1>8 DEF Drain, Drained
  <2>4. pending' \in [Replicas -> SUBSET DeltaIds]
    BY <1>8 DEF Drain
  <2>5. CASE d \in pending[HomeOf[t]]
    <3>1. MarkApplied(HomeOf[t], d) /\ Seen(HomeOf[t], d)
      BY <1>8, <2>5 DEF Drain
    <3>2. d \in Created
      BY <2>1, <2>5 DEF QueueInv
    <3>3. /\ delivered' \in [Replicas -> Seq(DeltaIds)]
          /\ applied' \in [Replicas -> SUBSET DeltaIds]
      BY <2>1, <3>1, MarkAdds
    <3>4. clock' \in [Replicas -> Clocks]
      BY <2>1, <3>1, <3>2, SeenRaises
    <3> QED
      BY <1>8, <2>2, <2>3, <2>4, <3>3, <3>4 DEF Drain
  <2>6. CASE d \notin pending[HomeOf[t]]
    BY <1>8, <2>2, <2>3, <2>4, <2>6 DEF Drain
  <2> QED
    BY <2>5, <2>6
<1>9. ASSUME NEW r \in Replicas, ClearHistory(r) PROVE TypeOK'
  BY <1>9 DEF ClearHistory
<1>10. CASE UNCHANGED vars
  BY <1>10 DEF vars
<1> QED
  BY <1>1, <1>2, <1>3, <1>4, <1>5, <1>6, <1>7, <1>8, <1>9, <1>10 DEF Next, Run
\* Steps that append nothing leave what was taken.
LEMMA GotKept == delivered' = delivered => \A r \in Replicas : Got(r)' = Got(r)
  BY DEF Got

\* Steps that create nothing leave what exists.
LEMMA CreatedKept ==
    delta' = delta => Created' = Created /\ \A d : Deps(d)' = Deps(d)
  BY DEF Created, Deps

\* What an action that delivers nothing, creates nothing and moves no clock
\* has to show for the invariant: its queue and the thread it moves.
LEMMA QuietStep ==
    ASSUME IndInv, UNCHANGED <<delta, clock, delivered>>,
           \A r \in Replicas : pending'[r] \subseteq Created,
           \A r \in Replicas : applied'[r] \subseteq Got(r),
           \A t \in Threads :
              \/ op'[t] = op[t]
              \/ /\ op'[t].pc # "apply"
                 /\ op'[t].pc # "idle" => op'[t].id \in Created
                 /\ op'[t].pc = "clock" => Deps(op'[t].id) \subseteq Got(HomeOf[t])
                 /\ \A d \in op'[t].ready :
                      d \in Created /\ Deps(d) \subseteq Got(HomeOf[t])
    PROVE  CarryInv' /\ QueueInv' /\ ClockInv' /\ DependenciesHappenBefore'
<1>1. Created' = Created /\ (\A d : Deps(d)' = Deps(d)) /\ \A r \in Replicas : Got(r)' = Got(r)
  BY GotKept, CreatedKept
<1>2. \A t \in Threads : HomeOf[t] \in Replicas
  BY DeltaAssumption
<1>3. CarryInv'
  <2> SUFFICES ASSUME NEW t \in Threads
               PROVE  /\ op'[t].pc # "idle" => op'[t].id \in Created
                      /\ op'[t].pc \in {"clock", "apply"} =>
                           Deps(op'[t].id) \subseteq Got(HomeOf[t])
                      /\ \A d \in op'[t].ready :
                           d \in Created /\ Deps(d) \subseteq Got(HomeOf[t])
    BY <1>1, <1>2 DEF CarryInv
  <2>1. CASE op'[t] = op[t]
    BY <2>1 DEF IndInv, CarryInv
  <2>2. CASE op'[t] # op[t]
    BY <2>2
  <2> QED
    BY <2>1, <2>2
<1>4. QueueInv'
  BY <1>1 DEF IndInv, QueueInv
<1>5. ClockInv'
  <2>1. \A t \in Threads : op'[t].pc = "apply" =>
          op[t].pc = "apply" /\ op'[t].id = op[t].id
    OBVIOUS
  <2> QED
    BY <1>1, <2>1 DEF IndInv, ClockInv
<1>6. DependenciesHappenBefore'
  BY <1>1 DEF IndInv, DependenciesHappenBefore
<1> QED
  BY <1>3, <1>4, <1>5, <1>6

LEMMA QuietInv ==
    ASSUME IndInv,
           \/ \E t \in Threads : \E d \in DeltaIds : Receive(t, d)
           \/ \E t \in Threads : CheckDependencies(t) \/ Park(t) \/ Scan(t)
           \/ \E r \in Replicas : ClearHistory(r)
    PROVE  CarryInv' /\ QueueInv' /\ ClockInv' /\ DependenciesHappenBefore'
<1> USE DEF IndInv
<1>h. \A t \in Threads : HomeOf[t] \in Replicas
  BY DeltaAssumption
<1>1. ASSUME NEW t \in Threads, NEW d \in DeltaIds, Receive(t, d)
      PROVE  CarryInv' /\ QueueInv' /\ ClockInv' /\ DependenciesHappenBefore'
  <2>1. op' = [op EXCEPT ![t] = [pc |-> "deps", id |-> d, ready |-> {}]] /\ d \in Created
    BY <1>1 DEF Receive
  <2>2. \A u \in Threads : u # t => op'[u] = op[u]
    BY <2>1 DEF TypeOK
  <2>3. op'[t] = [pc |-> "deps", id |-> d, ready |-> {}]
    BY <2>1 DEF TypeOK
  <2> QED
    BY <1>1, <2>1, <2>2, <2>3, QuietStep DEF Receive, QueueInv
<1>2. ASSUME NEW t \in Threads, CheckDependencies(t)
      PROVE  CarryInv' /\ QueueInv' /\ ClockInv' /\ DependenciesHappenBefore'
  <2>1. \A u \in Threads : u # t => op'[u] = op[u]
    BY <1>2 DEF CheckDependencies, Step, TypeOK
  <2>2. /\ op'[t].pc = IF Satisfied(HomeOf[t], op[t].id) THEN "clock" ELSE "park"
        /\ op'[t].id = op[t].id /\ op'[t].ready = op[t].ready
    BY <1>2 DEF CheckDependencies, Step, TypeOK
  <2>3. op[t].id \in Created
        /\ \A d \in op[t].ready : d \in Created /\ Deps(d) \subseteq Got(HomeOf[t])
    BY <1>2 DEF CarryInv, CheckDependencies
  <2>4. op'[t].pc = "clock" => Deps(op[t].id) \subseteq Got(HomeOf[t])
    BY <1>h, <2>2 DEF Satisfied, QueueInv
  <2> QED
    BY <1>2, <2>1, <2>2, <2>3, <2>4, QuietStep DEF CheckDependencies, QueueInv
<1>3. ASSUME NEW t \in Threads, Park(t)
      PROVE  CarryInv' /\ QueueInv' /\ ClockInv' /\ DependenciesHappenBefore'
  <2>1. op[t].id \in Created
    BY <1>3 DEF CarryInv, Park
  <2>2. \A r \in Replicas : pending'[r] \subseteq Created
    BY <1>3, <2>1 DEF Park, QueueInv, TypeOK
  <2>3. \A u \in Threads : u # t => op'[u] = op[u]
    BY <1>3 DEF Park, Return, TypeOK
  <2>4. op'[t] = Idle
    BY <1>3 DEF Park, Return, TypeOK
  <2> QED
    BY <1>3, <2>2, <2>3, <2>4, QuietStep DEF Park, QueueInv, Idle
<1>4. ASSUME NEW t \in Threads, Scan(t)
      PROVE  CarryInv' /\ QueueInv' /\ ClockInv' /\ DependenciesHappenBefore'
  <2> DEFINE ready == {d \in pending[HomeOf[t]] : Satisfied(HomeOf[t], d)}
  <2>1. \A d \in ready : d \in Created /\ Deps(d) \subseteq Got(HomeOf[t])
    BY <1>h DEF QueueInv, Satisfied
  <2>2. op' = IF ready = {} THEN [op EXCEPT ![t] = Idle]
              ELSE [op EXCEPT ![t] = [pc |-> "drain", id |-> op[t].id, ready |-> ready]]
    BY <1>4 DEF Scan, Return
  <2> HIDE DEF ready
  <2>3. \A u \in Threads : u # t => op'[u] = op[u]
    BY <2>2 DEF TypeOK
  <2>4. CASE ready = {}
    <3>1. op'[t] = Idle
      BY <2>2, <2>4 DEF TypeOK
    <3> QED
      BY <1>4, <2>3, <3>1, QuietStep DEF Scan, QueueInv, Idle
  <2>5. CASE ready # {}
    <3>1. op'[t].pc = "drain" /\ op'[t].ready = ready /\ op'[t].id = op[t].id
      BY <2>2, <2>5 DEF TypeOK
    <3>2. op[t].id \in Created
      BY <1>4 DEF CarryInv, Scan
    <3> QED
      BY <1>4, <2>1, <2>3, <3>1, <3>2, QuietStep DEF Scan, QueueInv
  <2> QED
    BY <2>4, <2>5
<1>5. ASSUME NEW r \in Replicas, ClearHistory(r)
      PROVE  CarryInv' /\ QueueInv' /\ ClockInv' /\ DependenciesHappenBefore'
  <2>1. \A q \in Replicas : applied'[q] \subseteq Got(q)
    BY <1>5 DEF ClearHistory, QueueInv, TypeOK
  <2> QED
    BY <1>5, <2>1, QuietStep DEF ClearHistory, QueueInv
<1> QED
  BY <1>1, <1>2, <1>3, <1>4, <1>5
\* A delivery, by a direct call or out of the queue, keeps the invariant.  The
\* clock covers the delta by the end of the step, and what the delta depends on
\* was delivered before.
LEMMA DeliverStep ==
    ASSUME IndInv, TypeOK', NEW r \in Replicas, NEW d \in Created, delta' = delta,
           MarkApplied(r, d), Deps(d) \subseteq Got(r),
           clock' \in [Replicas -> Clocks],
           \A q \in Replicas : Below(clock[q], clock'[q]),
           Below(delta[d].clock, clock'[r]),
           \A q \in Replicas : pending'[q] \subseteq Created,
           \A t \in Threads :
              \/ op'[t] = op[t]
              \/ /\ op'[t].pc \in {"scan", "drain"}
                 /\ op'[t].id = op[t].id /\ op[t].pc # "idle"
                 /\ op'[t].ready \subseteq op[t].ready
    PROVE  CarryInv' /\ QueueInv' /\ ClockInv' /\ DependenciesHappenBefore'
<1> USE DEF IndInv
<1>1. Created' = Created /\ \A e : Deps(e)' = Deps(e)
  BY CreatedKept
<1>2. d \in DeltaIds
  BY DEF Created
<1>3. /\ \A q \in Replicas : Got(q)' = IF q = r THEN Got(q) \cup {d} ELSE Got(q)
      /\ \A q \in Replicas :
           applied'[q] = IF q = r THEN applied[q] \cup {d} ELSE applied[q]
  BY <1>2, MarkAdds
<1>4. \A q \in Replicas : Got(q) \subseteq Got(q)'
  BY <1>3
<1>5. \A t \in Threads : HomeOf[t] \in Replicas
  BY DeltaAssumption
<1>6. CarryInv'
  <2> SUFFICES ASSUME NEW t \in Threads
               PROVE  /\ op'[t].pc # "idle" => op'[t].id \in Created
                      /\ op'[t].pc \in {"clock", "apply"} =>
                           Deps(op'[t].id) \subseteq Got(HomeOf[t])'
                      /\ \A e \in op'[t].ready :
                           e \in Created /\ Deps(e) \subseteq Got(HomeOf[t])'
    BY <1>1, <1>5 DEF CarryInv
  <2>1. Got(HomeOf[t]) \subseteq Got(HomeOf[t])'
    BY <1>4, <1>5
  <2>2. CASE op'[t] = op[t]
    BY <2>1, <2>2 DEF CarryInv
  <2>3. CASE op'[t] # op[t]
    BY <2>1, <2>3 DEF CarryInv
  <2> QED
    BY <2>2, <2>3
<1>7. QueueInv'
  BY <1>1, <1>3 DEF QueueInv
<1>8. ClockInv'
  <2>1. \A q \in Replicas : \A e \in Got(q)' :
          e \in Got(q) \/ (e \in Created /\ Below(delta[e].clock, clock'[q]))
    BY <1>3
  <2>2. \A t \in Threads : op'[t].pc = "apply" =>
          op[t].pc = "apply" /\ op'[t].id = op[t].id
    OBVIOUS
  <2> QED
    BY <2>1, <2>2, ClockInvKept
<1>9. DependenciesHappenBefore'
  BY <1>1 DEF DependenciesHappenBefore
<1> QED
  BY <1>6, <1>7, <1>8, <1>9

LEMMA DeliverInv ==
    ASSUME IndInv, TypeOK',
           \E t \in Threads :
              UpdateClock(t) \/ Apply(t) \/ \E d \in DeltaIds : Drain(t, d)
    PROVE  CarryInv' /\ QueueInv' /\ ClockInv' /\ DependenciesHappenBefore'
<1> USE DEF IndInv
<1>h. \A t \in Threads : HomeOf[t] \in Replicas
  BY DeltaAssumption
<1>b. \A q \in Replicas : Below(clock[q], clock[q])
  BY DEF TypeOK, Below, Clocks
<1>1. ASSUME NEW t \in Threads, UpdateClock(t)
      PROVE  CarryInv' /\ QueueInv' /\ ClockInv' /\ DependenciesHappenBefore'
  <2>1. op[t].id \in Created /\ Deps(op[t].id) \subseteq Got(HomeOf[t])
    BY <1>1 DEF UpdateClock, CarryInv
  <2>2. /\ clock' \in [Replicas -> Clocks]
        /\ \A q \in Replicas : Below(clock[q], clock'[q])
        /\ Below(delta[op[t].id].clock, clock'[HomeOf[t]])
    BY <1>1, <1>h, <2>1, SeenRaises DEF UpdateClock
  <2>3. \A u \in Threads : u # t => op'[u] = op[u]
    BY <1>1 DEF UpdateClock, Step, TypeOK
  <2>4. op'[t].pc = "apply" /\ op'[t].id = op[t].id /\ op'[t].ready = op[t].ready
    BY <1>1 DEF UpdateClock, Step, TypeOK
  <2>5. delta' = delta /\ delivered' = delivered /\ pending' = pending /\ applied' = applied
    BY <1>1 DEF UpdateClock
  <2>6. Created' = Created /\ (\A d : Deps(d)' = Deps(d))
        /\ \A r \in Replicas : Got(r)' = Got(r)
    BY <2>5, GotKept, CreatedKept
  <2>7. CarryInv'
    <3> SUFFICES ASSUME NEW u \in Threads
                 PROVE  /\ op'[u].pc # "idle" => op'[u].id \in Created
                        /\ op'[u].pc \in {"clock", "apply"} =>
                             Deps(op'[u].id) \subseteq Got(HomeOf[u])
                        /\ \A d \in op'[u].ready :
                             d \in Created /\ Deps(d) \subseteq Got(HomeOf[u])
      BY <1>h, <2>6 DEF CarryInv
    <3>1. CASE u = t
      BY <2>1, <2>4, <3>1 DEF CarryInv
    <3>2. CASE u # t
      BY <2>3, <3>2 DEF CarryInv
    <3> QED
      BY <3>1, <3>2
  <2>8. QueueInv'
    BY <2>5, <2>6 DEF QueueInv
  <2>9. ClockInv'
    <3>1. \A u \in Threads : op'[u].pc = "apply" =>
             \/ op[u].pc = "apply" /\ op'[u].id = op[u].id
             \/ Below(delta[op'[u].id].clock, clock'[HomeOf[u]])
      BY <2>2, <2>3, <2>4
    <3> QED
      BY <2>2, <2>5, <2>6, <3>1, ClockInvKept
  <2>10. DependenciesHappenBefore'
    BY <2>5, <2>6 DEF DependenciesHappenBefore
  <2> QED
    BY <2>7, <2>8, <2>9, <2>10
<1>2. ASSUME NEW t \in Threads, Apply(t)
      PROVE  CarryInv' /\ QueueInv' /\ ClockInv' /\ DependenciesHappenBefore'
  <2>1. op[t].id \in Created /\ Deps(op[t].id) \subseteq Got(HomeOf[t])
        /\ Below(delta[op[t].id].clock, clock[HomeOf[t]])
    BY <1>2 DEF Apply, CarryInv, ClockInv
  <2>2. \A u \in Threads : u # t => op'[u] = op[u]
    BY <1>2 DEF Apply, Step, TypeOK
  <2>3. op'[t].pc = "scan" /\ op'[t].id = op[t].id /\ op'[t].ready = op[t].ready
    BY <1>2 DEF Apply, Step, TypeOK
  <2>4. \A u \in Threads :
          \/ op'[u] = op[u]
          \/ /\ op'[u].pc \in {"scan", "drain"}
             /\ op'[u].id = op[u].id /\ op[u].pc # "idle"
             /\ op'[u].ready \subseteq op[u].ready
    BY <1>2, <2>2, <2>3 DEF Apply
  <2>5. delta' = delta /\ clock' = clock /\ pending' = pending
        /\ MarkApplied(HomeOf[t], op[t].id)
    BY <1>2 DEF Apply
  <2>6. clock' \in [Replicas -> Clocks] /\ \A q \in Replicas : pending'[q] \subseteq Created
    BY <2>5 DEF TypeOK, QueueInv
  <2> QED
    BY <1>h, <1>b, <2>1, <2>4, <2>5, <2>6, DeliverStep
<1>3. ASSUME NEW t \in Threads, NEW d \in DeltaIds, Drain(t, d)
      PROVE  CarryInv' /\ QueueInv' /\ ClockInv' /\ DependenciesHappenBefore'
  <2>1. d \in Created /\ Deps(d) \subseteq Got(HomeOf[t]) /\ op[t].pc = "drain"
        /\ op[t].id \in Created
    BY <1>3 DEF Drain, CarryInv
  <2>2. \A u \in Threads : u # t => op'[u] = op[u]
    BY <1>3 DEF Drain, Drained, TypeOK
  <2>3. op'[t].pc \in {"scan", "drain"} /\ op'[t].id = op[t].id
        /\ op'[t].ready = op[t].ready \ {d}
    BY <1>3 DEF Drain, Drained, TypeOK
  <2>4. \A u \in Threads :
          \/ op'[u] = op[u]
          \/ /\ op'[u].pc \in {"scan", "drain"}
             /\ op'[u].id = op[u].id /\ op[u].pc # "idle"
             /\ op'[u].ready \subseteq op[u].ready
    BY <2>1, <2>2, <2>3
  <2>5. delta' = delta /\ \A q \in Replicas : pending'[q] \subseteq Created
    BY <1>3 DEF Drain, TypeOK, QueueInv
  <2>6. CASE d \in pending[HomeOf[t]]
    <3>1. MarkApplied(HomeOf[t], d) /\ Seen(HomeOf[t], d)
      BY <1>3, <2>6 DEF Drain
    <3>2. /\ clock' \in [Replicas -> Clocks]
          /\ \A q \in Replicas : Below(clock[q], clock'[q])
          /\ Below(delta[d].clock, clock'[HomeOf[t]])
      BY <1>h, <2>1, <3>1, SeenRaises
    <3> QED
      BY <1>h, <2>1, <2>4, <2>5, <3>1, <3>2, DeliverStep
  <2>7. CASE d \notin pending[HomeOf[t]]
    <3>1. UNCHANGED <<delta, clock, delivered>> /\ applied' = applied
      BY <1>3, <2>7 DEF Drain
    <3>2. \A u \in Threads :
            \/ op'[u] = op[u]
            \/ /\ op'[u].pc # "apply"
               /\ op'[u].pc # "idle" => op'[u].id \in Created
               /\ op'[u].pc = "clock" => Deps(op'[u].id) \subseteq Got(HomeOf[u])
               /\ \A e \in op'[u].ready :
                    e \in Created /\ Deps(e) \subseteq Got(HomeOf[u])
      BY <2>1, <2>2, <2>3 DEF CarryInv
    <3> QED
      BY <2>5, <3>1, <3>2, QuietStep DEF QueueInv
  <2> QED
    BY <2>6, <2>7
<1> QED
  BY <1>1, <1>2, <1>3
\* A new delta: its clock is one step past everything its replica covers, and
\* nothing that exists refers to it.
LEMMA CreateInv ==
    ASSUME IndInv, TypeOK', NEW r \in Replicas, NEW d \in DeltaIds,
           NEW on \in SUBSET DeltaIds, Create(r, d, on)
    PROVE  CarryInv' /\ QueueInv' /\ ClockInv' /\ DependenciesHappenBefore'
<1> USE DEF IndInv
<1>1. /\ d \notin Created
      /\ on \subseteq Got(r) \cup {e \in Created : delta[e].origin = r}
      /\ clock' = [clock EXCEPT ![r] = Increment(clock[r], r)]
      /\ delta' = [delta EXCEPT ![d] = [origin |-> r, clock |-> clock'[r], deps |-> on]]
      /\ UNCHANGED <<pending, applied, op, delivered>>
  BY DEF Create
<1>2. \A e \in DeltaIds : e # d => delta'[e] = delta[e]
  BY <1>1 DEF TypeOK
<1>3. delta'[d] = [origin |-> r, clock |-> clock'[r], deps |-> on]
  BY <1>1 DEF TypeOK
<1>4. delta'[d] # None
  <2>1. clock' \in [Replicas -> Clocks] /\ delta'[d].deps = on
    BY <1>3 DEF TypeOK
  <2>2. CASE delta'[d] = None
    <3>1. delta' \in [DeltaIds -> [origin : Replicas, clock : Clocks,
                                   deps : SUBSET DeltaIds] \cup {None}]
      BY DEF TypeOK
    <3> QED
      BY <1>3, <2>1, <2>2, DeltaAssumption DEF Clocks
  <2> QED
    BY <2>2
<1>5. Created' = Created \cup {d}
  BY <1>1, <1>2, <1>4 DEF Created
<1>6. \A e \in Created : e # d /\ e \in DeltaIds /\ delta'[e] = delta[e] /\ Deps(e)' = Deps(e)
  BY <1>1, <1>2 DEF Created, Deps
<1>7. Deps(d)' = on
  BY <1>3, <1>4 DEF Deps
<1>8. \A q \in Replicas : Got(q)' = Got(q)
  BY <1>1, GotKept
<1>9. on \subseteq Created
  BY <1>1 DEF QueueInv
<1>10. /\ clock'[r] = Increment(clock[r], r)
       /\ \A q \in Replicas : q # r => clock'[q] = clock[q]
  BY <1>1 DEF TypeOK
<1>11. Below(clock[r], clock'[r]) /\ clock[r][r] < clock'[r][r]
  BY <1>10 DEF TypeOK, Clocks, Increment, Below
<1>12. \A q \in Replicas : Below(clock[q], clock'[q])
  <2>1. ASSUME NEW q \in Replicas PROVE Below(clock[q], clock'[q])
    <3>1. CASE q = r
      BY <3>1, <1>11
    <3>2. CASE q # r
      BY <3>2, <1>10 DEF TypeOK, Clocks, Below
    <3> QED
      BY <3>1, <3>2
  <2> QED
    BY <2>1
<1>13. \A e \in Created : delta[e].clock \in Clocks /\ delta[e].origin \in Replicas
  BY DEF TypeOK, Created
<1>14. \A q \in Replicas : clock[q] \in Clocks /\ clock'[q] \in Clocks
  BY DEF TypeOK
<1>15. \A t \in Threads : HomeOf[t] \in Replicas
  BY DeltaAssumption
<1>16. CarryInv'
  BY <1>1, <1>5, <1>6, <1>8, <1>15 DEF CarryInv
<1>17. QueueInv'
  BY <1>1, <1>5, <1>6, <1>7, <1>8, <1>9 DEF QueueInv
<1>18. ClockInv'
  <2>1. ASSUME NEW q \in Replicas, NEW e \in Got(q)
        PROVE  Below(delta'[e].clock, clock'[q])
    <3>1. e \in Created /\ Below(delta[e].clock, clock[q])
      BY DEF ClockInv, QueueInv
    <3> QED
      BY <3>1, <1>6, <1>12, <1>13, <1>14, BelowTrans
  <2>2. ASSUME NEW e \in Created
        PROVE  Below(delta'[e].clock, clock'[delta'[e].origin])
    <3>1. Below(delta[e].clock, clock[delta[e].origin])
      BY DEF ClockInv
    <3> QED
      BY <3>1, <1>6, <1>12, <1>13, <1>14, BelowTrans
  <2>3. Below(delta'[d].clock, clock'[delta'[d].origin])
    BY <1>3, <1>14 DEF Below, Clocks
  <2>4. ASSUME NEW t \in Threads, op'[t].pc = "apply"
        PROVE  Below(delta'[op'[t].id].clock, clock'[HomeOf[t]])
    <3>1. op[t].pc = "apply" /\ op'[t].id = op[t].id /\ op[t].id \in Created
      BY <1>1, <2>4 DEF CarryInv
    <3>2. Below(delta[op[t].id].clock, clock[HomeOf[t]])
      BY <3>1 DEF ClockInv
    <3> QED
      BY <3>1, <3>2, <1>6, <1>12, <1>13, <1>14, <1>15, BelowTrans
  <2> QED
    BY <1>5, <1>8, <2>1, <2>2, <2>3, <2>4 DEF ClockInv
<1>19. DependenciesHappenBefore'
  <2>1. ASSUME NEW e \in on PROVE HappensBefore(delta'[e].clock, delta'[d].clock)
    <3>1. e \in Created /\ Below(delta[e].clock, clock[r])
      BY <1>1, <1>9 DEF ClockInv
    <3>2. delta'[e].clock = delta[e].clock /\ delta'[d].clock = clock'[r]
      BY <1>3, <1>6, <3>1
    <3>3. Below(delta[e].clock, clock'[r])
      BY <3>1, <1>11, <1>13, <1>14, BelowTrans
    <3>4. delta[e].clock[r] < clock'[r][r]
      BY <3>1, <1>11, <1>13, <1>14 DEF Below, Clocks
    <3> QED
      BY <3>2, <3>3, <3>4 DEF HappensBefore, Below
  <2>2. ASSUME NEW f \in Created, NEW e \in Deps(f)
        PROVE  HappensBefore(delta'[e].clock, delta'[f].clock)
    <3>1. e \in Created /\ HappensBefore(delta[e].clock, delta[f].clock)
      BY DEF QueueInv, DependenciesHappenBefore
    <3> QED
      BY <3>1, <1>6
  <2>3. (\A f \in Created' : \A e \in Deps(f)' :
            HappensBefore(delta'[e].clock, delta'[f].clock))
    BY <1>5, <1>6, <1>7, <2>1, <2>2
  <2> QED
    BY <2>3 DEF DependenciesHappenBefore, HappensBefore
<1> QED
  BY <1>16, <1>17, <1>18, <1>19

LEMMA StepInv == IndInv /\ [Next]_vars => IndInv'
<1> SUFFICES ASSUME IndInv, [Next]_vars PROVE IndInv'
  OBVIOUS
<1>1. TypeOK'
  BY TypeStep DEF IndInv
<1>2. CASE UNCHANGED vars
  <2>1. CarryInv' /\ QueueInv'
    BY <1>2 DEF vars, IndInv, CarryInv, QueueInv, Created, Deps, Got
  <2>2. ClockInv' /\ DependenciesHappenBefore'
    BY <1>2 DEF vars, IndInv, ClockInv, DependenciesHappenBefore, HappensBefore,
                Below, Created, Deps, Got
  <2> QED
    BY <1>1, <2>1, <2>2 DEF IndInv
<1>3. CASE \E r \in Replicas, d \in DeltaIds, on \in SUBSET DeltaIds : Create(r, d, on)
  BY <1>1, <1>3, CreateInv DEF IndInv
<1>4. CASE \/ \E t \in Threads : \E d \in DeltaIds : Receive(t, d)
           \/ \E t \in Threads : CheckDependencies(t) \/ Park(t) \/ Scan(t)
           \/ \E r \in Replicas : ClearHistory(r)
  BY <1>1, <1>4, QuietInv DEF IndInv
<1>5. CASE \E t \in Threads :
              UpdateClock(t) \/ Apply(t) \/ \E d \in DeltaIds : Drain(t, d)
  BY <1>1, <1>5, DeliverInv DEF IndInv
<1> QED
  BY <1>2, <1>3, <1>4, <1>5 DEF Next, Run

\* The inductive invariant holds in every reachable state.
THEOREM IndInvInvariant == Spec => []IndInv
BY InitInv, StepInv, PTL DEF Spec

\* TypeOK is an invariant for any number of replicas, threads and deltas.
THEOREM DeltaTypeOK == Spec => []TypeOK
<1>1. IndInv => TypeOK
  BY DEF IndInv
<1> QED
  BY <1>1, IndInvInvariant, PTL

\* A delta's clock is after the clocks of all it depends on, for any replicas.
THEOREM ClocksFollowDependencies == Spec => []DependenciesHappenBefore
<1>1. IndInv => DependenciesHappenBefore
  BY DEF IndInv
<1> QED
  BY <1>1, IndInvInvariant, PTL
-----------------------------------------------------------------------------
(* The refinement.  Creating a delta publishes it, marking one as applied  *)
(* takes it, and every other step stutters.                                *)

LEMMA AbstractStutters ==
    ASSUME delta' = delta, delivered' = delivered
    PROVE  UNCHANGED Abstract!vars
  BY DEF Abstract!vars, Deps, Created, Got

LEMMA AbstractPublishes ==
    ASSUME IndInv, TypeOK', NEW r \in Replicas, NEW d \in DeltaIds,
           NEW on \in SUBSET DeltaIds, Create(r, d, on)
    PROVE  Abstract!Publish(d, on)
<1>1. /\ d \notin Created
      /\ on \subseteq Got(r) \cup {e \in Created : delta[e].origin = r}
      /\ delta' = [delta EXCEPT ![d] = [origin |-> r, clock |-> clock'[r], deps |-> on]]
      /\ delivered' = delivered
  BY DEF Create
<1>2. on \subseteq Created
  BY <1>1 DEF IndInv, QueueInv
<1>3. [origin |-> r, clock |-> clock'[r], deps |-> on] # None
  <2>1. clock'[r] \in [Replicas -> Nat]
    BY DEF TypeOK, Clocks
  <2> QED
    BY <2>1, DeltaAssumption
<1>4. delta'[d] = [origin |-> r, clock |-> clock'[r], deps |-> on]
      /\ \A e \in DeltaIds : e # d => delta'[e] = delta[e]
  BY <1>1 DEF IndInv, TypeOK
<1>5. Created' = Created \cup {d}
  BY <1>3, <1>4 DEF Created
<1>6. \A e \in DeltaIds : Deps(e)' = IF e = d THEN on ELSE Deps(e)
  BY <1>3, <1>4 DEF Deps
<1>7. [e \in DeltaIds |-> Deps(e)]' = [[e \in DeltaIds |-> Deps(e)] EXCEPT ![d] = on]
  BY <1>6
<1>8. [q \in Replicas |-> Got(q)]' = [q \in Replicas |-> Got(q)]
  BY <1>1, GotKept
<1> QED
  BY <1>1, <1>2, <1>5, <1>7, <1>8 DEF Abstract!Publish

LEMMA AbstractTakes ==
    ASSUME IndInv, NEW r \in Replicas, NEW d \in Created, delta' = delta,
           MarkApplied(r, d), Deps(d) \subseteq Got(r)
    PROVE  Abstract!Take(r, d)
<1>1. d \in DeltaIds
  BY DEF Created
<1>2. \A q \in Replicas : Got(q)' = IF q = r THEN Got(q) \cup {d} ELSE Got(q)
  BY <1>1, MarkAdds DEF IndInv
<1>3. [q \in Replicas |-> Got(q)]'
        = [[q \in Replicas |-> Got(q)] EXCEPT ![r] = Got(r) \cup {d}]
  BY <1>2
<1>4. Created' = Created /\ [e \in DeltaIds |-> Deps(e)]' = [e \in DeltaIds |-> Deps(e)]
  BY CreatedKept
<1> QED
  BY <1>1, <1>3, <1>4 DEF Abstract!Take

LEMMA AbstractStep ==
    ASSUME IndInv, TypeOK', [Next]_vars
    PROVE  [Abstract!Next]_(Abstract!vars)
<1>1. \A t \in Threads : HomeOf[t] \in Replicas
  BY DeltaAssumption
<1>2. CASE UNCHANGED vars
  BY <1>2, AbstractStutters DEF vars
<1>3. ASSUME NEW r \in Replicas, NEW d \in DeltaIds, NEW on \in SUBSET DeltaIds,
             Create(r, d, on)
      PROVE  Abstract!Next
  BY <1>3, AbstractPublishes DEF Abstract!Next
<1>4. ASSUME NEW t \in Threads,
             \/ \E d \in DeltaIds : Receive(t, d)
             \/ CheckDependencies(t)
             \/ Park(t)
             \/ UpdateClock(t)
             \/ Scan(t)
      PROVE  UNCHANGED Abstract!vars
  <2>1. delta' = delta /\ delivered' = delivered
    BY <1>4 DEF Receive, CheckDependencies, Park, UpdateClock, Scan
  <2> QED
    BY <2>1, AbstractStutters
<1>5. ASSUME NEW t \in Threads, Apply(t) PROVE Abstract!Next
  <2>1. op[t].id \in Created /\ Deps(op[t].id) \subseteq Got(HomeOf[t])
        /\ op[t].id \in DeltaIds
    BY <1>5 DEF Apply, IndInv, CarryInv, Created
  <2>2. Abstract!Take(HomeOf[t], op[t].id)
    BY <1>1, <1>5, <2>1, AbstractTakes DEF Apply
  <2> QED
    BY <1>1, <2>1, <2>2 DEF Abstract!Next
<1>6. ASSUME NEW t \in Threads, NEW d \in DeltaIds, Drain(t, d)
      PROVE  Abstract!Next \/ UNCHANGED Abstract!vars
  <2>1. d \in Created /\ Deps(d) \subseteq Got(HomeOf[t]) /\ delta' = delta
    BY <1>6 DEF Drain, IndInv, CarryInv
  <2>2. CASE d \in pending[HomeOf[t]]
    <3>1. MarkApplied(HomeOf[t], d)
      BY <1>6, <2>2 DEF Drain
    <3>2. Abstract!Take(HomeOf[t], d)
      BY <1>1, <2>1, <3>1, AbstractTakes
    <3> QED
      BY <1>1, <3>2 DEF Abstract!Next
  <2>3. CASE d \notin pending[HomeOf[t]]
    <3>1. delivered' = delivered
      BY <1>6, <2>3 DEF Drain
    <3> QED
      BY <2>1, <3>1, AbstractStutters
  <2> QED
    BY <2>2, <2>3
<1>7. ASSUME NEW r \in Replicas, ClearHistory(r) PROVE UNCHANGED Abstract!vars
  BY <1>7, AbstractStutters DEF ClearHistory
<1> QED
  BY <1>2, <1>3, <1>4, <1>5, <1>6, <1>7 DEF Next, Run

\* DeltaConsensus implements CausalBroadcast: replicas deliver in an order that
\* respects the dependencies, for any number of replicas, threads and deltas,
\* overlapping calls and cleared histories included.
THEOREM DeltaImplementsCausalBroadcast == Spec => ImplementsCausalBroadcast
<1>1. Init => Abstract!Init
  <2> SUFFICES ASSUME Init PROVE Abstract!Init
    OBVIOUS
  <2>1. Created = {} /\ (\A d \in DeltaIds : Deps(d) = {})
        /\ \A r \in Replicas : Got(r) = {}
    BY DEF Init, Created, Deps, Got
  <2> QED
    BY <2>1 DEF Abstract!Init
<1>2. IndInv /\ IndInv' /\ [Next]_vars => [Abstract!Next]_(Abstract!vars)
  BY AbstractStep DEF IndInv
<1> QED
  BY <1>1, <1>2, IndInvInvariant, PTL DEF Spec, Abstract!Spec, ImplementsCausalBroadcast

-----------------------------------------------------------------------------
(* Callers that share a lock                                               *)

Undelivered == {"deps", "park", "clock", "apply"}

\* A replica has one call at a time; what the call has found of its delta and
\* of the queue still holds, and unless the call is draining, nothing in the
\* queue is ready.
OneCall(r) ==
    /\ \A t, u \in Threads :
         HomeOf[t] = r /\ HomeOf[u] = r /\ op[t].pc # "idle" /\ op[u].pc # "idle" => t = u
    /\ \A t \in Threads : HomeOf[t] = r =>
         /\ op[t].pc = "park" => ~Satisfied(r, op[t].id)
         /\ op[t].pc \in {"clock", "apply"} => Satisfied(r, op[t].id)
         /\ op[t].ready \subseteq pending[r]
         /\ op[t].pc # "drain" => op[t].ready = {}
    /\ (\A t \in Threads : HomeOf[t] = r => op[t].pc \in Undelivered \cup {"idle"}) =>
         \A d \in pending[r] : ~Satisfied(r, d)

\* Until its history is cleared, a replica remembers all it delivered, and
\* neither the queue nor a call on its way to deliver has any of it.
Remembered(r) ==
    clears[r] = 0 =>
        /\ IsInjective(delivered[r])
        /\ Got(r) \subseteq applied[r]
        /\ pending[r] \cap applied[r] = {}
        /\ \A t \in Threads :
             HomeOf[t] = r /\ op[t].pc \in Undelivered => op[t].id \notin applied[r]

ExclusiveInv == exclusive => \A r \in Replicas : OneCall(r) /\ Remembered(r)

\* Appending what is not there yet keeps a sequence without repetition.
LEMMA AppendsNew ==
    ASSUME NEW S, NEW s \in Seq(S), NEW d \in S, IsInjective(s),
           d \notin {s[k] : k \in 1..Len(s)}
    PROVE  IsInjective(Append(s, d))
<1>0. PICK n : n = Append(s, d)
  OBVIOUS
<1>1. /\ Len(s) \in Nat /\ DOMAIN s = 1..Len(s) /\ DOMAIN n = 1..(Len(s) + 1)
      /\ n[Len(s) + 1] = d
      /\ \A k \in 1..Len(s) : n[k] = s[k]
  BY <1>0
<1>2. ASSUME NEW x \in DOMAIN n, NEW y \in DOMAIN n, n[x] = n[y] PROVE x = y
  <2>1. CASE x \in 1..Len(s) /\ y \in 1..Len(s)
    BY <1>1, <1>2, <2>1 DEF IsInjective
  <2>2. CASE x = Len(s) + 1 /\ y \in 1..Len(s)
    BY <1>1, <1>2, <2>2
  <2>3. CASE y = Len(s) + 1 /\ x \in 1..Len(s)
    BY <1>1, <1>2, <2>3
  <2>4. CASE x = Len(s) + 1 /\ y = Len(s) + 1
    BY <2>4
  <2> QED
    BY <1>1, <2>1, <2>2, <2>3, <2>4
<1>3. IsInjective(n)
  BY <1>2 DEF IsInjective
<1> QED
  BY <1>0, <1>3, Zenon

\* A replica that a step leaves alone.
LEMMA ReplicaKept ==
    ASSUME QueueInv, CarryInv, NEW r \in Replicas, OneCall(r), Remembered(r),
           \A d \in Created : Deps(d)' = Deps(d),
           pending'[r] = pending[r], applied'[r] = applied[r],
           delivered'[r] = delivered[r], clears'[r] = clears[r],
           \A t \in Threads : HomeOf[t] = r => op'[t] = op[t]
    PROVE  OneCall(r)' /\ Remembered(r)'
<1>1. \A d \in Created : Satisfied(r, d)' <=> Satisfied(r, d)
  BY DEF Satisfied
<1>2. \A d \in pending[r] : Satisfied(r, d)' <=> Satisfied(r, d)
  BY <1>1 DEF QueueInv
<1>4. OneCall(r)'
  <2>1. \A t, u \in Threads :
          HomeOf[t] = r /\ HomeOf[u] = r /\ op'[t].pc # "idle" /\ op'[u].pc # "idle" => t = u
    BY DEF OneCall
  <2>2. ASSUME NEW t \in Threads, HomeOf[t] = r, NEW d, d = op[t].id
        PROVE  /\ op[t].pc = "park" => ~Satisfied(r, d)'
               /\ op[t].pc \in {"clock", "apply"} => Satisfied(r, d)'
               /\ op[t].ready \subseteq pending'[r]
               /\ op[t].pc # "drain" => op[t].ready = {}
    <3>1. op[t].pc # "idle" => (Satisfied(r, d)' <=> Satisfied(r, d))
      BY <1>1, <2>2 DEF CarryInv
    <3> QED
      BY <2>2, <3>1 DEF OneCall
  <2>3. (\A t \in Threads : HomeOf[t] = r => op'[t].pc \in Undelivered \cup {"idle"}) =>
          \A d \in pending'[r] : ~Satisfied(r, d)'
    BY <1>2 DEF OneCall
  <2> QED
    BY <2>1, <2>2, <2>3 DEF OneCall, Satisfied, Deps
<1>5. Remembered(r)'
  BY DEF Remembered, Got
<1> QED
  BY <1>4, <1>5

\* One thread moves while its replica has no other call.
LEMMA CallMoves ==
    ASSUME NEW t \in Threads, NEW r, r = HomeOf[t],
           \A u \in Threads \ {t} : HomeOf[u] = r => op[u].pc = "idle" /\ op[u].ready = {},
           \A u \in Threads \ {t} : op'[u] = op[u],
           delta' = delta,
           op'[t].pc = "park" => ~(Deps(op'[t].id) \subseteq applied'[r]),
           op'[t].pc \in {"clock", "apply"} => Deps(op'[t].id) \subseteq applied'[r],
           op'[t].ready \subseteq pending'[r],
           op'[t].pc # "drain" => op'[t].ready = {},
           op'[t].pc \in Undelivered \cup {"idle"} =>
             \A d \in pending'[r] : ~(Deps(d) \subseteq applied'[r])
    PROVE  OneCall(r)'
<1>1. \A u, v \in Threads :
        HomeOf[u] = r /\ HomeOf[v] = r /\ op'[u].pc # "idle" /\ op'[v].pc # "idle" => u = v
  OBVIOUS
<1>2. \A d : Deps(d)' = Deps(d)
  BY DEF Deps
<1>3. ASSUME NEW u \in Threads, HomeOf[u] = r
      PROVE  /\ op'[u].pc = "park" => ~(Deps(op'[u].id) \subseteq applied'[r])
             /\ op'[u].pc \in {"clock", "apply"} => Deps(op'[u].id) \subseteq applied'[r]
             /\ op'[u].ready \subseteq pending'[r]
             /\ op'[u].pc # "drain" => op'[u].ready = {}
  <2>1. CASE u = t
    BY <2>1
  <2>2. CASE u # t
    BY <1>3, <2>2
  <2> QED
    BY <2>1, <2>2
<1>4. (\A u \in Threads : HomeOf[u] = r => op'[u].pc \in Undelivered \cup {"idle"}) =>
        \A d \in pending'[r] : ~(Deps(d) \subseteq applied'[r])
  OBVIOUS
<1> QED
  BY <1>1, <1>2, <1>3, <1>4 DEF OneCall, Satisfied, Deps

\* All but the replica of the thread that runs.
LEMMA OthersKept ==
    ASSUME IndInv, NEW t \in Threads, NEW r \in Replicas, r = HomeOf[t],
           NEW q \in Replicas, q # r, OneCall(q), Remembered(q),
           delta' = delta, clears' = clears,
           \A u \in Threads \ {t} : op'[u] = op[u],
           pending'[q] = pending[q], applied'[q] = applied[q], delivered'[q] = delivered[q]
    PROVE  OneCall(q)' /\ Remembered(q)'
<1>1. \A d \in Created : Deps(d)' = Deps(d)
  BY DEF Deps
<1>2. \A u \in Threads : HomeOf[u] = q => op'[u] = op[u]
  OBVIOUS
<1> QED
  BY <1>1, <1>2, ReplicaKept DEF IndInv

LEMMA ReceiveOnce ==
    ASSUME IndInv, ExclusiveInv, exclusive, NEW t \in Threads, NEW d \in DeltaIds, Receive(t, d)
    PROVE  \A r \in Replicas : OneCall(r)' /\ Remembered(r)'
<1> DEFINE r == HomeOf[t]
<1>1. /\ \A u \in Threads : HomeOf[u] = r => op[u].pc = "idle"
      /\ op' = [op EXCEPT ![t] = [pc |-> "deps", id |-> d, ready |-> {}]]
      /\ d \notin applied[r]
      /\ UNCHANGED <<delta, clock, pending, applied, clears, delivered, exclusive>>
  BY DEF Receive, Admits
<1>2. op \in [Threads -> [pc : {"idle", "deps", "park", "clock", "apply", "scan", "drain"},
                          id : DeltaIds \cup {None}, ready : SUBSET DeltaIds]]
  BY DEF IndInv, TypeOK
<1>3. /\ op'[t].pc = "deps" /\ op'[t].id = d /\ op'[t].ready = {}
      /\ \A u \in Threads \ {t} : op'[u] = op[u]
  BY <1>1, <1>2
<1>4. r \in Replicas
  BY DeltaAssumption
<1>5. OneCall(r) /\ Remembered(r)
  BY <1>4 DEF ExclusiveInv
<1>6. ASSUME NEW q \in Replicas, q # r PROVE OneCall(q)' /\ Remembered(q)'
  BY <1>1, <1>3, <1>4, <1>6, OthersKept DEF ExclusiveInv
<1>7. \A u \in Threads \ {t} : HomeOf[u] = r => op[u].pc = "idle" /\ op[u].ready = {}
  BY <1>1, <1>5 DEF OneCall
<1>8. \A e \in pending[r] : ~Satisfied(r, e)
  BY <1>1, <1>5 DEF OneCall
<1> HIDE DEF r
<1>9. OneCall(r)'
  <2>1. \A e \in pending'[r] : ~(Deps(e) \subseteq applied'[r])
    BY <1>1, <1>8 DEF Satisfied
  <2> QED
    BY <1>1, <1>3, <1>7, <2>1, CallMoves DEF r
<1>10. Remembered(r)'
  <2> SUFFICES ASSUME clears[r] = 0
               PROVE  /\ IsInjective(delivered[r])
                      /\ Got(r)' \subseteq applied[r]
                      /\ pending[r] \cap applied[r] = {}
                      /\ \A u \in Threads :
                           HomeOf[u] = r /\ op'[u].pc \in Undelivered => op'[u].id \notin applied[r]
    BY <1>1 DEF Remembered
  <2>1. Got(r)' = Got(r)
    BY <1>1 DEF Got
  <2>2. ASSUME NEW u \in Threads, HomeOf[u] = r, op'[u].pc \in Undelivered
        PROVE  op'[u].id \notin applied[r]
    BY <1>1, <1>3, <1>7, <2>2 DEF Undelivered
  <2> QED
    BY <1>5, <2>1, <2>2 DEF Remembered
<1> QED
  BY <1>6, <1>9, <1>10

LEMMA ClearOnce ==
    ASSUME IndInv, ExclusiveInv, exclusive, NEW r \in Replicas, ClearHistory(r)
    PROVE  \A q \in Replicas : OneCall(q)' /\ Remembered(q)'
<1>1. /\ \A u \in Threads : HomeOf[u] = r => op[u].pc = "idle"
      /\ clears' = [clears EXCEPT ![r] = @ + 1]
      /\ applied' = [applied EXCEPT ![r] = {}]
      /\ UNCHANGED <<delta, pending, op, delivered>>
  BY DEF ClearHistory, Admits
<1>2. clears \in [Replicas -> Nat] /\ applied \in [Replicas -> SUBSET DeltaIds]
  BY DEF IndInv, TypeOK
<1>3. \A d : Deps(d)' = Deps(d)
  BY <1>1, CreatedKept
<1>4. ASSUME NEW q \in Replicas, q # r PROVE OneCall(q)' /\ Remembered(q)'
  <2>1. applied'[q] = applied[q] /\ clears'[q] = clears[q]
    BY <1>1, <1>2, <1>4
  <2> QED
    BY <1>1, <1>3, <2>1, ReplicaKept DEF ExclusiveInv, IndInv
<1>5. applied'[r] = {} /\ clears'[r] # 0
  BY <1>1, <1>2
<1>6. OneCall(r)
  BY DEF ExclusiveInv
<1>7. \A d \in pending[r] : ~(Deps(d) \subseteq applied[r])
  BY <1>1, <1>6 DEF OneCall, Satisfied
<1>8. OneCall(r)'
  <2>1. \A d \in pending'[r] : ~(Deps(d)' \subseteq applied'[r])
    BY <1>1, <1>3, <1>5, <1>7
  <2> QED
    BY <1>1, <1>6, <2>1 DEF OneCall, Satisfied
<1>9. Remembered(r)'
  BY <1>5 DEF Remembered
<1> QED
  BY <1>4, <1>8, <1>9

LEMMA CreateOnce ==
    ASSUME IndInv, ExclusiveInv, exclusive, NEW r \in Replicas, NEW d \in DeltaIds,
           NEW on \in SUBSET DeltaIds, Create(r, d, on)
    PROVE  \A q \in Replicas : OneCall(q)' /\ Remembered(q)'
<1>1. /\ d \notin Created
      /\ delta' = [delta EXCEPT ![d] = [origin |-> r, clock |-> clock'[r], deps |-> on]]
      /\ UNCHANGED <<pending, applied, op, clears, delivered>>
  BY DEF Create
<1>2. \A e \in Created : Deps(e)' = Deps(e)
  BY <1>1 DEF IndInv, TypeOK, Created, Deps
<1> QED
  BY <1>1, <1>2, ReplicaKept DEF ExclusiveInv, IndInv

\* A thread inside receive is the only one of its replica, and moves alone.
LEMMA OnlyCall ==
    ASSUME NEW t \in Threads, OneCall(HomeOf[t]), op[t].pc # "idle"
    PROVE  \A u \in Threads \ {t} :
             HomeOf[u] = HomeOf[t] => op[u].pc = "idle" /\ op[u].ready = {}
<1>1. \A u \in Threads \ {t} : HomeOf[u] = HomeOf[t] => op[u].pc = "idle"
  BY DEF OneCall
<1>2. \A u \in Threads \ {t} : HomeOf[u] = HomeOf[t] /\ op[u].pc # "drain" => op[u].ready = {}
  BY DEF OneCall
<1> QED
  BY <1>1, <1>2

\* A step that delivers nothing.
LEMMA StillRemembered ==
    ASSUME NEW t \in Threads, Remembered(HomeOf[t]),
           \A u \in Threads \ {t} : op'[u] = op[u],
           op'[t].pc \in Undelivered => op[t].pc \in Undelivered /\ op'[t].id = op[t].id,
           clears' = clears, applied' = applied, delivered' = delivered,
           clears[HomeOf[t]] = 0 => pending'[HomeOf[t]] \cap applied[HomeOf[t]] = {}
    PROVE  Remembered(HomeOf[t])'
<1> DEFINE r == HomeOf[t]
<1> SUFFICES ASSUME clears[r] = 0
             PROVE  /\ IsInjective(delivered[r])
                    /\ Got(r)' \subseteq applied[r]
                    /\ pending'[r] \cap applied[r] = {}
                    /\ \A u \in Threads :
                         HomeOf[u] = r /\ op'[u].pc \in Undelivered => op'[u].id \notin applied[r]
  BY DEF Remembered
<1>1. Got(r)' = Got(r)
  BY DEF Got
<1>2. ASSUME NEW u \in Threads, HomeOf[u] = r, op'[u].pc \in Undelivered
      PROVE  op'[u].id \notin applied[r]
  <2>1. op[u].pc \in Undelivered /\ op'[u].id = op[u].id
    BY <1>2
  <2> QED
    BY <1>2, <2>1 DEF Remembered
<1> QED
  BY <1>1, <1>2 DEF Remembered

\* A step that delivers d, which the replica did not have.
LEMMA RememberedToo ==
    ASSUME TypeOK, NEW t \in Threads, Remembered(HomeOf[t]), NEW d \in DeltaIds,
           MarkApplied(HomeOf[t], d),
           \A u \in Threads \ {t} : op'[u] = op[u] /\ (HomeOf[u] = HomeOf[t] => op[u].pc = "idle"),
           op'[t].pc \notin Undelivered,
           clears' = clears,
           clears[HomeOf[t]] = 0 =>
             /\ d \notin applied[HomeOf[t]]
             /\ pending'[HomeOf[t]] \subseteq pending[HomeOf[t]] \ {d}
    PROVE  Remembered(HomeOf[t])'
<1> DEFINE r == HomeOf[t]
<1>1. r \in Replicas
  BY DeltaAssumption
<1>2. Got(r)' = Got(r) \cup {d} /\ applied'[r] = applied[r] \cup {d}
  BY <1>1, MarkAdds
<1>3. delivered[r] \in Seq(DeltaIds) /\ delivered'[r] = Append(delivered[r], d)
  BY <1>1 DEF TypeOK, MarkApplied
<1> SUFFICES ASSUME clears[r] = 0
             PROVE  /\ IsInjective(delivered'[r])
                    /\ Got(r)' \subseteq applied'[r]
                    /\ pending'[r] \cap applied'[r] = {}
                    /\ \A u \in Threads :
                         HomeOf[u] = r /\ op'[u].pc \in Undelivered => op'[u].id \notin applied'[r]
  BY DEF Remembered
<1>4. IsInjective(delivered[r]) /\ Got(r) \subseteq applied[r] /\ pending[r] \cap applied[r] = {}
  BY DEF Remembered
<1>5. IsInjective(delivered'[r])
  <2>1. d \notin {delivered[r][k] : k \in 1..Len(delivered[r])}
    BY <1>4 DEF Got
  <2>2. IsInjective(Append(delivered[r], d))
    BY <1>3, <1>4, <2>1, AppendsNew
  <2> QED
    BY <1>3, <2>2, Zenon
<1>6. Got(r)' \subseteq applied'[r] /\ pending'[r] \cap applied'[r] = {}
  BY <1>2, <1>4
<1>7. ASSUME NEW u \in Threads, HomeOf[u] = r, op'[u].pc \in Undelivered PROVE FALSE
  BY <1>7 DEF Undelivered
<1> QED
  BY <1>5, <1>6, <1>7

LEMMA RunOnce ==
    ASSUME IndInv, ExclusiveInv, exclusive, NEW t \in Threads, Run(t)
    PROVE  \A q \in Replicas : OneCall(q)' /\ Remembered(q)'
<1> DEFINE r == HomeOf[t]
<1>1. r \in Replicas
  BY DeltaAssumption
<1>2. OneCall(r) /\ Remembered(r)
  BY <1>1 DEF ExclusiveInv
<1>3. op \in [Threads -> [pc : {"idle", "deps", "park", "clock", "apply", "scan", "drain"},
                          id : DeltaIds \cup {None}, ready : SUBSET DeltaIds]]
  BY DEF IndInv, TypeOK
<1>4. op[t].pc # "idle" /\ delta' = delta /\ clears' = clears
  BY DEF Run, CheckDependencies, Park, UpdateClock, Apply, Scan, Drain
<1>5. \A u \in Threads \ {t} : HomeOf[u] = r => op[u].pc = "idle" /\ op[u].ready = {}
  BY <1>2, <1>4, OnlyCall
<1>6. \A u \in Threads \ {t} : op'[u] = op[u]
  BY <1>3 DEF Run, CheckDependencies, Park, UpdateClock, Apply, Scan, Drain, Step, Return, Drained
<1>7. ASSUME NEW q \in Replicas, q # r PROVE OneCall(q)' /\ Remembered(q)'
  <2>1. pending'[q] = pending[q] /\ applied'[q] = applied[q] /\ delivered'[q] = delivered[q]
    BY <1>1, <1>7 DEF Run, CheckDependencies, Park, UpdateClock, Apply, Scan, Drain, MarkApplied,
                      IndInv, TypeOK
  <2> QED
    BY <1>1, <1>4, <1>6, <1>7, <2>1, OthersKept DEF ExclusiveInv
<1>8. /\ op[t].pc = "park" => ~Satisfied(r, op[t].id)
      /\ op[t].pc \in {"clock", "apply"} => Satisfied(r, op[t].id)
      /\ op[t].ready \subseteq pending[r]
      /\ op[t].pc # "drain" => op[t].ready = {}
  BY <1>2 DEF OneCall
<1>9. op[t].pc \in Undelivered => \A d \in pending[r] : ~(Deps(d) \subseteq applied[r])
  <2>1. op[t].pc \in Undelivered =>
          \A u \in Threads : HomeOf[u] = r => op[u].pc \in Undelivered \cup {"idle"}
    BY <1>5
  <2> QED
    BY <1>2, <2>1 DEF OneCall, Satisfied
<1>10. clears[r] = 0 =>
         /\ pending[r] \cap applied[r] = {}
         /\ op[t].pc \in Undelivered => op[t].id \notin applied[r]
  BY <1>2 DEF Remembered
<1> HIDE DEF r
<1>11. CASE CheckDependencies(t)
  <2>1. /\ op[t].pc = "deps" /\ UNCHANGED <<pending, applied, delivered>>
        /\ op'[t].pc = IF Satisfied(r, op[t].id) THEN "clock" ELSE "park"
        /\ op'[t].id = op[t].id /\ op'[t].ready = op[t].ready
    BY <1>3, <1>11 DEF CheckDependencies, Step, r
  <2>2. OneCall(r)'
    BY <1>4, <1>5, <1>6, <1>8, <1>9, <2>1, CallMoves DEF Satisfied, Undelivered, r
  <2>3. Remembered(r)'
    BY <1>2, <1>4, <1>6, <1>10, <2>1, StillRemembered DEF Undelivered, r
  <2> QED
    BY <1>7, <2>2, <2>3
<1>12. CASE Park(t)
  <2>1. /\ op[t].pc = "park" /\ UNCHANGED <<applied, delivered>>
        /\ pending'[r] = pending[r] \cup {op[t].id}
        /\ op'[t].pc = "idle" /\ op'[t].ready = {}
    BY <1>1, <1>3, <1>12 DEF Park, Return, Idle, IndInv, TypeOK, r
  <2>2. \A d \in pending'[r] : ~(Deps(d) \subseteq applied'[r])
    BY <1>8, <1>9, <2>1 DEF Satisfied, Undelivered
  <2>3. OneCall(r)'
    BY <1>4, <1>5, <1>6, <2>1, <2>2, CallMoves DEF Undelivered, r
  <2>4. Remembered(r)'
    BY <1>2, <1>4, <1>6, <1>10, <2>1, StillRemembered DEF Undelivered, r
  <2> QED
    BY <1>7, <2>3, <2>4
<1>13. CASE UpdateClock(t)
  <2>1. /\ op[t].pc = "clock" /\ UNCHANGED <<pending, applied, delivered>>
        /\ op'[t].pc = "apply" /\ op'[t].id = op[t].id /\ op'[t].ready = op[t].ready
    BY <1>3, <1>13 DEF UpdateClock, Step
  <2>2. OneCall(r)'
    BY <1>4, <1>5, <1>6, <1>8, <1>9, <2>1, CallMoves DEF Satisfied, Undelivered, r
  <2>3. Remembered(r)'
    BY <1>2, <1>4, <1>6, <1>10, <2>1, StillRemembered DEF Undelivered, r
  <2> QED
    BY <1>7, <2>2, <2>3
\* The delta is satisfied, so it is not in the queue.
<1>14. CASE Apply(t)
  <2>1. /\ op[t].pc = "apply" /\ pending' = pending /\ MarkApplied(r, op[t].id)
        /\ op'[t].pc = "scan" /\ op'[t].ready = op[t].ready /\ op[t].id \in DeltaIds
    BY <1>3, <1>14 DEF Apply, Step, r, IndInv, TypeOK
  <2>2. OneCall(r)'
    BY <1>4, <1>5, <1>6, <1>8, <2>1, CallMoves DEF Undelivered, r
  <2>3. op[t].id \notin pending[r]
    BY <1>8, <1>9, <2>1 DEF Satisfied, Undelivered
  <2>4. clears[r] = 0 => op[t].id \notin applied[r] /\ pending'[r] \subseteq pending[r] \ {op[t].id}
    BY <1>10, <2>1, <2>3 DEF Undelivered
  <2>5. Remembered(r)'
    BY <1>2, <1>4, <1>5, <1>6, <2>1, <2>4, RememberedToo DEF Undelivered, r, IndInv
  <2> QED
    BY <1>7, <2>2, <2>5
<1>15. CASE Scan(t)
  <2> DEFINE ready == {d \in pending[r] : Satisfied(r, d)}
  <2>1. op[t].pc = "scan" /\ UNCHANGED <<pending, applied, delivered>>
    BY <1>15 DEF Scan
  <2>2. op' = IF ready = {} THEN [op EXCEPT ![t] = Idle]
              ELSE [op EXCEPT ![t] = [pc |-> "drain", id |-> op[t].id, ready |-> ready]]
    BY <1>15 DEF Scan, Return, r
  <2>3. \/ /\ op'[t].pc = "idle" /\ op'[t].ready = {}
           /\ \A d \in pending[r] : ~(Deps(d) \subseteq applied[r])
        \/ op'[t].pc = "drain" /\ op'[t].ready = ready
    <3>1. CASE ready = {}
      BY <1>3, <2>2, <3>1 DEF Idle, Satisfied
    <3>2. CASE ready # {}
      <4> HIDE DEF ready
      <4> QED
        BY <1>3, <2>2, <3>2
    <3> QED
      BY <3>1, <3>2
  <2>4. OneCall(r)'
    BY <1>4, <1>5, <1>6, <2>1, <2>3, CallMoves DEF Undelivered, r
  <2>5. Remembered(r)'
    BY <1>2, <1>4, <1>6, <1>10, <2>1, <2>3, StillRemembered DEF Undelivered, r
  <2> QED
    BY <1>7, <2>4, <2>5
\* What is listed is still in the queue: nobody else takes from it.
<1>16. ASSUME NEW d \in DeltaIds, Drain(t, d) PROVE OneCall(r)' /\ Remembered(r)'
  <2>1. /\ op[t].pc = "drain" /\ d \in op[t].ready
        /\ pending' = [pending EXCEPT ![r] = @ \ {d}]
        /\ d \in pending[r] => MarkApplied(r, d)
    BY <1>16 DEF Drain, r
  <2>2. d \in pending[r] /\ MarkApplied(r, d) /\ pending'[r] = pending[r] \ {d}
    BY <1>1, <1>8, <2>1 DEF IndInv, TypeOK
  <2>3. /\ op'[t].ready = op[t].ready \ {d} /\ op'[t].pc \in {"scan", "drain"}
        /\ op'[t].pc # "drain" => op'[t].ready = {}
    BY <1>3, <1>16, <2>1 DEF Drain, Drained
  <2>4. OneCall(r)'
    BY <1>4, <1>5, <1>6, <1>8, <2>2, <2>3, CallMoves DEF Undelivered, r
  <2>5. Remembered(r)'
    BY <1>2, <1>4, <1>5, <1>6, <1>10, <2>2, <2>3, RememberedToo DEF Undelivered, r, IndInv
  <2> QED
    BY <2>4, <2>5
<1> QED
  BY <1>7, <1>11, <1>12, <1>13, <1>14, <1>15, <1>16 DEF Run

LEMMA ExclusiveStep == IndInv /\ ExclusiveInv /\ [Next]_vars => ExclusiveInv'
<1> SUFFICES ASSUME IndInv, ExclusiveInv, [Next]_vars, exclusive'
             PROVE  \A r \in Replicas : OneCall(r)' /\ Remembered(r)'
  BY DEF ExclusiveInv
<1>1. exclusive
  BY DEF Next, Create, Receive, Run, CheckDependencies, Park, UpdateClock, Apply, Scan, Drain,
         ClearHistory, vars
<1>2. CASE UNCHANGED vars
  <2>1. ASSUME NEW r \in Replicas PROVE OneCall(r)' /\ Remembered(r)'
    BY <1>1, <1>2, ReplicaKept DEF vars, ExclusiveInv, IndInv, Deps
  <2> QED
    BY <2>1
<1> QED
  BY <1>1, <1>2, CreateOnce, ReceiveOnce, RunOnce, ClearOnce DEF Next

LEMMA InitExclusive == Init => ExclusiveInv
<1> SUFFICES ASSUME Init, NEW r \in Replicas PROVE OneCall(r) /\ Remembered(r)
  BY DEF ExclusiveInv
<1>1. /\ \A t \in Threads : op[t].pc = "idle" /\ op[t].ready = {}
      /\ pending[r] = {} /\ delivered[r] = <<>>
  BY DEF Init, Idle
<1>2. OneCall(r)
  BY <1>1 DEF OneCall
<1>3. IsInjective(<<>>) /\ Got(r) = {}
  BY <1>1 DEF IsInjective, Got
<1>4. Remembered(r)
  BY <1>1, <1>3 DEF Remembered, Undelivered
<1> QED
  BY <1>2, <1>4

LEMMA AlwaysExclusive == Spec => []ExclusiveInv
<1>1. Init => ExclusiveInv
  BY InitExclusive
<1>2. IndInv /\ ExclusiveInv /\ [Next]_vars => ExclusiveInv'
  BY ExclusiveStep
<1> QED
  BY <1>1, <1>2, IndInvInvariant, PTL DEF Spec

\* Where calls on a replica do not overlap and its history is kept, no delta is
\* delivered twice: not one sent again, nor one that is queued and then comes
\* again when its dependencies are there (receive, try_deliver_pending).
THEOREM NoSecondDelivery == Spec => []DeliveredOnce
<1>1. ExclusiveInv => DeliveredOnce
  BY DEF ExclusiveInv, Remembered, DeliveredOnce
<1> QED
  BY <1>1, AlwaysExclusive, PTL

\* Where calls do not overlap, a call leaves nothing in the queue that could be
\* delivered, whatever was cleared before (try_deliver_pending).
THEOREM QueueOnlyWaits == Spec => []NothingReadyWaits
<1>1. ASSUME ExclusiveInv, NEW r \in Replicas, exclusive, Admits(r), NEW d \in pending[r]
      PROVE  ~Satisfied(r, d)
  <2>1. \A t \in Threads : HomeOf[t] = r => op[t].pc \in Undelivered \cup {"idle"}
    BY <1>1 DEF Admits
  <2> QED
    BY <1>1, <2>1 DEF ExclusiveInv, OneCall
<1>2. ExclusiveInv => NothingReadyWaits
  BY <1>1 DEF NothingReadyWaits
<1> QED
  BY <1>2, AlwaysExclusive, PTL

=============================================================================
