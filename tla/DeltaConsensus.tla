--------------------------- MODULE DeltaConsensus ---------------------------
(***************************************************************************)
(* DeltaConsensus of crates/ruvector-delta-consensus: replicas create      *)
(* deltas with a vector clock and receive those of others, in any order,   *)
(* any number of times or never.                                           *)
(*                                                                         *)
(* receive checks the applied set, checks the dependencies, and then       *)
(* queues the delta or delivers it and drains the queue.  Each of these    *)
(* takes a lock of its own, and threads of one replica may be between any  *)
(* two of them.  An action is what one lock covers.                        *)
(***************************************************************************)
EXTENDS Naturals, Sequences, SequencesExt

CONSTANTS
    Replicas,
    DeltaIds,       \* bound: the deltas that are ever created
    Threads,        \* callers of receive
    HomeOf,         \* the replica a thread calls
    Author,         \* bound: the replica that may create each delta
    MaxClears,      \* bound: calls of clear_history on each replica
    MaxDelivered,   \* bound: no call begins after so many deliveries
    None

ASSUME DeltaAssumption ==
    /\ HomeOf \in [Threads -> Replicas]
    /\ Author \in [DeltaIds -> Replicas]
    /\ MaxClears \in [Replicas -> Nat]
    /\ MaxDelivered \in Nat
    /\ None \notin DeltaIds
    /\ None \notin [origin : Replicas, clock : [Replicas -> Nat],
                     deps : SUBSET DeltaIds]

VARIABLES
    delta,          \* the deltas created so far: origin, clock, dependencies
    clock,          \* the vector clock of each replica
    pending,        \* deltas awaiting delivery
    applied,        \* ids of applied deltas
    op,             \* where each thread is in receive
    clears,         \* how often the history of a replica was cleared
    delivered,      \* history: the deltas of each replica as they were applied
    exclusive       \* whether callers serialise their calls on a replica

vars == <<delta, clock, pending, applied, op, clears, delivered, exclusive>>

Clocks == [Replicas -> Nat]

Created == {d \in DeltaIds : delta[d] # None}

Deps(d) == IF delta[d] = None THEN {} ELSE delta[d].deps

Got(r) == {delivered[r][k] : k \in 1..Len(delivered[r])}

Idle == [pc |-> "idle", id |-> None, ready |-> {}]

-----------------------------------------------------------------------------
(* Vector clocks.  A replica without an entry counts as zero.              *)

Increment(c, r) == [c EXCEPT ![r] = @ + 1]

Merge(c, e) == [r \in Replicas |-> IF c[r] < e[r] THEN e[r] ELSE c[r]]

HappensBefore(c, e) ==
    /\ \A r \in Replicas : c[r] <= e[r]
    /\ \E r \in Replicas : c[r] < e[r]

\* Mutant: the clock is moved on without what the delta has seen.
SeenWithoutMerge(r, d) == clock' = [clock EXCEPT ![r] = Increment(@, r)]

Seen(r, d) ==
    clock' = [clock EXCEPT ![r] = Increment(Merge(@, delta[d].clock), r)]

-----------------------------------------------------------------------------
Init ==
    /\ delta = [d \in DeltaIds |-> None]
    /\ clock = [r \in Replicas |-> [q \in Replicas |-> 0]]
    /\ pending = [r \in Replicas |-> {}]
    /\ applied = [r \in Replicas |-> {}]
    /\ op = [t \in Threads |-> Idle]
    /\ clears = [r \in Replicas |-> 0]
    /\ delivered = [r \in Replicas |-> <<>>]
    /\ exclusive \in BOOLEAN

\* A call on r may begin: always, unless the callers share a lock around it.
Admits(r) ==
    exclusive => \A t \in Threads : HomeOf[t] = r => op[t].pc = "idle"

Step(t, pc) == op' = [op EXCEPT ![t].pc = pc]

Return(t) == op' = [op EXCEPT ![t] = Idle]

\* create_delta and with_dependency.  A caller names what its replica made or
\* has applied.  The new id is not added to the replica's own applied set.
Create(r, d, on) ==
    /\ Admits(r)
    /\ d \notin Created /\ Author[d] = r
    /\ on \subseteq Got(r) \cup {e \in Created : delta[e].origin = r}
    /\ clock' = [clock EXCEPT ![r] = Increment(@, r)]
    /\ delta' = [delta EXCEPT
                   ![d] = [origin |-> r, clock |-> clock'[r], deps |-> on]]
    /\ UNCHANGED <<pending, applied, op, clears, delivered, exclusive>>

\* receive, up to the check of the applied set.  A delta that was applied is
\* answered with AlreadyApplied, which changes nothing.
Receive(t, d) ==
    /\ op[t].pc = "idle" /\ Admits(HomeOf[t])
    /\ Len(delivered[HomeOf[t]]) < MaxDelivered
    /\ d \in Created /\ d \notin applied[HomeOf[t]]
    /\ op' = [op EXCEPT ![t] = [pc |-> "deps", id |-> d, ready |-> {}]]
    /\ UNCHANGED <<delta, clock, pending, applied, clears, delivered, exclusive>>

\* Mutant: no delta waits for another.
SatisfiedAlways(r, d) == TRUE

Satisfied(r, d) == Deps(d) \subseteq applied[r]

CheckDependencies(t) ==
    /\ op[t].pc = "deps"
    /\ Step(t, IF Satisfied(HomeOf[t], op[t].id) THEN "clock" ELSE "park")
    /\ UNCHANGED <<delta, clock, pending, applied, clears, delivered, exclusive>>

Park(t) ==
    /\ op[t].pc = "park"
    /\ pending' = [pending EXCEPT ![HomeOf[t]] = @ \cup {op[t].id}]
    /\ Return(t)
    /\ UNCHANGED <<delta, clock, applied, clears, delivered, exclusive>>

UpdateClock(t) ==
    /\ op[t].pc = "clock"
    /\ Seen(HomeOf[t], op[t].id)
    /\ Step(t, "apply")
    /\ UNCHANGED <<delta, pending, applied, clears, delivered, exclusive>>

MarkApplied(r, d) ==
    /\ applied' = [applied EXCEPT ![r] = @ \cup {d}]
    /\ delivered' = [delivered EXCEPT ![r] = Append(@, d)]

\* Mutant: a direct delivery does not look at the queue.
ApplyWithoutDrain(t) ==
    /\ op[t].pc = "apply"
    /\ MarkApplied(HomeOf[t], op[t].id)
    /\ Return(t)
    /\ UNCHANGED <<delta, clock, pending, clears, exclusive>>

Apply(t) ==
    /\ op[t].pc = "apply"
    /\ MarkApplied(HomeOf[t], op[t].id)
    /\ Step(t, "scan")
    /\ UNCHANGED <<delta, clock, pending, clears, exclusive>>

\* Mutant: the loop runs until the queue is empty.
ScanUntilEmpty(t) ==
    LET r == HomeOf[t]
        ready == {d \in pending[r] : Satisfied(r, d)}
    IN  /\ op[t].pc = "scan"
        /\ IF pending[r] = {} THEN Return(t)
           ELSE IF ready = {} THEN UNCHANGED op
           ELSE op' = [op EXCEPT ![t] = [pc |-> "drain", id |-> @.id, ready |-> ready]]
        /\ UNCHANGED <<delta, clock, pending, applied, clears, delivered, exclusive>>

\* try_deliver_pending: list what is ready, then deliver the list one by one,
\* and begin again until nothing is ready.
Scan(t) ==
    LET r == HomeOf[t]
        ready == {d \in pending[r] : Satisfied(r, d)}
    IN  /\ op[t].pc = "scan"
        /\ IF ready = {} THEN Return(t)
           ELSE op' = [op EXCEPT ![t] = [pc |-> "drain", id |-> @.id, ready |-> ready]]
        /\ UNCHANGED <<delta, clock, pending, applied, clears, delivered, exclusive>>

Drained(t, d) ==
    op' = [op EXCEPT ![t] = [pc |-> IF @.ready = {d} THEN "scan" ELSE "drain",
                             id |-> @.id, ready |-> @.ready \ {d}]]

\* Mutant: a delivered delta stays in the queue.
DrainKeeps(t, d) ==
    /\ op[t].pc = "drain" /\ d \in op[t].ready
    /\ Drained(t, d)
    /\ MarkApplied(HomeOf[t], d)
    /\ Seen(HomeOf[t], d)
    /\ UNCHANGED <<delta, pending, clears, exclusive>>

\* The guard of the queue is held while the delta is delivered.  A delta that
\* another thread has taken meanwhile is passed over.
Drain(t, d) ==
    LET r == HomeOf[t]
    IN  /\ op[t].pc = "drain" /\ d \in op[t].ready
        /\ Drained(t, d)
        /\ pending' = [pending EXCEPT ![r] = @ \ {d}]
        /\ IF d \in pending[r]
           THEN MarkApplied(r, d) /\ Seen(r, d)
           ELSE UNCHANGED <<applied, delivered, clock>>
        /\ UNCHANGED <<delta, clears, exclusive>>

ClearHistory(r) ==
    /\ Admits(r)
    /\ clears[r] < MaxClears[r]
    /\ clears' = [clears EXCEPT ![r] = @ + 1]
    /\ applied' = [applied EXCEPT ![r] = {}]
    /\ UNCHANGED <<delta, clock, pending, op, delivered, exclusive>>

-----------------------------------------------------------------------------
\* A thread inside receive goes on.
Run(t) ==
    \/ CheckDependencies(t)
    \/ Park(t)
    \/ UpdateClock(t)
    \/ Apply(t)
    \/ Scan(t)
    \/ \E d \in DeltaIds : Drain(t, d)

Next ==
    \/ \E r \in Replicas, d \in DeltaIds, on \in SUBSET DeltaIds : Create(r, d, on)
    \/ \E t \in Threads, d \in DeltaIds : Receive(t, d)
    \/ \E t \in Threads : Run(t)
    \/ \E r \in Replicas : ClearHistory(r)

Spec == Init /\ [][Next]_vars

FairSpec == Spec /\ \A t \in Threads : WF_vars(Run(t))

-----------------------------------------------------------------------------
\* Every variable has its type, and a thread has a delta when it is in receive.
TypeOK ==
    /\ delta \in [DeltaIds -> [origin : Replicas, clock : Clocks,
                               deps : SUBSET DeltaIds] \cup {None}]
    /\ clock \in [Replicas -> Clocks]
    /\ pending \in [Replicas -> SUBSET DeltaIds]
    /\ applied \in [Replicas -> SUBSET DeltaIds]
    /\ op \in [Threads ->
                 [pc : {"idle", "deps", "park", "clock", "apply", "scan", "drain"},
                  id : DeltaIds \cup {None}, ready : SUBSET DeltaIds]]
    /\ \A t \in Threads : op[t].pc # "idle" => op[t].id \in DeltaIds
    /\ clears \in [Replicas -> Nat]
    /\ delivered \in [Replicas -> Seq(DeltaIds)]
    /\ exclusive \in BOOLEAN

\* A delta's clock is after the clocks of all it depends on, so happens_before
\* on the receiving side agrees with the dependencies, whichever way (directly
\* or out of the queue) they reached the creator.
DependenciesHappenBefore ==
    \A d \in Created : \A e \in Deps(d) :
        HappensBefore(delta[e].clock, delta[d].clock)

\* A replica delivers a delta once, however often it is sent, as long as calls
\* do not overlap and the history is kept: two overlapping calls with one delta
\* both find it missing, and a cleared history forgets it.
DeliveredOnce ==
    \A r \in Replicas :
        exclusive /\ clears[r] = 0 => IsInjective(delivered[r])

\* Between calls nothing is queued whose dependencies are applied.  When calls
\* overlap this fails: a thread finds a dependency missing, another applies it
\* and drains the queue, and the first then queues its delta.
NothingReadyWaits ==
    \A r \in Replicas :
        exclusive /\ Admits(r) => \A d \in pending[r] : ~Satisfied(r, d)

\* A call of receive ends: draining does not go on for ever.
ReceiveEnds == \A t \in Threads : op[t].pc # "idle" ~> op[t].pc = "idle"

Abstract == INSTANCE CausalBroadcast WITH
    deps <- [d \in DeltaIds |-> Deps(d)],
    made <- Created,
    got <- [r \in Replicas |-> Got(r)]

\* Every replica delivers in an order that respects the dependencies, also
\* when threads overlap and when the history is cleared between two steps.
ImplementsCausalBroadcast == Abstract!Spec

=============================================================================
