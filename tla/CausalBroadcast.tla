-------------------------- MODULE CausalBroadcast --------------------------
(***************************************************************************)
(* What delta consensus promises, without clocks, queues or threads: a     *)
(* delta is created once and names the deltas it depends on, and every     *)
(* replica takes deltas in an order that respects those dependencies.      *)
(* DeltaConsensus implements this specification.                           *)
(***************************************************************************)

CONSTANTS Replicas, DeltaIds

VARIABLES
    deps,       \* the dependencies of each delta; a delta not made has none
    made,       \* the deltas created so far
    got         \* the deltas each replica has taken

vars == <<deps, made, got>>

Init ==
    /\ deps = [d \in DeltaIds |-> {}]
    /\ made = {}
    /\ got = [r \in Replicas |-> {}]

Publish(d, on) ==
    /\ d \notin made
    /\ on \subseteq made
    /\ made' = made \cup {d}
    /\ deps' = [deps EXCEPT ![d] = on]
    /\ UNCHANGED got

Take(r, d) ==
    /\ d \in made
    /\ deps[d] \subseteq got[r]
    /\ got' = [got EXCEPT ![r] = @ \cup {d}]
    /\ UNCHANGED <<deps, made>>

Next ==
    \E d \in DeltaIds :
        \/ \E on \in SUBSET DeltaIds : Publish(d, on)
        \/ \E r \in Replicas : Take(r, d)

Spec == Init /\ [][Next]_vars

=============================================================================
