---------------------------- MODULE MCCollections ----------------------------
(* A small instance of Collections for TLC. *)
EXTENDS Collections, TLC

CONSTANTS c1, c2, a, b, d, e, x, y

\* Each caller has a collection and its alias, in either role.
MCMayCall == (c1 :> {a, b}) @@ (c2 :> {d, e})

\* The callers, with what they call, the names of each, and the configurations.
Swap(p, q) == (p :> q) @@ (q :> p)
SwapCallers == Swap(c1, c2) @@ Swap(a, d) @@ Swap(b, e)
Identity == [v \in {c1, c2, a, b, d, e, x, y} |-> v]
After(f, g) == [v \in DOMAIN Identity |-> (f @@ Identity)[(g @@ Identity)[v]]]
Symmetric ==
    {After(After(f, g), After(h, i)) : f \in {Identity, SwapCallers}, g \in {Identity, Swap(a, b)},
                                       h \in {Identity, Swap(d, e)}, i \in {Identity, Swap(x, y)}}
=============================================================================
