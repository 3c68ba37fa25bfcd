----------------------------- MODULE MCGraphTxn -----------------------------
(* A small instance of GraphTxn for TLC. *)
EXTENDS GraphTxn, TLC

CONSTANTS t1, t2, t3, n1, e1

\* A writer of a node and an edge, a writer of the node, and a reader.
MCMayWrite == (t1 :> {n1, e1}) @@ (t2 :> {n1}) @@ (t3 :> {})

MCSymmetry == Permutations(Managers)
=============================================================================
