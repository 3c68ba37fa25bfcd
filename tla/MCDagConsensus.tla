--------------------------- MODULE MCDagConsensus ---------------------------
(* A small instance of DagConsensus for TLC. *)
EXTENDS DagConsensus, TLC

CONSTANTS n1, n2, v1, v2, v3, v4

MCVertices == Permutations({v1, v2, v3, v4})

\* Enough for both nodes to confirm a vertex, and to build on it after that.
MCSubmitted == (n1 :> 3) @@ (n2 :> 2)
=============================================================================
