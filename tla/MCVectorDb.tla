----------------------------- MODULE MCVectorDb -----------------------------
(* A small instance of VectorDb for TLC. *)
EXTENDS VectorDb, TLC

CONSTANTS c1, c2, i1, i2, a, b, u, v, w, m

\* w is a vector of another dimension.
MCDims == [x \in Vectors |-> IF x = w THEN 2 ELSE 1]

MCOptions == [dim : {1}, kind : {"flat", "hnsw"}]

E(x, y, z) == [id |-> x, vec |-> y, meta |-> z]

\* A single insert, one id twice, two ids, and an entry that does not fit behind
\* one that does.
MCBatches ==
    {<<E(a, u, Absent)>>, <<E(a, u, Absent), E(a, v, Absent)>>, <<E(a, v, Absent), E(b, u, m)>>,
     <<E(a, v, m), E(b, w, Absent)>>}

\* Both write a, and c1 also b.
MCMayWrite == (c1 :> {a, b}) @@ (c2 :> {a})
=============================================================================
