------------------------------ MODULE MCCluster ------------------------------
(* A small instance of Cluster for TLC. *)
EXTENDS Cluster, TLC

CONSTANTS a, b, c1, c2, c3

\* Each node comes first for one shard.
MCPrefer == <<<<a, b>>, <<b, a>>>>

\* Both shards are in one bucket.
MCBucket == <<1, 1>>

\* Two callers change the nodes, and both change a; the third starts the manager
\* or assigns single shards.
MCMayChange == (c1 :> {a}) @@ (c2 :> {a, b}) @@ (c3 :> {})
=============================================================================
