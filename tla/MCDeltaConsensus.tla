-------------------------- MODULE MCDeltaConsensus --------------------------
(* A small instance of DeltaConsensus for TLC. *)
EXTENDS DeltaConsensus, TLC

CONSTANTS r1, r2, t1, t2, d1, d2, d3

\* Two threads call one replica, none the other.
MCHome == (t1 :> r1) @@ (t2 :> r1)

MCAuthor == (d1 :> r2) @@ (d2 :> r2) @@ (d3 :> r1)

MCClears == (r1 :> 1) @@ (r2 :> 0)
=============================================================================
