----------------------------- MODULE MCFailover -----------------------------
(* A small instance of Failover for TLC. *)
EXTENDS Failover, TLC

CONSTANTS a, b, m1, m2

\* A pair, a primary on its own, and a secondary without a primary.
MCStarts ==
    {(a :> "primary") @@ (b :> "secondary"), (a :> "primary") @@ (b :> None),
     (a :> "secondary") @@ (b :> "witness")}
=============================================================================
