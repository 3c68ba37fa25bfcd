--------------------------- MODULE MCChangeStream ---------------------------
(* A small instance of ChangeStream for TLC. *)
EXTENDS ChangeStream
=============================================================================
