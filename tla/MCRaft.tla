------------------------------- MODULE MCRaft -------------------------------
(* Small instances of Raft for TLC. *)
EXTENDS Raft, TLC

CONSTANTS s1, s2, s3

\* s1 stands first; in the second term it competes with s2.
MCStands == (s1 :> {1, 2}) @@ (s2 :> {2}) @@ (s3 :> {})

MCFeeds == (s1 :> {s2, s3}) @@ (s2 :> {s1}) @@ (s3 :> {})

\* s2 may overwrite an entry of s1 with two of its own, or follow it with one.
MCMaxLog == (s1 :> 1) @@ (s2 :> 2) @@ (s3 :> 0)
=============================================================================
