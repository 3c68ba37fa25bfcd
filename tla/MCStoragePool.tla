--------------------------- MODULE MCStoragePool ---------------------------
(* Small instances of StoragePool for TLC. *)
EXTENDS StoragePool, TLC

CONSTANTS c1, c2, c3, p1, p2, s1, s2, s3, d1, d2, d3, n1, n2, i1, i2, i3, i4, i5

\* Every path has a directory entry of its own.
MCDistinctNames == (p1 :> n1) @@ (p2 :> n2)

\* Two spellings of one file, such as a.db and sub/../a.db, or a link.
MCAliasedNames == (p1 :> n1) @@ (p2 :> n1)

MCSymmetry ==
    Permutations({c1, c2, c3}) \cup Permutations({s1, s2, s3})
        \cup Permutations({d1, d2, d3}) \cup Permutations({i1, i2, i3, i4, i5})
=============================================================================
