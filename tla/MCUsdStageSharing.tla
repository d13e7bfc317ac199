------------------------- MODULE MCUsdStageSharing -------------------------
(* Small instances of UsdStageSharing for TLC *)
EXTENDS UsdStageSharing, TLC

CONSTANTS s1, s2, s3, c1, c2, d1, k1, k2, k3, i1, i2, i3

OneDatabase == (c1 :> d1) @@ (c2 :> d1)
Sizes == (k1 :> 1) @@ (k2 :> 2) @@ (k3 :> 2)
Limits == (d1 :> 4)

\* Two threads of one query, and a connection that only changes settings
TwoThreads == (s1 :> c1) @@ (s2 :> c1)
OneReads == (c1 :> {k1, k2, k3}) @@ (c2 :> {})

\* A query with one thread, and one with two that shares a stage with it
TwoQueries == (s1 :> c1) @@ (s2 :> c2) @@ (s3 :> c2)
BothRead == (c1 :> {k1, k2}) @@ (c2 :> {k1})

\* The stages, and the threads of one query, can be exchanged
StageSymmetry == Permutations(StageIds)
LimitSymmetry == StageSymmetry \cup {p @@ q : p \in StageSymmetry, q \in Permutations(Scans)}
AccessSymmetry == StageSymmetry \cup {p @@ q : p \in StageSymmetry, q \in Permutations({s2, s3})}
=============================================================================
