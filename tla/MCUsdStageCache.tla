-------------------------- MODULE MCUsdStageCache --------------------------
(* Small instances of UsdStageCache for TLC *)
EXTENDS UsdStageCache, TLC

CONSTANTS s1, s2, c1, c2, d1, k1, k2, main, part, clip, i1, i2, i3, i4

OneScanEach == (s1 :> c1) @@ (s2 :> c2)
BothOnOne == (s1 :> c1) @@ (s2 :> c1)
OneDb == [c \in Conns |-> d1]

\* k1 opens main, which references part; k2 opens part itself
TwoRoots == (k1 :> main) @@ (k2 :> part)
TwoUses == (k1 :> {main, part}) @@ (k2 :> {part})
OneRoot == (k1 :> main)
OneUses == (k1 :> {main, part})
OneFile == (k1 :> {main})
NoClips == [k \in Keys |-> {}]
ClipOfMain == [k \in Keys |-> {clip}]

PartAppears == {<<part, 1>>}
PartRepaired == {<<part, 1>>}
Nothing == {}

StageSymmetry == Permutations(StageIds)

\* Scans of one connection can be exchanged
ScanSymmetry == StageSymmetry \cup {p @@ q : p \in StageSymmetry, q \in Permutations(Scans)}

\* With a scan on each connection, the connections can be exchanged as well
SwapConns == (s1 :> s2) @@ (s2 :> s1) @@ (c1 :> c2) @@ (c2 :> c1)
ConnSymmetry == StageSymmetry \cup {p @@ SwapConns : p \in StageSymmetry}
=============================================================================
