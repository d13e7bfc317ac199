----------------------------- MODULE MCUsdScan -----------------------------
(* A small instance of UsdScan for TLC *)
EXTENDS UsdScan

CONSTANTS t1, t2

\* Three files: prims without rows and with more rows than a chunk holds, a file
\* that does not have the scan's root, a last run that is shorter than the others
ThreeFiles == <<<<1, 0, 3, 1>>, <<>>, <<1, 2, 1>>>>
ThreeStages == <<2, 0, 3>>

\* The last file's second prim reads a value clip
OneClip == {<<3, 2>>}
=============================================================================
