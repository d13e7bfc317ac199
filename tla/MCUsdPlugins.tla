---------------------------- MODULE MCUsdPlugins ----------------------------
(* One process with two databases and one with one load the extension *)
EXTENDS UsdPlugins, TLC

CONSTANTS p1, p2, pid1, pid2, d1, d2, d3

Pids == (p1 :> pid1) @@ (p2 :> pid2)
TwoAndOne == (d1 :> p1) @@ (d2 :> p1) @@ (d3 :> p2)

\* A schema file and the plugInfo.json it belongs to, then that of the resolver
SchemaAndInfo == (1 :> 2) @@ (2 :> 2) @@ (3 :> 3)
=============================================================================
