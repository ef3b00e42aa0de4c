----------------------------- MODULE MCShimPool -----------------------------
(* The shim pool on small instances: the calls are model values, the        *)
(* threads are numbered, so the configurations need no definition here.     *)
EXTENDS ShimPool
=============================================================================
