--------------------------- MODULE MCWarmPoolManager ---------------------------
(* The sidecar of the base deployment.                                        *)
EXTENDS WarmPoolManager

CONSTANT s

MCOneSidecar == {s}
================================================================================
