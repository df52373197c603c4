--------------------------------- MODULE MCRHPod ---------------------------------
(* Two plans in a volume for one, three stalls and a failure.                  *)
EXTENDS RHPod
================================================================================
