-------------------------- MODULE MCHemisphereOperator --------------------------
(* One task; one operator, or the two replicas of the prod overlay.            *)
EXTENDS HemisphereOperator

CONSTANTS t, p, op, oq

MCOneTask == {t}
MCOperators == {op}
MCReplicas == {op, oq}
MCPrefixes == {p}
MCOnePrefix == [x \in MCOneTask |-> p]
================================================================================
