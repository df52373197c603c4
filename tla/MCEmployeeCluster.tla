--------------------------- MODULE MCEmployeeCluster ---------------------------
(* One planned intent and one task applied with a command.                    *)
EXTENDS EmployeeCluster

CONSTANTS s, h, a

MCHandshakes == {h}
MCApplied == {a}
MCNone == {}
================================================================================
