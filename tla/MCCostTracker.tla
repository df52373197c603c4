---------------------------- MODULE MCCostTracker ----------------------------
(* Two tasks; a phase on the dearest, on the cheapest or on an unlisted model.*)
EXTENDS CostTracker

CONSTANTS i1, i2, w

MCIntents == {i1, i2}
MCModels == {Opus.name, "gpt-5", "unlisted"}
MCUsages == {[input |-> 0, output |-> 0], [input |-> 2, output |-> 1]}
MCInfra == {[pod |-> 3, vertex |-> 1]}
MCTimers == {w}
================================================================================
