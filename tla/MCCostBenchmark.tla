---------------------------- MODULE MCCostBenchmark ----------------------------
(* Two profiles on two days, and a generator with seven states.               *)
EXTENDS CostBenchmark

MCProfiles == <<"report", "transaction">>
MCFrequency == [p \in {"report", "transaction"} |-> IF p = "report" THEN 1 ELSE 2]
MCLowRisk == {"transaction"}
MCStates == 0 .. 6

Draws == MCStates \X {"report", "transaction"}
Used(input, output) == [input |-> input, output |-> output]

MCTokens == [d \in Draws |->
    [plan |-> Used(8 + d[1], 1 + (d[1] % 2)), implementation |-> Used(d[1], d[1] % 3),
     review |-> Used(9 + ((2 * d[1]) % 7), 1)]]
MCAfterTokens == [d \in Draws |-> (3 * d[1] + 1) % 7]
MCHit == [d \in Draws |-> d[2] = "transaction" /\ d[1] < 5]
MCAfterCoin == [g \in MCStates |-> (5 * g + 2) % 7]
MCPodCost == [d \in Draws |-> 100 + d[1]]
MCAfterPod == [d \in Draws |-> (d[1] + 3) % 7]
================================================================================
