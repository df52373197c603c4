-------------------------- MODULE AtLeastOnceDispatch --------------------------
(***************************************************************************)
(* What the planner and its sidecar promise together for intents that are  *)
(* planned once: a plan that was queued waits until it has been turned     *)
(* into an AgentTask at least once, only then it is retired, and a retired *)
(* plan is never run again.                                                *)
(***************************************************************************)
EXTENDS Naturals

CONSTANTS
    Intents,    \* the intents
    Accepted    \* those of which the API server accepts the AgentTask

VARIABLES
    waiting,    \* queued plans that are not retired
    retired,    \* plans the system is done with
    runs        \* runs[i]: AgentTasks created for the plan of i

promised == <<waiting, retired, runs>>

Init ==
    /\ waiting = {}
    /\ retired = {}
    /\ runs = [i \in Intents |-> 0]

Submit(i) ==
    /\ i \notin waiting \cup retired
    /\ waiting' = waiting \cup {i}
    /\ UNCHANGED <<retired, runs>>

Run(i) ==
    /\ i \in waiting \cap Accepted
    /\ runs' = [runs EXCEPT ![i] = @ + 1]
    /\ UNCHANGED <<waiting, retired>>

FirstRun(i) == runs[i] = 0 /\ Run(i)

Retire(i) ==
    /\ i \in waiting
    /\ runs[i] > 0
    /\ waiting' = waiting \ {i}
    /\ retired' = retired \cup {i}
    /\ UNCHANGED runs

Next == \E i \in Intents : Submit(i) \/ Run(i) \/ Retire(i)

Spec == Init /\ [][Next]_promised

\* An accepted plan is run, and once it has run it is retired.
FairSpec ==
    /\ Spec
    /\ \A i \in Accepted : WF_promised(FirstRun(i)) /\ WF_promised(Retire(i))
================================================================================
