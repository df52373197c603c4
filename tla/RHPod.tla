---------------------------------- MODULE RHPod ----------------------------------
(***************************************************************************)
(* The planner's pod: two containers that share the volume of handshakes,  *)
(* an emptyDir of limited size, under a kubelet that restarts a container  *)
(* whose /health does not answer and a Deployment that replaces the pod.   *)
(*                                                                         *)
(* HandshakeBridge looks at the same hand-over with one pod for ever and   *)
(* every step of a pass; here a pass over one handshake is one step, and   *)
(* what is at stake is which promises survive processes and pods.          *)
(***************************************************************************)
EXTENDS Naturals, Sequences, FiniteSets

CONSTANTS
    Plans,       \* the plans that clients ask for, each of its own intent
    Room,        \* handshakes that fit into sizeLimit
    MaxStalls,   \* bound: processes that end, hang or do not get their configuration
    MaxFailures, \* bound: writes that fail and pods that are replaced
    MaxPods      \* bound: pods, the first and those after it

ASSUME RHPodAssumption ==
    /\ IsFiniteSet(Plans)
    /\ Room \in Nat /\ MaxStalls \in Nat /\ MaxFailures \in Nat /\ MaxPods \in Nat

VARIABLES
    request,     \* request[p]: how far POST /plan for p has come
    pending,     \* plans with a file in pending/
    processed,   \* plans with a file in processed/
    dispatched,  \* plans with an AgentTask
    sidecar,     \* the sidecar's process
    writes,      \* history: writes[n] handshakes were written in the n-th pod
    born,        \* history: the pod in which p was last written, 0 before
    stalls,      \* processes stalled so far
    failures     \* writes failed and pods replaced so far

volume == <<pending, processed>>
history == <<writes, born>>
vars == <<request, pending, processed, dispatched, sidecar, writes, born, stalls, failures>>

Init ==
    /\ request = [p \in Plans |-> "none"]
    /\ pending = {} /\ processed = {} /\ dispatched = {}
    /\ sidecar = "starting"
    /\ writes = <<0>> /\ born = [p \in Plans |-> 0]
    /\ stalls = 0 /\ failures = 0

Stall == stalls < MaxStalls /\ stalls' = stalls + 1 /\ UNCHANGED failures

Failure == failures < MaxFailures /\ failures' = failures + 1 /\ UNCHANGED stalls

NoTrouble == UNCHANGED <<stalls, failures>>

--------------------------------------------------------------------------------
(* The planner.                                                              *)

\* _write_handshake; the request is answered later, and the process may end before.
Write(p) ==
    /\ request[p] = "none"
    /\ request' = [request EXCEPT ![p] = "made"]
    /\ pending' = pending \cup {p}
    /\ writes' = [writes EXCEPT ![Len(writes)] = @ + 1]
    /\ born' = [born EXCEPT ![p] = Len(writes)]
    /\ UNCHANGED <<processed, dispatched, sidecar>> /\ NoTrouble

\* An OSError is logged.
WriteFails(p) ==
    /\ request[p] = "none"
    /\ request' = [request EXCEPT ![p] = "made"]
    /\ UNCHANGED <<volume, dispatched, sidecar, history>> /\ Failure

Answer(p) ==
    /\ request[p] = "made"
    /\ request' = [request EXCEPT ![p] = "answered"]
    /\ UNCHANGED <<volume, dispatched, sidecar, history>> /\ NoTrouble

\* The clients that have no answer ask again.
Unanswered ==
    [p \in Plans |-> IF request[p] = "made" THEN "none" ELSE request[p]]

PlannerEnds ==
    /\ request' = Unanswered
    /\ UNCHANGED <<volume, dispatched, sidecar, history>> /\ Stall

--------------------------------------------------------------------------------
(* The sidecar.                                                              *)

ConfigLoads ==
    /\ sidecar = "starting"
    /\ sidecar' = "working"
    /\ UNCHANGED <<request, volume, dispatched, history>> /\ NoTrouble

\* _sidecar_loop returns, and nobody notices: /health answers without it.
ConfigFails ==
    /\ sidecar = "starting"
    /\ sidecar' = "silent"
    /\ UNCHANGED <<request, volume, dispatched, history>> /\ Stall

\* process_pending and one of its files.
Dispatch(p) ==
    /\ sidecar = "working" /\ p \in pending
    /\ dispatched' = dispatched \cup {p}
    /\ pending' = pending \ {p}
    /\ processed' = processed \cup {p}
    /\ UNCHANGED <<request, sidecar, history>> /\ NoTrouble

\* A call of the API server takes its time.  The loop makes it without an await, so
\* that /health waits too.
CallHangs ==
    /\ sidecar = "working"
    /\ sidecar' = "hung"
    /\ UNCHANGED <<request, volume, dispatched, history>> /\ Stall

CallReturns ==
    /\ sidecar = "hung"
    /\ sidecar' = "working"
    /\ UNCHANGED <<request, volume, dispatched, history>> /\ NoTrouble

\* Mutant of Healthy: /health is served apart from the loop.
HealthyAlways == TRUE

Healthy == sidecar \in {"starting", "working", "silent"}

\* Mutant of RestartSidecar: the handshakes are in the container's own file system.
RestartSidecarAfresh ==
    /\ ~Healthy
    /\ sidecar' = "starting" /\ pending' = {} /\ processed' = {}
    /\ UNCHANGED <<request, dispatched, history>> /\ NoTrouble

\* livenessProbe
RestartSidecar ==
    /\ ~Healthy
    /\ sidecar' = "starting"
    /\ UNCHANGED <<request, volume, dispatched, history>> /\ NoTrouble

SidecarEnds ==
    /\ sidecar' = "starting"
    /\ UNCHANGED <<request, volume, dispatched, history>> /\ Stall

--------------------------------------------------------------------------------
(* The pod.                                                                  *)

NewPod ==
    /\ Len(writes) < MaxPods
    /\ pending' = {} /\ processed' = {}
    /\ sidecar' = "starting"
    /\ request' = Unanswered
    /\ writes' = Append(writes, 0)
    /\ UNCHANGED <<dispatched, born>>

PodReplaced == NewPod /\ Failure

Files == Cardinality(pending) + Cardinality(processed)

\* Nothing ever removes a file from processed/.
TooFull == Files > Room

PodEvicted == TooFull /\ NewPod /\ NoTrouble

--------------------------------------------------------------------------------

Next ==
    \/ \E p \in Plans : Write(p) \/ WriteFails(p) \/ Answer(p) \/ Dispatch(p)
    \/ PlannerEnds
    \/ ConfigLoads \/ ConfigFails \/ CallHangs \/ CallReturns
    \/ RestartSidecar \/ SidecarEnds
    \/ PodReplaced \/ PodEvicted

\* The event loop runs the start and the passes; each pass gets to every file, one
\* that fails or not; the kubelet probes.  Calls need not return.
Fairness ==
    /\ \A p \in Plans : WF_vars(Dispatch(p))
    /\ WF_vars(ConfigLoads \/ ConfigFails)
    /\ WF_vars(RestartSidecar)

Spec == Init /\ [][Next]_vars /\ Fairness

--------------------------------------------------------------------------------
(* Properties.                                                               *)

TypeOK ==
    /\ request \in [Plans -> {"none", "made", "answered"}]
    /\ pending \subseteq Plans /\ processed \subseteq Plans /\ dispatched \subseteq Plans
    /\ sidecar \in {"starting", "working", "hung", "silent"}
    /\ writes \in Seq(Nat) /\ Len(writes) > 0
    /\ born \in [Plans -> 0 .. Len(writes)]
    /\ stalls \in 0 .. MaxStalls /\ failures \in 0 .. MaxFailures

Lost(p) == request[p] = "answered" /\ p \notin pending \cup dispatched

\* A plan that was answered is in the volume or has its AgentTask, through all ends,
\* hangs and restarts of the containers, unless a write failed or a pod was replaced,
\* or it was written into a pod that took more handshakes than its volume holds, the
\* dispatched ones included.
LossHasACause ==
    \A p \in Plans : Lost(p) => failures > 0 \/ writes[born[p]] > Room

\* The sidecar works again and again, unless its configuration failed to load once
\* and it keeps silent.
SidecarRecovers == []<>(sidecar = "working") \/ <>[](sidecar = "silent")

\* A handshake in the volume is dispatched, or lost with its pod, unless the sidecar
\* keeps silent.
WaitingPlanIsDispatched ==
    \A p \in Plans :
        [](p \in pending => <>(p \notin pending \/ [](sidecar = "silent")))
================================================================================
