---------------------------- MODULE WarmPoolManager ----------------------------
(***************************************************************************)
(* The warm pool of the scaling sidecar: each pass of its loop counts the  *)
(* standby AgentTasks and creates the missing ones (ensure_warm_pool),     *)
(* scans its volume, and creates more of them when the handshakes outnumber*)
(* the idle pods (process_pending, _burst_scale) before it dispatches.     *)
(*                                                                         *)
(* A standby AgentTask is named after an index and the second of its       *)
(* creation; the API server refuses a name that exists.  Only names of the *)
(* current second can collide (HHMMSS comes back a day later), so the model*)
(* keeps the indexes used in this second and a count of the older tasks.   *)
(* Standby tasks and pods are alike: they are counted by the state of the  *)
(* pod.  Dispatching is HandshakeBridge's subject and one step here.       *)
(***************************************************************************)
EXTENDS Naturals, FiniteSets

CONSTANTS
    Sidecars,    \* sidecars, each with its own volume: 1, or 2 in the prod overlay
    Desired,     \* WARM_POOL_SIZE
    MaxFiles,    \* bound: handshakes that are written
    MaxDeletes,  \* bound: standby tasks deleted with kubectl
    MaxFaults    \* bound: failures of API calls and processes

ASSUME SidecarsAssumption == IsFiniteSet(Sidecars)

ASSUME BoundsAssumption ==
    /\ Desired \in Nat
    /\ MaxFiles \in Nat
    /\ MaxDeletes \in Nat
    /\ MaxFaults \in Nat

VARIABLES
    old,         \* standby tasks created in earlier seconds
    fresh,       \* indexes of the standby tasks created in this second
    running,     \* standby tasks whose pod is Running
    ended,       \* standby tasks whose pod is no more ("sleep 3600" returned)
    files,       \* files[s]: handshakes in the pending directory of s
    pc,          \* pc[s]: where the loop of s is
    base,        \* base[s]: index of the next standby task
    left,        \* left[s]: standby tasks still to create
    batch,       \* batch[s]: handshakes that the scan found
    bursted,     \* history: standby tasks created by _burst_scale
    arrived,     \* history: handshakes written
    deletes,     \* history: standby tasks deleted
    faults,      \* history: failures
    blindFills   \* history: failures of the list of standby tasks

clusterVars == <<running, ended, deletes>>
nameVars == <<old, fresh>>
loopVars == <<pc, base, left, batch>>
faultVars == <<faults, blindFills>>
vars == <<old, fresh, running, ended, files, pc, base, left, batch, bursted,
          arrived, deletes, faults, blindFills>>

Init ==
    /\ old = 0 /\ fresh = {}
    /\ running = 0 /\ ended = 0
    /\ files = [s \in Sidecars |-> 0]
    /\ pc = [s \in Sidecars |-> "sleep"]
    /\ base = [s \in Sidecars |-> 0]
    /\ left = [s \in Sidecars |-> 0]
    /\ batch = [s \in Sidecars |-> 0]
    /\ bursted = 0 /\ arrived = 0 /\ deletes = 0 /\ faults = 0 /\ blindFills = 0

StandbyTasks == old + Cardinality(fresh)

\* max(0, desired_size - current_idle)
Deficit(count) == IF count < Desired THEN Desired - count ELSE 0

\* max(0, task_count - current_idle)
BurstNeeded(count, idle) == IF idle < count THEN count - idle ELSE 0

Fault == faults < MaxFaults /\ faults' = faults + 1

--------------------------------------------------------------------------------
(* The cluster and the planner.                                              *)

\* A second passes: its names are used up, and those of the next are free.
Elapse ==
    /\ old' = StandbyTasks
    /\ fresh' = {}

Tick ==
    /\ fresh # {}
    /\ Elapse
    /\ UNCHANGED <<clusterVars, files, loopVars, bursted, arrived, faultVars>>

\* The operator's pod for a standby task is scheduled and runs.
PodStarts ==
    /\ running + ended < StandbyTasks
    /\ running' = running + 1
    /\ UNCHANGED <<nameVars, ended, deletes, files, loopVars, bursted, arrived, faultVars>>

\* The pod sleeps its 3600 seconds and is Completed, or it is evicted.
PodEnds ==
    /\ running > 0
    /\ running' = running - 1
    /\ ended' = ended + 1
    /\ UNCHANGED <<nameVars, deletes, files, loopVars, bursted, arrived, faultVars>>

\* kubectl delete agenttask: the operator takes the pod away with it.
TaskDeleted ==
    /\ deletes < MaxDeletes
    /\ deletes' = deletes + 1
    /\ \/ old > 0 /\ old' = old - 1 /\ fresh' = fresh
       \/ \E i \in fresh : fresh' = fresh \ {i} /\ old' = old
    /\ \/ running + ended < StandbyTasks /\ UNCHANGED <<running, ended>>
       \/ running > 0 /\ running' = running - 1 /\ ended' = ended
       \/ ended > 0 /\ ended' = ended - 1 /\ running' = running
    /\ UNCHANGED <<files, loopVars, bursted, arrived, faultVars>>

\* The planner writes a handshake into the volume that it shares with s.
FileArrives(s) ==
    /\ arrived < MaxFiles
    /\ arrived' = arrived + 1
    /\ files' = [files EXCEPT ![s] = @ + 1]
    /\ UNCHANGED <<nameVars, clusterVars, loopVars, bursted, faultVars>>

--------------------------------------------------------------------------------
(* The loop of sidecar s.                                                    *)

At(s, place) == pc[s] = place

Goto(s, place) == pc' = [pc EXCEPT ![s] = place]

\* The pass is over, and its local variables are no more.
EndPass(s) ==
    /\ Goto(s, "sleep")
    /\ base' = [base EXCEPT ![s] = 0]
    /\ left' = [left EXCEPT ![s] = 0]
    /\ batch' = [batch EXCEPT ![s] = 0]

\* asyncio.sleep(POLL_INTERVAL) takes a second.
Wake(s) ==
    /\ At(s, "sleep")
    /\ Elapse
    /\ Goto(s, "count")
    /\ UNCHANGED <<clusterVars, files, base, left, batch, bursted, arrived, faultVars>>

\* Mutant of StartFill: a pool that lacks one task counts as full.
StartFillLate(s, count) ==
    /\ base' = [base EXCEPT ![s] = IF Deficit(count) > 1 THEN count ELSE 0]
    /\ left' = [left EXCEPT ![s] = Deficit(count)]
    /\ Goto(s, IF Deficit(count) > 1 THEN "fill" ELSE "scan")

\* The fill that follows from a count of standby tasks.
StartFill(s, count) ==
    /\ base' = [base EXCEPT ![s] = IF Deficit(count) > 0 THEN count ELSE 0]
    /\ left' = [left EXCEPT ![s] = Deficit(count)]
    /\ Goto(s, IF Deficit(count) > 0 THEN "fill" ELSE "scan")

\* Mutant of Count: idle pods are counted, as the parameter of deficit is named.
CountRunning(s) ==
    /\ At(s, "count")
    /\ StartFill(s, running)
    /\ UNCHANGED <<nameVars, clusterVars, files, batch, bursted, arrived, faultVars>>

Count(s) ==
    /\ At(s, "count")
    /\ StartFill(s, StandbyTasks)
    /\ UNCHANGED <<nameVars, clusterVars, files, batch, bursted, arrived, faultVars>>

\* count_standby_agent_tasks answers 0 when the list fails.
CountFails(s) ==
    /\ At(s, "count")
    /\ Fault
    /\ blindFills' = blindFills + 1
    /\ StartFill(s, 0)
    /\ UNCHANGED <<nameVars, clusterVars, files, batch, bursted, arrived>>

\* One creation of a loop is over; the last one leads to "next".
NextIndex(s, next) ==
    /\ base' = [base EXCEPT ![s] = IF left[s] = 1 THEN 0 ELSE @ + 1]
    /\ left' = [left EXCEPT ![s] = @ - 1]
    /\ Goto(s, IF left[s] = 1 THEN next ELSE pc[s])

\* create_namespaced_custom_object of build_standby_manifest(index); if the name
\* exists it raises ApiException, which is logged.
CreateStandby(s) ==
    /\ old' = old
    /\ fresh' = fresh \cup {base[s]}

Fill(s) ==
    /\ At(s, "fill")
    /\ CreateStandby(s)
    /\ NextIndex(s, "scan")
    /\ UNCHANGED <<clusterVars, files, batch, bursted, arrived, faultVars>>

\* ApiException (a reply lost after the creation looks like Fill).
FillFails(s) ==
    /\ At(s, "fill")
    /\ Fault
    /\ NextIndex(s, "scan")
    /\ UNCHANGED <<nameVars, clusterVars, files, batch, bursted, arrived, blindFills>>

Scan(s) ==
    /\ At(s, "scan")
    /\ Goto(s, IF files[s] > 0 THEN "idle" ELSE "sleep")
    /\ batch' = [batch EXCEPT ![s] = files[s]]
    /\ UNCHANGED <<nameVars, clusterVars, files, base, left, bursted, arrived, faultVars>>

\* Mutant of CountIdle: the burst is not skipped when none is needed.
CountIdleAlways(s) ==
    /\ At(s, "idle")
    /\ left' = [left EXCEPT ![s] = BurstNeeded(batch[s], running)]
    /\ Goto(s, "recount")
    /\ UNCHANGED <<nameVars, clusterVars, files, base, batch, bursted, arrived, faultVars>>

\* count_idle_pods and burst_needed.
CountIdle(s) ==
    /\ At(s, "idle")
    /\ left' = [left EXCEPT ![s] = BurstNeeded(batch[s], running)]
    /\ Goto(s, IF running < batch[s] THEN "recount" ELSE "dispatch")
    /\ UNCHANGED <<nameVars, clusterVars, files, base, batch, bursted, arrived, faultVars>>

\* _burst_scale counts the idle pods again: they are the first index.
Recount(s) ==
    /\ At(s, "recount")
    /\ base' = [base EXCEPT ![s] = running]
    /\ Goto(s, "burst")
    /\ UNCHANGED <<nameVars, clusterVars, files, left, batch, bursted, arrived, faultVars>>

Burst(s) ==
    /\ At(s, "burst")
    /\ CreateStandby(s)
    /\ bursted' = IF base[s] \in fresh THEN bursted ELSE bursted + 1
    /\ NextIndex(s, "dispatch")
    /\ UNCHANGED <<clusterVars, files, batch, arrived, faultVars>>

BurstFails(s) ==
    /\ At(s, "burst")
    /\ Fault
    /\ NextIndex(s, "dispatch")
    /\ UNCHANGED <<nameVars, clusterVars, files, batch, bursted, arrived, blindFills>>

\* Mutant of Dispatch: one file of the batch is left where it is.
DispatchLeavesOne(s) ==
    /\ At(s, "dispatch")
    /\ files' = [files EXCEPT ![s] = @ - batch[s] + 1]
    /\ EndPass(s)
    /\ UNCHANGED <<nameVars, clusterVars, bursted, arrived, faultVars>>

\* The handshakes found by the scan become AgentTasks and move to processed/.
Dispatch(s) ==
    /\ At(s, "dispatch")
    /\ files' = [files EXCEPT ![s] = @ - batch[s]]
    /\ EndPass(s)
    /\ UNCHANGED <<nameVars, clusterVars, bursted, arrived, faultVars>>

\* Some of them do not, and are found again by the next scan.
DispatchFails(s) ==
    /\ At(s, "dispatch")
    /\ Fault
    /\ \E n \in 0 .. batch[s] : files' = [files EXCEPT ![s] = @ - n]
    /\ EndPass(s)
    /\ UNCHANGED <<nameVars, clusterVars, bursted, arrived, blindFills>>

\* Mutant of PassAborted: the exception ends the loop.
PassAbortedForGood(s) ==
    /\ ~At(s, "sleep")
    /\ Fault
    /\ Goto(s, "stopped")
    /\ UNCHANGED <<nameVars, clusterVars, files, base, left, batch, bursted, arrived,
                   blindFills>>

\* Another exception ends the pass, or the container dies and is started again.
PassAborted(s) ==
    /\ ~At(s, "sleep")
    /\ Fault
    /\ EndPass(s)
    /\ UNCHANGED <<nameVars, clusterVars, files, bursted, arrived, blindFills>>

SidecarStep(s) ==
    \/ Wake(s) \/ Count(s) \/ Fill(s)
    \/ Scan(s) \/ CountIdle(s) \/ Recount(s) \/ Burst(s) \/ Dispatch(s)

SidecarFault(s) ==
    \/ CountFails(s) \/ FillFails(s) \/ BurstFails(s) \/ DispatchFails(s) \/ PassAborted(s)

Next ==
    \/ Tick \/ PodStarts \/ PodEnds \/ TaskDeleted
    \/ \E s \in Sidecars : FileArrives(s) \/ SidecarStep(s) \/ SidecarFault(s)

Spec == Init /\ [][Next]_vars

\* The loop goes on (main.py catches what a pass raises), and the operator and
\* the scheduler start the pods of standby tasks.
FairSpec ==
    /\ Spec
    /\ \A s \in Sidecars : WF_vars(SidecarStep(s))
    /\ WF_vars(PodStarts)

--------------------------------------------------------------------------------
(* Properties.                                                               *)

Places == {"sleep", "count", "fill", "scan", "idle", "recount", "burst", "dispatch"}

\* The type of every variable; a loop that creates has something to create.
TypeOK ==
    /\ old \in Nat /\ fresh \subseteq Nat /\ IsFiniteSet(fresh)
    /\ running \in Nat /\ ended \in Nat
    /\ running + ended <= StandbyTasks
    /\ files \in [Sidecars -> Nat]
    /\ pc \in [Sidecars -> Places]
    /\ base \in [Sidecars -> Nat]
    /\ left \in [Sidecars -> Nat]
    /\ batch \in [Sidecars -> Nat]
    /\ bursted \in Nat
    /\ arrived \in 0 .. MaxFiles
    /\ deletes \in 0 .. MaxDeletes
    /\ faults \in 0 .. MaxFaults
    /\ blindFills \in 0 .. faults
    /\ \A s \in Sidecars : pc[s] \in {"fill", "recount", "burst"} => left[s] > 0

\* The pool does not grow on its own: sidecars that count at the same moment may
\* each fill the whole pool, and so does one that the list of tasks fails;
\* everything else is the work of bursts.  An aborted or repeated pass adds
\* nothing, because the count includes tasks whose pod does not run yet.
PoolIsBounded ==
    StandbyTasks <= Desired * (Cardinality(Sidecars) + blindFills) + bursted

\* Bursts are paid for by handshakes: every handshake is counted in one burst,
\* and once more for every failure.
BurstsArePaid == bursted <= arrived * (1 + faults)

\* The sidecar does not wait for anything: what is deleted, refused (the name
\* exists) or lost in a failure is created again.
PoolReachesSize == []<>(StandbyTasks >= Desired)

\* A batch is dispatched even when its burst was refused or failed.
BatchIsServed == \A s \in Sidecars : files[s] > 0 ~> files[s] = 0

--------------------------------------------------------------------------------
(* The inductive invariant for one sidecar s.                                *)

\* Standby tasks that ensure_warm_pool is still to create in this pass.
Filling(s) == IF pc[s] = "fill" THEN left[s] ELSE 0

\* Handshakes whose share of a burst is still to come: those in the directory,
\* except that the burst for a batch is paid creation by creation.
Unpaid(s) ==
    CASE pc[s] \in {"recount", "burst"} -> files[s] - batch[s] + left[s]
      [] pc[s] = "dispatch" -> files[s] - batch[s]
      [] OTHER -> files[s]

\* What the proofs rest on: the fill in progress is within the bound of the
\* pool, and the bursts made and still due are within what handshakes pay for.
LedgerInvariant ==
    \A s \in Sidecars :
        /\ batch[s] <= files[s] /\ files[s] <= arrived
        /\ StandbyTasks + Filling(s) <= Desired * (1 + blindFills) + bursted
        /\ bursted + Unpaid(s) <= arrived * (1 + faults)
================================================================================
