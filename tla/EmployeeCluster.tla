----------------------------- MODULE EmployeeCluster -----------------------------
(***************************************************************************)
(* Everything that asks for pods in the employee namespace: the warm pool  *)
(* (WarmPoolManager), the tasks that the sidecar makes of handshakes, the  *)
(* tasks that somebody applies with kubectl, and the executors that run    *)
(* them (LhExecutor), under the quota of that namespace.                   *)
(*                                                                         *)
(* The operator is on_task_created with the outcomes that matter here: it  *)
(* has a pod, the quota refuses it, or the API fails; the latter two are   *)
(* phase Failed and final.  A handshake whose task is created but whose    *)
(* file is not moved is dispatched again, as another task.                 *)
(***************************************************************************)
EXTENDS Naturals, FiniteSets

CONSTANTS
    Sidecar,        \* the sidecar of the planner's pod
    Handshakes,     \* intents that the planner is asked to plan
    Applied,        \* AgentTasks applied with kubectl
    Slots,          \* pods that the quota admits
    Desired,        \* WARM_POOL_SIZE
    MaxIterations,  \* MAX_ITERATIONS
    MaxFaults,      \* bound: failures of the sidecar and its calls
    MaxMishaps      \* bound: failures around pods

\* The n-th task made of handshake h.
Copies(h) == {h} \X (1 .. 1 + MaxFaults)

Tasks == Applied \cup Handshakes \X (1 .. 1 + MaxFaults)

ASSUME ClusterAssumption ==
    /\ IsFiniteSet(Handshakes) /\ IsFiniteSet(Applied)
    /\ Slots \in Nat /\ Desired \in Nat
    /\ MaxFaults \in Nat /\ MaxMishaps \in Nat /\ MaxIterations \in Nat

VARIABLES
    file,        \* file[h]: the handshake file of h
    found,       \* handshakes that the scan of this pass found
    phase,       \* phase[t]: the AgentTask t and the answer to its pod
    podless,     \* standby tasks whose pod was refused or failed
    \* the warm pool's
    old, fresh, running, ended, pc, base, left, batch, bursted, faults, blindFills,
    \* the executors'
    step, command, output, failures, result, escalated, verdict, mishaps

InQueue(h) == file[h] = "pending"

\* The pool's view: handshakes are the files of its sidecar, and nobody deletes
\* standby tasks.
Pool == INSTANCE WarmPoolManager WITH
    Sidecars <- {Sidecar},
    MaxFiles <- Cardinality(Handshakes),
    MaxDeletes <- 0,
    deletes <- 0,
    files <- [s \in {Sidecar} |-> Cardinality({h \in Handshakes : InQueue(h)})],
    arrived <- Cardinality({h \in Handshakes : file[h] # "unplanned"})

\* build_manifest puts no command into the payload of a handshake's task.
Exec == INSTANCE LhExecutor WITH Commanded <- Applied

poolVars == <<old, fresh, running, ended, pc, base, left, batch, bursted, faults,
              blindFills>>
execVars == <<step, command, output, failures, result, escalated, verdict>>
taskVars == <<file, found, phase, podless>>
vars == <<taskVars, poolVars, execVars, mishaps>>

Init ==
    /\ file = [h \in Handshakes |-> "unplanned"]
    /\ found = {}
    /\ phase = [t \in Tasks |-> "none"]
    /\ podless = 0
    /\ Pool!Init
    /\ Exec!Init

Used == running + Cardinality({t \in Tasks : Exec!Active(t)})

SlotFree == Used < Slots

--------------------------------------------------------------------------------
(* Clients.                                                                  *)

\* POST /plan.
Plan(h) ==
    /\ file[h] = "unplanned"
    /\ file' = [file EXCEPT ![h] = "pending"]
    /\ Pool!FileArrives(Sidecar)
    /\ UNCHANGED <<found, phase, podless, execVars, mishaps>>

\* kubectl apply of an AgentTask with a command.
Apply(t) ==
    /\ t \in Applied /\ phase[t] = "none"
    /\ phase' = [phase EXCEPT ![t] = "submitted"]
    /\ UNCHANGED <<file, found, podless, poolVars, execVars, mishaps>>

--------------------------------------------------------------------------------
(* The sidecar.                                                              *)

\* The steps that concern standby tasks alone.
PoolStep ==
    /\ UNCHANGED <<taskVars, execVars, mishaps>>
    /\ \/ Pool!Wake(Sidecar) \/ Pool!Count(Sidecar) \/ Pool!Fill(Sidecar)
       \/ Pool!CountIdle(Sidecar) \/ Pool!Recount(Sidecar) \/ Pool!Burst(Sidecar)

PoolFault ==
    /\ UNCHANGED <<taskVars, execVars, mishaps>>
    /\ \/ Pool!CountFails(Sidecar) \/ Pool!FillFails(Sidecar) \/ Pool!BurstFails(Sidecar)

Scan ==
    /\ found' = {h \in Handshakes : InQueue(h)}
    /\ UNCHANGED <<file, phase, podless, execVars, mishaps>>
    /\ Pool!Scan(Sidecar)

\* The tasks that exist after one was created for each handshake of H.
Submitted(H) ==
    [t \in Tasks |->
        IF \E h \in H : /\ t \in Copies(h) /\ phase[t] = "none"
                        /\ \A c \in Copies(h) : c[2] < t[2] => phase[c] # "none"
        THEN "submitted" ELSE phase[t]]

Dispatch ==
    /\ phase' = Submitted(found)
    /\ file' = [h \in Handshakes |-> IF h \in found THEN "processed" ELSE file[h]]
    /\ found' = {}
    /\ UNCHANGED <<podless, execVars, mishaps>>
    /\ Pool!Dispatch(Sidecar)

\* Some tasks are created, and some of their files are moved.
DispatchFails ==
    /\ \E created \in SUBSET found : \E moved \in SUBSET created :
        /\ phase' = Submitted(created)
        /\ file' = [h \in Handshakes |-> IF h \in moved THEN "processed" ELSE file[h]]
    /\ found' = {}
    /\ UNCHANGED <<podless, execVars, mishaps>>
    /\ Pool!DispatchFails(Sidecar)

PassAborted ==
    /\ found' = {}
    /\ UNCHANGED <<file, phase, podless, execVars, mishaps>>
    /\ Pool!PassAborted(Sidecar)

--------------------------------------------------------------------------------
(* The operator, the quota and the pods.                                     *)

SecondPasses == UNCHANGED <<taskVars, execVars, mishaps>> /\ Pool!Tick

\* A standby task that has no pod yet and may still get one.
StandbyWaits == running + ended + podless < Pool!StandbyTasks

StandbyStarts ==
    /\ StandbyWaits /\ SlotFree
    /\ UNCHANGED <<taskVars, execVars, mishaps>>
    /\ Pool!PodStarts

StandbyRefused ==
    /\ StandbyWaits /\ ~SlotFree
    /\ podless' = podless + 1
    /\ UNCHANGED <<file, found, phase, poolVars, execVars, mishaps>>

StandbyFails ==
    /\ StandbyWaits
    /\ podless' = podless + 1
    /\ Exec!MishapElsewhere
    /\ UNCHANGED <<file, found, phase, poolVars>>

StandbyEnds == UNCHANGED <<taskVars, execVars, mishaps>> /\ Pool!PodEnds

\* on_task_created: the pod is admitted and starts.
Place(t) ==
    /\ phase[t] = "submitted" /\ SlotFree
    /\ phase' = [phase EXCEPT ![t] = "placed"]
    /\ UNCHANGED <<file, found, podless, poolVars>>
    /\ Exec!Start(t)

\* Mutant of Refuse: the creation is refused while there is room.
RefuseEarly(t) ==
    /\ phase[t] = "submitted"
    /\ phase' = [phase EXCEPT ![t] = "refused"]
    /\ UNCHANGED <<file, found, podless, poolVars, execVars, mishaps>>

\* 403, exceeded quota: phase Failed, and nothing tries again.
Refuse(t) ==
    /\ phase[t] = "submitted" /\ ~SlotFree
    /\ phase' = [phase EXCEPT ![t] = "refused"]
    /\ UNCHANGED <<file, found, podless, poolVars, execVars, mishaps>>

\* Another ApiException has the same end.
PlaceFails(t) ==
    /\ phase[t] = "submitted"
    /\ phase' = [phase EXCEPT ![t] = "failed"]
    /\ Exec!MishapElsewhere
    /\ UNCHANGED <<file, found, podless, poolVars>>

\* What happens in and to the pod of t.
ProcessStep(t) == UNCHANGED <<taskVars, poolVars>> /\ Exec!ProcessStep(t)

PodEvent(t) ==
    /\ UNCHANGED <<taskVars, poolVars>>
    /\ \/ Exec!CommandEnds(t) \/ Exec!Review(t) \/ Exec!SpawnFails(t) \/ Exec!Killed(t)

SidecarStep == PoolStep \/ Scan \/ Dispatch
StandbyStep == StandbyStarts \/ StandbyRefused
TaskStep(t) == Place(t) \/ Refuse(t) \/ ProcessStep(t)

Next ==
    \/ \E h \in Handshakes : Plan(h)
    \/ SidecarStep \/ PoolFault \/ DispatchFails \/ PassAborted
    \/ SecondPasses \/ StandbyStep \/ StandbyFails \/ StandbyEnds
    \/ \E t \in Tasks :
        Apply(t) \/ TaskStep(t) \/ PlaceFails(t) \/ PodEvent(t)

Spec == Init /\ [][Next]_vars

\* The loop of the sidecar goes on; kopf calls the creation handler of every
\* task; "sleep 3600" returns; the executor's process is scheduled, and its
\* 300 seconds pass.  Nothing is assumed of commands and clients.
FairSpec ==
    /\ Spec
    /\ WF_vars(SidecarStep)
    /\ WF_vars(StandbyStep)
    /\ WF_vars(StandbyEnds)
    /\ \A t \in Tasks : WF_vars(TaskStep(t))

--------------------------------------------------------------------------------
(* Properties.                                                               *)

\* The type of every variable; tasks without a pod run nothing.
TypeOK ==
    /\ file \in [Handshakes -> {"unplanned", "pending", "processed"}]
    /\ found \subseteq Handshakes
    /\ phase \in [Tasks -> {"none", "submitted", "placed", "refused", "failed"}]
    /\ podless \in Nat
    /\ running + ended + podless <= Pool!StandbyTasks
    /\ Pool!TypeOK
    /\ Exec!TypeOK
    /\ \A t \in Tasks : step[t] # "none" <=> phase[t] = "placed"

Created == {t \in Tasks : phase[t] # "none"}

\* A task is refused only if the pool may have taken its place: with room for the
\* warm pool, its bursts and every task that was created, none is.
RefusalIsShortage ==
    (\E t \in Tasks : phase[t] = "refused") =>
        Slots < Desired * (1 + blindFills) + bursted + Cardinality(Created)

\* LhExecutor's property, for the pods of the cluster: success and approval are
\* those of a command that ended well.
ApprovalIsEarned == Exec!ApprovalIsEarned

\* What ApprovalIsEarned rests on.
ResultInvariant == Exec!ResultInvariant

\* t needs no more pod: it ended, or never gets one.
Over(t) == phase[t] \in {"refused", "failed"} \/ step[t] \in {"succeeded", "failed"}

\* Once clients and failures stop, every plan has left the volume for a task that
\* is over, and so is every other task: nothing waits for ever for room in the
\* quota or for a command that hangs.
WorkComesToRest ==
    <>[](/\ \A h \in Handshakes : ~InQueue(h)
         /\ \A h \in Handshakes : file[h] = "processed" => \E t \in Copies(h) : Over(t)
         /\ \A t \in Created : Over(t))

\* The sidecar "creates AgentTask CRs to dispatch work": without failures, the
\* command of a handshake's task is started.
WorkIsRun == \A h \in Handshakes : InQueue(h) ~> \E t \in Copies(h) : command[t] # "none"
================================================================================
