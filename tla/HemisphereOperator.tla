--------------------------- MODULE HemisphereOperator ---------------------------
(***************************************************************************)
(* The Hemisphere Operator: kopf handlers that give every AgentTask (owner *)
(* namespace) an LH Executor pod (employee namespace).  An owner reference *)
(* cannot cross the namespaces, so what ties a pod to its task is only the *)
(* pod name that kopf stores in the task's status.                         *)
(*                                                                         *)
(* Kopf is external: it adds a finalizer before it calls a handler, calls  *)
(* on_task_created while no last-handled spec is stored, on_task_updated   *)
(* when the spec differs from it and on_task_deleted when the object is    *)
(* being deleted, one handler at a time per object, and afterwards stores  *)
(* the spec and, under status.<handler>, the handler's result.  A handler  *)
(* that raises or whose process dies is called again.  Handlers of two     *)
(* tasks share nothing but pod names and may interleave freely here.       *)
(***************************************************************************)
EXTENDS Naturals, FiniteSets

CONSTANTS
    Tasks,       \* AgentTask objects
    Operators,   \* operator processes (--standalone: they do not coordinate)
    Prefixes,    \* values of task_name[:50]
    Prefix,      \* Prefix[t] is the prefix of t
    Schemas,     \* whether the CRD's schema keeps status.on_task_*: {FALSE} as shipped
    MaxSeconds,  \* bound: seconds that pass (pod names end in HHMMSS)
    MaxEdits,    \* bound: edits of one task's spec
    MaxFaults,   \* bound: failures of API calls and processes
    NoPod,       \* no pod name
    Failed,      \* the result {"phase": "Failed"}, which has no pod name
    NoTask       \* owner of a pod that does not exist

ASSUME TasksAssumption ==
    /\ IsFiniteSet(Tasks)
    /\ IsFiniteSet(Operators)
    /\ NoTask \notin Tasks
    /\ Prefix \in [Tasks -> Prefixes]

ASSUME BoundsAssumption ==
    /\ Schemas \subseteq BOOLEAN
    /\ MaxSeconds \in Nat
    /\ MaxEdits \in Nat
    /\ MaxFaults \in Nat

\* f"lh-{task_name[:50]}-{HHMMSS}"
PodNames == Prefixes \X (0 .. MaxSeconds)

ASSUME NamesAssumption ==
    /\ NoPod \notin PodNames
    /\ Failed \notin PodNames
    /\ NoPod # Failed

TaskTypes == {"standby", "execute"}

Results == PodNames \cup {NoPod, Failed}

VARIABLES
    kept,       \* the schema that is installed
    state,      \* state[t]: the object in the API server
    type,       \* spec.task_type
    edits,      \* edits[t]: changes of the spec
    finalizer,  \* kopf's finalizer is on the object
    handled,    \* task_type of kopf's last-handled spec, or "none"
    created,    \* status.on_task_created: pod name, Failed or NoPod
    owner,      \* owner[n]: the task for which pod n was created
    sleeps,     \* the pods that run "sleep 3600" instead of the executor
    job,        \* job[o][t]: the handler that o runs for t
    second,     \* the clock
    faults,     \* failures so far
    faulted,    \* history: failures that touched t
    activated   \* history: standby-to-active transitions begun for t

objectVars == <<kept, state, type, edits, finalizer, handled, created>>
podVars == <<owner, sleeps>>
faultVars == <<faults, faulted>>
vars == <<kept, state, type, edits, finalizer, handled, created, owner,
          sleeps, job, second, faults, faulted, activated>>

Idle == [step |-> "idle", kind |-> "none", type |-> "none", pod |-> NoPod,
         result |-> NoPod]

Init ==
    /\ kept \in Schemas
    /\ state = [t \in Tasks |-> "absent"]
    /\ type = [t \in Tasks |-> "execute"]
    /\ edits = [t \in Tasks |-> 0]
    /\ finalizer = [t \in Tasks |-> FALSE]
    /\ handled = [t \in Tasks |-> "none"]
    /\ created = [t \in Tasks |-> NoPod]
    /\ owner = [n \in PodNames |-> NoTask]
    /\ sleeps = {}
    /\ job = [o \in Operators |-> [t \in Tasks |-> Idle]]
    /\ second = 0
    /\ faults = 0
    /\ faulted = [t \in Tasks |-> 0]
    /\ activated = [t \in Tasks |-> 0]

Fault(t) ==
    /\ faults < MaxFaults
    /\ faults' = faults + 1
    /\ faulted' = [faulted EXCEPT ![t] = @ + 1]

Pods(t) == {n \in PodNames : owner[n] = t}

NewPod(t) == <<Prefix[t], second>>

--------------------------------------------------------------------------------
(* Clients of the API: the sidecar creates tasks; whoever uses kubectl edits *)
(* and deletes them; pods disappear by eviction or by hand.                  *)

Submit(t, ty) ==
    /\ state[t] = "absent"
    /\ state' = [state EXCEPT ![t] = "live"]
    /\ type' = [type EXCEPT ![t] = ty]
    /\ UNCHANGED <<kept, edits, finalizer, handled, created, podVars, job,
                   second, faultVars, activated>>

Edit(t) ==
    /\ state[t] = "live"
    /\ edits[t] < MaxEdits
    /\ edits' = [edits EXCEPT ![t] = @ + 1]
    /\ type' = [type EXCEPT ![t] = IF @ = "standby" THEN "execute" ELSE "standby"]
    /\ UNCHANGED <<kept, state, finalizer, handled, created, podVars, job,
                   second, faultVars, activated>>

\* The object stays until kopf takes its finalizer off.
Delete(t) ==
    /\ state[t] = "live"
    /\ state' = [state EXCEPT ![t] = IF finalizer[t] THEN "deleting" ELSE "gone"]
    /\ UNCHANGED <<kept, type, edits, finalizer, handled, created, podVars, job,
                   second, faultVars, activated>>

PodVanishes(n) ==
    /\ owner[n] # NoTask
    /\ owner' = [owner EXCEPT ![n] = NoTask]
    /\ sleeps' = sleeps \ {n}
    /\ UNCHANGED <<objectVars, job, second, faultVars, activated>>

Tick ==
    /\ second < MaxSeconds
    /\ second' = second + 1
    /\ UNCHANGED <<objectVars, podVars, job, faultVars, activated>>

--------------------------------------------------------------------------------
(* Operator o and task t.                                                   *)

Step(o, t, s) == job[o][t].step = s

Become(o, t, j) == job' = [job EXCEPT ![o][t] = j]

\* kopf puts its finalizer on before the first handler.
AddFinalizer(o, t) ==
    /\ Step(o, t, "idle")
    /\ state[t] = "live"
    /\ ~finalizer[t]
    /\ finalizer' = [finalizer EXCEPT ![t] = TRUE]
    /\ UNCHANGED <<kept, state, type, edits, handled, created, podVars, job,
                   second, faultVars, activated>>

\* on_task_created is called with the spec as it is now.
StartCreate(o, t) ==
    /\ Step(o, t, "idle")
    /\ state[t] = "live"
    /\ finalizer[t]
    /\ handled[t] = "none"
    /\ Become(o, t, [Idle EXCEPT !.step = "spawn", !.kind = "create",
                                 !.type = type[t]])
    /\ UNCHANGED <<objectVars, podVars, second, faultVars, activated>>

\* on_task_updated acts when the type left "standby" and on_task_created stored
\* a pod name; otherwise it returns None.
Activates(t) ==
    /\ handled[t] = "standby"
    /\ type[t] # "standby"
    /\ created[t] \in PodNames

\* Mutant of StartUpdate: the pod name is required, as by ["pod_name"].
StartUpdateNeedsPod(o, t) ==
    /\ Step(o, t, "idle")
    /\ state[t] = "live"
    /\ finalizer[t]
    /\ handled[t] \notin {"none", type[t]}
    /\ created[t] \in PodNames
    /\ Become(o, t, [Idle EXCEPT
           !.step = IF Activates(t) THEN "delete_old" ELSE "patch",
           !.kind = "update", !.type = type[t], !.pod = created[t]])
    /\ activated' = IF Activates(t) THEN [activated EXCEPT ![t] = @ + 1]
                                   ELSE activated
    /\ UNCHANGED <<objectVars, podVars, second, faultVars>>

StartUpdate(o, t) ==
    /\ Step(o, t, "idle")
    /\ state[t] = "live"
    /\ finalizer[t]
    /\ handled[t] \notin {"none", type[t]}
    /\ Become(o, t, [Idle EXCEPT
           !.step = IF Activates(t) THEN "delete_old" ELSE "patch",
           !.kind = "update", !.type = type[t], !.pod = created[t]])
    /\ activated' = IF Activates(t) THEN [activated EXCEPT ![t] = @ + 1]
                                   ELSE activated
    /\ UNCHANGED <<objectVars, podVars, second, faultVars>>

\* Mutant of StartDelete: the pod name is required.
StartDeleteNeedsPod(o, t) ==
    /\ Step(o, t, "idle")
    /\ state[t] = "deleting"
    /\ finalizer[t]
    /\ created[t] \in PodNames
    /\ Become(o, t, [Idle EXCEPT !.step = "cleanup", !.kind = "delete",
                                 !.pod = created[t]])
    /\ UNCHANGED <<objectVars, podVars, second, faultVars, activated>>

\* on_task_deleted looks for the pod under status.on_task_created only.
StartDelete(o, t) ==
    /\ Step(o, t, "idle")
    /\ state[t] = "deleting"
    /\ finalizer[t]
    /\ Become(o, t, [Idle EXCEPT
           !.step = IF created[t] \in PodNames THEN "cleanup" ELSE "release",
           !.kind = "delete", !.pod = created[t]])
    /\ UNCHANGED <<objectVars, podVars, second, faultVars, activated>>

\* delete_namespaced_pod removes the pod, or answers 404.
DeletePod(n) ==
    /\ owner' = [owner EXCEPT ![n] = NoTask]
    /\ sleeps' = sleeps \ {n}

\* Mutant of DeleteOld: the standby pod is left running.
DeleteOldSkipped(o, t) ==
    /\ Step(o, t, "delete_old")
    /\ Become(o, t, [job[o][t] EXCEPT !.step = "spawn"])
    /\ UNCHANGED <<objectVars, podVars, second, faultVars, activated>>

DeleteOld(o, t) ==
    /\ Step(o, t, "delete_old")
    /\ DeletePod(job[o][t].pod)
    /\ Become(o, t, [job[o][t] EXCEPT !.step = "spawn"])
    /\ UNCHANGED <<objectVars, second, faultVars, activated>>

\* contextlib.suppress(ApiException): the old pod stays, a new one is made.
DeleteOldFails(o, t) ==
    /\ Step(o, t, "delete_old")
    /\ Fault(t)
    /\ Become(o, t, [job[o][t] EXCEPT !.step = "spawn"])
    /\ UNCHANGED <<objectVars, podVars, second, activated>>

\* create_namespaced_pod stores the pod.
StorePod(o, t) ==
    /\ owner[NewPod(t)] = NoTask
    /\ owner' = [owner EXCEPT ![NewPod(t)] = t]
    /\ sleeps' = IF job[o][t].type = "standby" THEN sleeps \cup {NewPod(t)}
                                              ELSE sleeps

\* Mutant of Spawn: the handler returns the name of the task.
SpawnReturnsTask(o, t) ==
    /\ Step(o, t, "spawn")
    /\ StorePod(o, t)
    /\ Become(o, t, [job[o][t] EXCEPT !.step = "patch", !.result = t])
    /\ UNCHANGED <<objectVars, second, faultVars, activated>>

Spawn(o, t) ==
    /\ Step(o, t, "spawn")
    /\ StorePod(o, t)
    /\ Become(o, t, [job[o][t] EXCEPT !.step = "patch", !.result = NewPod(t)])
    /\ UNCHANGED <<objectVars, second, faultVars, activated>>

\* ApiException: the name exists (409), or the API refuses (quota, 422, 5xx).
\* The handler returns phase Failed, which kopf takes for success.
SpawnRefused(o, t) ==
    /\ Step(o, t, "spawn")
    /\ IF owner[NewPod(t)] = NoTask THEN Fault(t) ELSE UNCHANGED faultVars
    /\ Become(o, t, [job[o][t] EXCEPT !.step = "patch", !.result = Failed])
    /\ UNCHANGED <<objectVars, podVars, second, activated>>

\* The pod is stored but the call fails, with an ApiException (phase Failed) or
\* with another exception (kopf calls the handler again later).
SpawnReplyLost(o, t) ==
    /\ Step(o, t, "spawn")
    /\ Fault(t)
    /\ StorePod(o, t)
    /\ \/ Become(o, t, [job[o][t] EXCEPT !.step = "patch", !.result = Failed])
       \/ Become(o, t, Idle)
    /\ UNCHANGED <<objectVars, second, activated>>

\* kopf stores the last-handled spec and the result, if the object still exists;
\* the API server prunes status fields that the CRD does not know.  That of
\* on_task_updated would be stored under its own name, which no handler reads.
Patch(o, t) ==
    /\ Step(o, t, "patch")
    /\ LET j == job[o][t] IN
         IF state[t] = "gone"
         THEN UNCHANGED <<handled, created>>
         ELSE /\ handled' = [handled EXCEPT ![t] = j.type]
              /\ created' = IF kept /\ j.kind = "create"
                            THEN [created EXCEPT ![t] = j.result] ELSE created
    /\ Become(o, t, Idle)
    /\ UNCHANGED <<kept, state, type, edits, finalizer, podVars, second, faultVars,
                   activated>>

Cleanup(o, t) ==
    /\ Step(o, t, "cleanup")
    /\ DeletePod(job[o][t].pod)
    /\ Become(o, t, [job[o][t] EXCEPT !.step = "release"])
    /\ UNCHANGED <<objectVars, second, faultVars, activated>>

\* An ApiException other than 404 is logged, and the handler succeeds.
CleanupFails(o, t) ==
    /\ Step(o, t, "cleanup")
    /\ Fault(t)
    /\ Become(o, t, [job[o][t] EXCEPT !.step = "release"])
    /\ UNCHANGED <<objectVars, podVars, second, activated>>

\* on_task_deleted returned: kopf takes the finalizer off and the object goes.
Release(o, t) ==
    /\ Step(o, t, "release")
    /\ state' = [state EXCEPT ![t] = "gone"]
    /\ finalizer' = [finalizer EXCEPT ![t] = FALSE]
    /\ Become(o, t, Idle)
    /\ UNCHANGED <<kept, type, edits, handled, created, podVars, second,
                   faultVars, activated>>

\* A handler raises something else (its configuration does not load, the
\* connection breaks), or the operator dies: what the handler did stays done,
\* nothing is stored, and kopf calls it again.
Interrupted(o, t) ==
    /\ ~Step(o, t, "idle")
    /\ Fault(t)
    /\ Become(o, t, Idle)
    /\ UNCHANGED <<objectVars, podVars, second, activated>>

--------------------------------------------------------------------------------

Client ==
    \/ \E t \in Tasks, ty \in TaskTypes : Submit(t, ty)
    \/ \E t \in Tasks : Edit(t) \/ Delete(t)
    \/ \E n \in PodNames : PodVanishes(n)

HandlerStep(o, t) ==
    \/ AddFinalizer(o, t)
    \/ StartCreate(o, t) \/ StartUpdate(o, t) \/ StartDelete(o, t)
    \/ DeleteOld(o, t) \/ Spawn(o, t) \/ SpawnRefused(o, t)
    \/ Patch(o, t) \/ Cleanup(o, t) \/ Release(o, t)

HandlerFault(o, t) ==
    \/ DeleteOldFails(o, t) \/ SpawnReplyLost(o, t) \/ CleanupFails(o, t)
    \/ Interrupted(o, t)

Next ==
    \/ Client
    \/ Tick
    \/ \E o \in Operators, t \in Tasks : HandlerStep(o, t) \/ HandlerFault(o, t)

Spec == Init /\ [][Next]_vars

\* An operator works through the events of every task.
FairSpec ==
    Spec /\ \A o \in Operators, t \in Tasks : WF_vars(HandlerStep(o, t))

--------------------------------------------------------------------------------
(* Properties.                                                              *)

Jobs ==
    [step : {"idle", "delete_old", "spawn", "patch", "cleanup", "release"},
     kind : {"none", "create", "update", "delete"},
     type : TaskTypes \cup {"none"},
     pod : Results,
     result : Results]

\* The type of every variable.
TypeOK ==
    /\ kept \in Schemas
    /\ state \in [Tasks -> {"absent", "live", "deleting", "gone"}]
    /\ type \in [Tasks -> TaskTypes]
    /\ edits \in [Tasks -> 0 .. MaxEdits]
    /\ finalizer \in [Tasks -> BOOLEAN]
    /\ handled \in [Tasks -> TaskTypes \cup {"none"}]
    /\ created \in [Tasks -> Results]
    /\ owner \in [PodNames -> Tasks \cup {NoTask}]
    /\ sleeps \subseteq PodNames
    /\ job \in [Operators -> [Tasks -> Jobs]]
    /\ second \in 0 .. MaxSeconds
    /\ faults \in 0 .. MaxFaults
    /\ faulted \in [Tasks -> Nat]
    /\ activated \in [Tasks -> Nat]

\* Every pod that a task has besides its first has a cause: an operator too many,
\* which handles the same events; a failure; or another activation after the first,
\* which looks for the pod of the creation again.  The first activation is none: it
\* deletes the standby pod before it spawns.
ExtraPodsHaveCauses ==
    \A t \in Tasks :
        Cardinality(Pods(t)) <= Cardinality(Operators) + faulted[t]
                                + (IF activated[t] = 0 THEN 0 ELSE activated[t] - 1)

\* Every spec of a task is handled, or it changes or the task is deleted first.
EverySpecHandled ==
    \A t \in Tasks, ty \in TaskTypes :
        (state[t] = "live" /\ type[t] = ty)
            ~> (state[t] # "live" \/ type[t] # ty \/ handled[t] = ty)

\* A deleted task does not hang on its finalizer.
DeletedTaskGoes ==
    \A t \in Tasks : state[t] = "deleting" ~> state[t] = "gone"

\* What the comment in _build_pod_manifest promises ("Cleanup is handled in
\* on_task_deleted"): no failure, no pod left behind, activated or not.
CleanupIsHandled ==
    \A t \in Tasks : state[t] = "gone" /\ faulted[t] = 0 => Pods(t) = {}

--------------------------------------------------------------------------------
(* The inductive invariant.                                                 *)

\* Operators that may still create a pod for t, without being called for it anew.
Starters(t) ==
    {o \in Operators :
        \/ Step(o, t, "spawn") /\ job[o][t].kind = "create"
        \/ Step(o, t, "idle") /\ handled[t] = "none" /\ state[t] \in {"absent", "live"}}

\* Operators that are about to create the pod of an activation.
Activating(t) ==
    {o \in Operators :
        Step(o, t, "delete_old") \/ (Step(o, t, "spawn") /\ job[o][t].kind = "update")}

\* The pods still to come; the pods P with them; and what those may be due to.
Coming(t) == Cardinality(Starters(t)) + Cardinality(Activating(t))

Load(t, P) == Cardinality(P) + Coming(t)

Causes(t) == Cardinality(Operators) + faulted[t] + activated[t]

\* The pod that on_task_updated would delete: its name is in the status, or in a
\* result on its way there.
Named(t) ==
    ({created[t]} \cup {job[o][t].result : o \in {x \in Operators : Step(x, t, "patch")}})
        \cap PodNames

\* A handler deletes the old pod to activate a task, spawns to create or activate
\* it, and does so for a type it has read.
JobFits(o, t) ==
    LET j == job[o][t] IN
    /\ j.step = "delete_old" => j.kind = "update"
    /\ j.step = "spawn" => j.kind \in {"create", "update"}
    /\ j.step \in {"delete_old", "spawn", "patch"} => j.type # "none"

\* One cause is left over once the pod is gone that the first activation is to
\* delete: before that begins, while it is about to, and ever after.
SpareCause(t) ==
    IF activated[t] = 0
    THEN /\ Activating(t) = {}
         /\ \A p \in Named(t) : Load(t, Pods(t) \ {p}) < Causes(t)
    ELSE \/ Load(t, Pods(t)) < Causes(t)
         \/ \E o \in Operators :
                Step(o, t, "delete_old") /\ Load(t, Pods(t) \ {job[o][t].pod}) < Causes(t)

\* What ExtraPodsHaveCauses rests on, for any number of operators and any schema.
CausesInvariant ==
    \A t \in Tasks :
        /\ IsFiniteSet(Pods(t)) /\ Load(t, Pods(t)) <= Causes(t)
        /\ SpareCause(t)
        /\ \A o \in Operators : JobFits(o, t)
================================================================================
