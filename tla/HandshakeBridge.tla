---------------------------- MODULE HandshakeBridge ----------------------------
(***************************************************************************)
(* The hand-over of work from the RH Planner to the cluster.  Two          *)
(* containers of one pod share a volume: the planner answers POST /plan by *)
(* writing pending/<intent_id>.json, and the scaling sidecar polls that    *)
(* directory, creates one AgentTask per file through the Kubernetes API    *)
(* and moves the file to processed/.  Nothing locks the volume, so the two *)
(* processes interleave between any two file operations and API calls.     *)
(*                                                                         *)
(* A file's content is the number of the plan it holds (the n-th plan made *)
(* for its intent), Torn between the truncating open and the end of the    *)
(* write, or NoFile.  Failures of the environment (API errors, lost        *)
(* replies, I/O errors, container crashes) draw on the budget MaxFaults.   *)
(***************************************************************************)
EXTENDS Naturals, Sequences, FiniteSets

CONSTANTS
    Intents,      \* the intent_ids that clients plan
    Names,        \* the sanitised forms of those ids
    SafeName,     \* SafeName[i] is _sanitize_k8s_name of intent i
    Unwritable,   \* intents whose id is no file name: the open fails
    Rejected,     \* intents whose manifest the API server refuses (422)
    MaxPlans,     \* bound: plans made for one intent
    MaxFaults,    \* bound: failures of the environment
    NoFile,       \* content of a path that does not exist
    Torn,         \* content of a file that is being written, or was cut off
    NoIntent      \* the planner is not writing

ASSUME IntentsAssumption ==
    /\ IsFiniteSet(Intents)
    /\ SafeName \in [Intents -> Names]
    /\ Unwritable \subseteq Intents
    /\ Rejected \subseteq Intents
    /\ NoIntent \notin Intents

ASSUME BoundsAssumption ==
    /\ MaxPlans \in Nat \ {0}
    /\ MaxFaults \in Nat

ASSUME ContentsAssumption ==
    /\ NoFile \notin Nat
    /\ Torn \notin Nat
    /\ NoFile # Torn

Versions == 1 .. MaxPlans

Contents == Versions \cup {NoFile, Torn}

VARIABLES
    plans,      \* plans[i]: POST /plan requests answered or running for i
    queued,     \* history: the versions of i completely written to the volume
    pending,    \* pending[i]: content of pending/<i>.json
    processed,  \* processed[i]: content of processed/<i>.json
    byAge,      \* the intents with a pending file, oldest modification first
    writer,     \* the intent whose file the planner holds open, or NoIntent
    writerAt,   \* the directory in which the open file now is
    tasks,      \* tasks[i][v]: AgentTasks created from version v of intent i
    pc,         \* where the sidecar's loop stands
    todo,       \* files of the current pass not yet dealt with
    held,       \* the version that parse() returned for Head(todo)
    taken,      \* safe names that have an AgentTask of the current second
    faults      \* failures so far

plannerVars == <<plans, queued, writer>>
sidecarVars == <<pc, todo, held>>
vars == <<plans, queued, pending, processed, byAge, writer, writerAt, tasks,
          pc, todo, held, taken, faults>>

Init ==
    /\ plans = [i \in Intents |-> 0]
    /\ queued = [i \in Intents |-> {}]
    /\ pending = [i \in Intents |-> NoFile]
    /\ processed = [i \in Intents |-> NoFile]
    /\ byAge = <<>>
    /\ writer = NoIntent
    /\ writerAt = "pending"
    /\ tasks = [i \in Intents |-> [v \in Versions |-> 0]]
    /\ pc = "scan"
    /\ todo = <<>>
    /\ held = NoFile
    /\ taken = {}
    /\ faults = 0

Fault == faults < MaxFaults /\ faults' = faults + 1

\* The directory listing without i, and with i as its newest file.
At(i) == {k \in 1 .. Len(byAge) : byAge[k] = i}

Without(i) ==
    IF At(i) = {}
    THEN byAge
    ELSE LET k == CHOOSE k \in At(i) : TRUE
         IN  SubSeq(byAge, 1, k - 1) \o SubSeq(byAge, k + 1, Len(byAge))

Touched(i) == Append(Without(i), i)

--------------------------------------------------------------------------------
(* The planner.  Its handlers never await, so it writes one file at a time. *)

\* Mutant of PlanBegin: readers see the new text before it is complete.
PlanBeginVisible(i) ==
    /\ writer = NoIntent
    /\ plans[i] < MaxPlans
    /\ i \notin Unwritable
    /\ plans' = [plans EXCEPT ![i] = @ + 1]
    /\ pending' = [pending EXCEPT ![i] = plans'[i]]
    /\ byAge' = Touched(i)
    /\ writer' = i
    /\ writerAt' = "pending"
    /\ UNCHANGED <<queued, processed, tasks, sidecarVars, taken, faults>>

\* write_text opens the path for writing, which truncates what is there.
PlanBegin(i) ==
    /\ writer = NoIntent
    /\ plans[i] < MaxPlans
    /\ i \notin Unwritable
    /\ plans' = [plans EXCEPT ![i] = @ + 1]
    /\ pending' = [pending EXCEPT ![i] = Torn]
    /\ byAge' = Touched(i)
    /\ writer' = i
    /\ writerAt' = "pending"
    /\ UNCHANGED <<queued, processed, tasks, sidecarVars, taken, faults>>

\* mkdir or open raises OSError: logged and swallowed, the request is still
\* answered with a plan, and no file was touched.
PlanNotQueued(i) ==
    /\ writer = NoIntent
    /\ plans[i] < MaxPlans
    /\ IF i \in Unwritable THEN UNCHANGED faults ELSE Fault
    /\ plans' = [plans EXCEPT ![i] = @ + 1]
    /\ UNCHANGED <<queued, pending, processed, byAge, writer, writerAt, tasks,
                   sidecarVars, taken>>

\* The text reaches the open file, wherever the sidecar has moved it meanwhile.
PlanEnd ==
    /\ writer # NoIntent
    /\ queued' = [queued EXCEPT ![writer] = @ \cup {plans[writer]}]
    /\ IF writerAt = "pending"
       THEN /\ pending' = [pending EXCEPT ![writer] = plans[writer]]
            /\ byAge' = Touched(writer)
            /\ UNCHANGED processed
       ELSE /\ processed' = [processed EXCEPT ![writer] = plans[writer]]
            /\ UNCHANGED <<pending, byAge>>
    /\ writer' = NoIntent
    /\ UNCHANGED <<plans, writerAt, tasks, sidecarVars, taken, faults>>

\* The write raises OSError, or the planner's container dies during it.  The
\* file stays behind as it is.
PlanCutOff ==
    /\ writer # NoIntent
    /\ Fault
    /\ writer' = NoIntent
    /\ UNCHANGED <<plans, queued, pending, processed, byAge, writerAt, tasks,
                   sidecarVars, taken>>

--------------------------------------------------------------------------------
(* The sidecar: one process, sequential, restarted by the kubelet.          *)

\* The next file of the pass, or the end of the pass.
NextFile ==
    /\ todo' = Tail(todo)
    /\ held' = NoFile
    /\ pc' = IF Len(todo) = 1 THEN "sleep" ELSE "parse"

\* asyncio.sleep(POLL_INTERVAL) is over.  The interval is at least one second,
\* so no AgentTask bears the current HHMMSS.
Wake ==
    /\ pc = "sleep"
    /\ pc' = "scan"
    /\ taken' = {}
    /\ UNCHANGED <<plannerVars, pending, processed, byAge, writerAt, tasks,
                   todo, held, faults>>

\* ensure_warm_pool returned; scan() lists pending/ by modification time.
Scan ==
    /\ pc = "scan"
    /\ todo' = byAge
    /\ pc' = IF byAge = <<>> THEN "sleep" ELSE "capacity"
    /\ UNCHANGED <<plannerVars, pending, processed, byAge, writerAt, tasks,
                   held, taken, faults>>

\* count_idle_pods and _burst_scale returned.
Capacity ==
    /\ pc = "capacity"
    /\ pc' = "parse"
    /\ UNCHANGED <<plannerVars, pending, processed, byAge, writerAt, tasks,
                   todo, held, taken, faults>>

\* Mutant of AbortPass: the loop does not catch the exception and ends.
AbortPassEndsLoop ==
    /\ pc \in {"scan", "capacity"}
    /\ Fault
    /\ pc' = "dead"
    /\ UNCHANGED <<plannerVars, pending, processed, byAge, writerAt, tasks,
                   todo, held, taken>>

\* An exception leaves ensure_warm_pool, count_idle_pods or _burst_scale (the
\* pod listing does not catch ApiException): the loop logs it and sleeps.
AbortPass ==
    /\ pc \in {"scan", "capacity"}
    /\ Fault
    /\ pc' = "sleep"
    /\ todo' = <<>>
    /\ UNCHANGED <<plannerVars, pending, processed, byAge, writerAt, tasks,
                   held, taken>>

\* Mutant of Parse: whatever the file holds is taken for a handshake.
ParseAnything ==
    /\ pc = "parse"
    /\ held' = pending[Head(todo)]
    /\ pc' = "create"
    /\ UNCHANGED <<plannerVars, pending, processed, byAge, writerAt, tasks,
                   todo, taken, faults>>

\* Mutant of Parse: a plan that has an AgentTask is skipped, file and all.
ParseSkipsDispatched ==
    /\ pc = "parse"
    /\ pending[Head(todo)] \in Versions
    /\ IF tasks[Head(todo)][pending[Head(todo)]] > 0
       THEN NextFile
       ELSE held' = pending[Head(todo)] /\ pc' = "create" /\ UNCHANGED todo
    /\ UNCHANGED <<plannerVars, pending, processed, byAge, writerAt, tasks,
                   taken, faults>>

\* parse() reads the file as it is now, and build_manifest names the task.
Parse ==
    /\ pc = "parse"
    /\ pending[Head(todo)] \in Versions
    /\ held' = pending[Head(todo)]
    /\ pc' = "create"
    /\ UNCHANGED <<plannerVars, pending, processed, byAge, writerAt, tasks,
                   todo, taken, faults>>

\* Mutant of ParseFails: a file that does not parse is moved out of the way.
ParseFailsMoves ==
    /\ pc = "parse"
    /\ pending[Head(todo)] = Torn
    /\ processed' = [processed EXCEPT ![Head(todo)] = Torn]
    /\ pending' = [pending EXCEPT ![Head(todo)] = NoFile]
    /\ byAge' = Without(Head(todo))
    /\ writerAt' = IF writer = Head(todo) THEN "processed" ELSE writerAt
    /\ NextFile
    /\ UNCHANGED <<plannerVars, tasks, taken, faults>>

\* json.loads fails on a torn file, or the read fails: on to the next file.
ParseFails ==
    /\ pc = "parse"
    /\ IF pending[Head(todo)] \in Versions THEN Fault ELSE UNCHANGED faults
    /\ NextFile
    /\ UNCHANGED <<plannerVars, pending, processed, byAge, writerAt, tasks,
                   taken>>

\* The API server stores the AgentTask at-<safe name>-<HHMMSS>.
Accepts(i) == i \notin Rejected /\ SafeName[i] \notin taken

Store(i) ==
    /\ tasks' = [tasks EXCEPT ![i][held] = @ + 1]
    /\ taken' = taken \cup {SafeName[i]}

Create ==
    /\ pc = "create"
    /\ Accepts(Head(todo))
    /\ Store(Head(todo))
    /\ pc' = "move"
    /\ UNCHANGED <<plannerVars, pending, processed, byAge, writerAt, todo,
                   held, faults>>

\* Mutant of CreateFails: the file is moved although the create failed.
CreateFailsMoves ==
    /\ pc = "create"
    /\ IF Accepts(Head(todo)) THEN Fault ELSE UNCHANGED faults
    /\ pc' = "move"
    /\ UNCHANGED <<plannerVars, pending, processed, byAge, writerAt, tasks,
                   todo, held, taken>>

\* create() raises: the name is taken (409), the manifest is invalid (422), or
\* the call failed on the way.  The file stays pending for the next pass.
CreateFails ==
    /\ pc = "create"
    /\ IF Accepts(Head(todo)) THEN Fault ELSE UNCHANGED faults
    /\ NextFile
    /\ UNCHANGED <<plannerVars, pending, processed, byAge, writerAt, tasks,
                   taken>>

\* The task is stored but the reply is lost: the sidecar sees an exception.
CreateReplyLost ==
    /\ pc = "create"
    /\ Accepts(Head(todo))
    /\ Fault
    /\ Store(Head(todo))
    /\ NextFile
    /\ UNCHANGED <<plannerVars, pending, processed, byAge, writerAt>>

\* Mutant of Move: the file is copied, not moved.
MoveCopies ==
    /\ pc = "move"
    /\ processed' = [processed EXCEPT ![Head(todo)] = pending[Head(todo)]]
    /\ NextFile
    /\ UNCHANGED <<plannerVars, pending, byAge, writerAt, tasks, taken, faults>>

\* move_to_processed renames whatever is under the path now, over an older
\* file of that name; a planner that has the file open keeps it open.
Move ==
    /\ pc = "move"
    /\ LET i == Head(todo) IN
         /\ processed' = [processed EXCEPT ![i] = pending[i]]
         /\ pending' = [pending EXCEPT ![i] = NoFile]
         /\ byAge' = Without(i)
         /\ writerAt' = IF writer = i THEN "processed" ELSE writerAt
    /\ NextFile
    /\ UNCHANGED <<plannerVars, tasks, taken, faults>>

\* The rename raises OSError.
MoveFails ==
    /\ pc = "move"
    /\ Fault
    /\ NextFile
    /\ UNCHANGED <<plannerVars, pending, processed, byAge, writerAt, tasks,
                   taken>>

\* Mutant of Crash: on restart the processed files are queued again.
CrashRequeues ==
    /\ Fault
    /\ pc # "scan"
    /\ pc' = "scan"
    /\ todo' = <<>>
    /\ held' = NoFile
    /\ pending' = [i \in Intents |->
          IF pending[i] # NoFile /\ processed[i] # NoFile THEN processed[i]
                                                         ELSE pending[i]]
    /\ UNCHANGED <<plannerVars, processed, byAge, writerAt, tasks, taken>>

\* The container dies and restarts with the volume as it was.
Crash ==
    /\ Fault
    /\ pc # "scan"
    /\ pc' = "scan"
    /\ todo' = <<>>
    /\ held' = NoFile
    /\ UNCHANGED <<plannerVars, pending, processed, byAge, writerAt, tasks,
                   taken>>

\* The clock passes a second during a pass.  A name is fixed when the manifest
\* is built, so a tick between Parse and Create is one right after Create.
Tick ==
    /\ pc \in {"scan", "capacity", "parse"}
    /\ taken # {}
    /\ taken' = {}
    /\ UNCHANGED <<plannerVars, pending, processed, byAge, writerAt, tasks,
                   sidecarVars, faults>>

--------------------------------------------------------------------------------

PlannerNext ==
    \/ \E i \in Intents : PlanBegin(i) \/ PlanNotQueued(i)
    \/ PlanEnd
    \/ PlanCutOff

\* What the loop does when nothing fails around it, and when something does.
SidecarStep ==
    \/ Wake \/ Scan \/ Capacity \/ Parse \/ Create \/ Move
    \/ ParseFails \/ CreateFails

SidecarFault == AbortPass \/ CreateReplyLost \/ MoveFails \/ Crash

Next == PlannerNext \/ SidecarStep \/ SidecarFault \/ Tick

\* The loop of the sidecar never blocks; nothing is asked of the planner or
\* the clock.  Faults are finite by their bound.
Fairness == WF_vars(SidecarStep)

Spec == Init /\ [][Next]_vars

FairSpec == Spec /\ Fairness

--------------------------------------------------------------------------------
(* Properties.                                                              *)

\* The type of every variable.
TypeOK ==
    /\ plans \in [Intents -> 0 .. MaxPlans]
    /\ queued \in [Intents -> SUBSET Versions]
    /\ pending \in [Intents -> Contents]
    /\ processed \in [Intents -> Contents]
    /\ byAge \in Seq(Intents)
    /\ writer \in Intents \cup {NoIntent}
    /\ writerAt \in {"pending", "processed"}
    /\ tasks \in [Intents -> [Versions -> Nat]]
    /\ pc \in {"sleep", "scan", "capacity", "parse", "create", "move"}
    /\ todo \in Seq(Intents)
    /\ held \in Versions \cup {NoFile}
    /\ taken \subseteq Names
    /\ faults \in 0 .. MaxFaults

\* An intent planned once is never lost between the two directories: once its
\* file is complete it is in exactly one of them, and it is in processed/ only
\* after an AgentTask was created from it (create before move in
\* process_pending, whatever fails between the two).
PlannedOnceIsKept ==
    \A i \in Intents : plans[i] = 1 =>
        /\ 1 \in queued[i] => (pending[i] = 1 <=> processed[i] # 1)
        /\ processed[i] # NoFile => tasks[i][1] > 0

\* Even when an intent is planned again while the sidecar works on it, its file
\* reaches processed/ only after some plan of it became an AgentTask.
ProcessedIntentRan ==
    \A i \in Intents :
        processed[i] # NoFile => \E v \in Versions : tasks[i][v] > 0

\* Every AgentTask carries a plan that was written completely: the sidecar
\* never dispatches from a file it saw half written.
TasksCarryWholePlans ==
    \A i \in Intents, v \in Versions : tasks[i][v] > 0 => v \in queued[i]

\* A plan becomes a second AgentTask only through a failure: a lost reply, a
\* crash or a failed rename between create and move.  The dispatch loop itself
\* never repeats one, though it retries every file that is still pending.
DuplicatesNeedFaults ==
    \A i \in Intents, v \in Versions : tasks[i][v] <= 1 + faults

\* Once a plan of an intent has been dispatched, no older plan of it is.
NeverDispatchOlder ==
    [][\A i \in Intents, v, w \in Versions :
         tasks'[i][v] > tasks[i][v] /\ w > v => tasks[i][w] = 0]_vars

\* A completely written plan of an intent that is not planned again becomes an
\* AgentTask, however its first attempts fail, if the API accepts its manifest.
EveryQueuedPlanDispatched ==
    \A i \in Intents \ Rejected :
        1 \in queued[i] ~> (tasks[i][1] > 0 \/ plans[i] > 1)

\* ... and its file leaves pending/, so that it is not dispatched for ever.
EveryQueuedPlanRetired ==
    \A i \in Intents \ Rejected :
        1 \in queued[i] ~> (processed[i] = 1 \/ plans[i] > 1)

\* What the sidecar's documentation says of a file it has processed: an AgentTask
\* was created to dispatch the plan it holds.  The code moves whatever is under
\* the path after create(), so this needs intents that are planned once.
ProcessedPlanRan ==
    \A i \in Intents :
        processed[i] \in Versions => tasks[i][processed[i]] > 0

--------------------------------------------------------------------------------
(* The inductive invariant behind the safety properties.                    *)

\* Queued versions are plans that were made; a complete file was queued.
FilesAreQueued ==
    \A i \in Intents :
        /\ \A v \in queued[i] : v <= plans[i]
        /\ pending[i] \in Versions => pending[i] \in queued[i]
        /\ processed[i] \in Versions => processed[i] \in queued[i]
        /\ plans[i] = 0 => pending[i] = NoFile

\* The file the planner writes is torn, where it is, and its plan not queued.
WriterHoldsTornFile ==
    writer # NoIntent =>
        /\ plans[writer] > 0
        /\ plans[writer] \notin queued[writer]
        /\ writerAt = "pending" => pending[writer] = Torn
        /\ writerAt = "processed" =>
              pending[writer] = NoFile /\ processed[writer] = Torn

\* What the sidecar carries from one step of a file to the next.
SidecarCarries ==
    /\ pc \in {"capacity", "parse", "create", "move"} => todo # <<>>
    /\ pc \in {"create", "move"} =>
          /\ held \in queued[Head(todo)]
          /\ pending[Head(todo)] # NoFile
          /\ pending[Head(todo)] \in Versions => held <= pending[Head(todo)]
    /\ pc = "move" => tasks[Head(todo)][held] > 0

\* An intent planned once, with its file complete, has one file.
OneFile ==
    \A i \in Intents : plans[i] = 1 /\ 1 \in queued[i] =>
        \/ pending[i] = 1 /\ processed[i] = NoFile
        \/ pending[i] = NoFile /\ processed[i] = 1

\* The newest version of i that may be dispatched next is not older than any
\* that was, and was itself dispatched at most once per fault.
Fresh(i, v) ==
    /\ \A w \in Versions : tasks[i][w] > 0 => w <= v
    /\ tasks[i][v] <= faults

NextDispatchIsFresh ==
    /\ \A i \in Intents :
          pending[i] \in Versions
            => \/ Fresh(i, pending[i])
               \/ /\ pc = "move" /\ i = Head(todo)
                  /\ \A w \in Versions : tasks[i][w] > 0 => w <= pending[i]
    /\ pc = "create" => Fresh(Head(todo), held)

\* What the proofs of the safety properties rest on: the sidecar's next dispatch
\* is of the newest plan and of one not dispatched but through a fault, and
\* what it carries between parse, create and move agrees with the volume.
DispatchInvariant ==
    /\ FilesAreQueued
    /\ WriterHoldsTornFile
    /\ SidecarCarries
    /\ OneFile
    /\ NextDispatchIsFresh
================================================================================
