-------------------------------- MODULE TaskNames --------------------------------
(***************************************************************************)
(* What an intent_id becomes on its way from a client to the cluster: the  *)
(* name and label of its AgentTask (sidecar), the name and label of its    *)
(* pod (operator), and whether that pod counts as idle (sidecar again).    *)
(* Four texts are made from the id in three places, each cut to a length   *)
(* of its own, and the API server refuses those that are not well formed.  *)
(*                                                                         *)
(* Texts are sequences of characters, and the lengths are constants: the   *)
(* relations between them matter, not their size.  An id is one whose      *)
(* file the planner could write; HandshakeBridge has the others.           *)
(***************************************************************************)
EXTENDS Naturals, Sequences, FiniteSets, SequencesExt

CONSTANTS
    Plain,         \* lower-case letters and digits
    Capitals,      \* capital letters, as a label may have them
    Marks,         \* characters of a label that a name may not have
    Foreign,       \* characters of neither, capitals of other alphabets included
    LowerOf,       \* LowerOf[c] is what lower() makes of the capital c: one character or more
    Ids,           \* what clients choose for intent_id
    DigitOf,       \* DigitOf[n] is how the number n is written
    FragmentMax,   \* 53, of the id in a task's name
    LabelMax,      \* 63, of a task's name and of a label
    PodMax,        \* 50, of a task's name in a pod's name
    StandbyPrefix, \* STANDBY_PREFIX
    Seconds,       \* seconds of a day, after which HHMMSS repeats
    Indexes,       \* pool_index of standby tasks
    MaxPlans,      \* bound: handshakes written
    MaxStandby,    \* bound: standby tasks made
    NoPod          \* name of a pod that does not exist

Dash == "-"

Chars == Plain \cup Capitals \cup Marks \cup Foreign \cup {Dash}

ASSUME CharsAssumption ==
    /\ Capitals \subseteq DOMAIN LowerOf /\ DOMAIN LowerOf \subseteq Capitals \cup Foreign
    /\ LowerOf \in [DOMAIN LowerOf -> Seq(Chars) \ {<<>>}]
    /\ Dash \notin Plain \cup Capitals \cup Marks \cup Foreign
    /\ Plain \cap Foreign = {}
    /\ {"a", "t", "l", "h"} \subseteq Plain
    /\ Ids \subseteq Seq(Chars)
    /\ StandbyPrefix \in Seq(Plain \cup {Dash})
    /\ Seconds \in Nat \ {0}
    /\ DigitOf \in [0 .. Seconds - 1 -> Plain] /\ IsInjective(DigitOf)
    /\ Indexes \subseteq 0 .. Seconds - 1

\* at-{53}-{ts} is as long as a name may be, and at-standby-{n}-{ts} shorter than
\* what a pod's name keeps.
ASSUME LengthsAssumption ==
    /\ FragmentMax \in Nat /\ PodMax \in Nat
    /\ LabelMax = 3 + FragmentMax + 2
    /\ PodMax < LabelMax
    /\ 3 + Len(StandbyPrefix) + 3 <= PodMax

VARIABLES
    pending,   \* ids with a handshake in pending/
    plans,     \* handshakes written so far
    tasks,     \* the AgentTasks
    pods,      \* the executor pods
    refused,   \* history: ids whose task the API server found invalid
    second     \* the second of the day

vars == <<pending, plans, tasks, pods, refused, second>>

Init ==
    /\ pending = {} /\ plans = 0 /\ tasks = {} /\ pods = {} /\ refused = {}
    /\ second = 0

--------------------------------------------------------------------------------
(* Texts.                                                                    *)

\* s[:max]
Cut(s, max) == SubSeq(s, 1, IF Len(s) < max THEN Len(s) ELSE max)

StartsWith(s, prefix) == Cut(s, Len(prefix)) = prefix

\* raw.lower(), which may be longer than raw.
Lowered(raw) ==
    FlattenSeq([k \in DOMAIN raw |-> IF raw[k] \in DOMAIN LowerOf THEN LowerOf[raw[k]] ELSE <<raw[k]>>])

\* The same with every character that no name may have replaced.
Replaced(raw) ==
    LET s == Lowered(raw) IN [k \in DOMAIN s |-> IF s[k] \in Plain THEN s[k] ELSE Dash]

\* What is left of s when only the positions in K stay.
Kept(s, K) ==
    LET Rank(k) == Cardinality({j \in K : j <= k})
    IN  [i \in 1 .. Cardinality(K) |-> s[CHOOSE k \in K : Rank(k) = i]]

\* The positions that are left of s: of each run of separators the first stays, unless
\* the run is at an end.
Stays(s) ==
    {k \in DOMAIN s :
        \/ s[k] # Dash
        \/ k > 1 /\ s[k - 1] # Dash /\ \E j \in k + 1 .. Len(s) : s[j] # Dash}

\* Mutant of Sanitize: the separators at the ends stay.
SanitizeUnstripped(raw, max) ==
    LET s == Replaced(raw)
    IN  Cut(Kept(s, {k \in DOMAIN s : s[k] # Dash \/ k = 1 \/ s[k - 1] # Dash}), max)

\* _sanitize_k8s_name: the cut comes last.
Sanitize(raw, max) == Cut(Kept(Replaced(raw), Stays(Replaced(raw))), max)

Time == <<DigitOf[second]>>

\* Mutant of TaskName: the name is cut like the operator cuts it.
TaskNameCutShort(id) == Cut(<<"a", "t", Dash>> \o Sanitize(id, FragmentMax) \o <<Dash>> \o Time, PodMax)

TaskName(id) ==
    Cut(<<"a", "t", Dash>> \o Sanitize(id, FragmentMax) \o <<Dash>> \o Time, LabelMax)

\* Mutant of StandbyId: the index alone.
StandbyIdBare(n) == <<DigitOf[n]>>

StandbyId(n) == StandbyPrefix \o <<DigitOf[n]>>

StandbyName(n) ==
    Cut(<<"a", "t", Dash>> \o (StandbyPrefix \o <<DigitOf[n]>>) \o <<Dash>> \o Time, LabelMax)

PodName(task) == <<"l", "h", Dash>> \o Cut(task.name, PodMax) \o <<Dash>> \o Time

\* Mutant of PodLabel: the label is not cut.
PodLabelWhole(task) == task.id

PodLabel(task) == Cut(task.id, LabelMax)

\* What the API server takes for a label and for the name of an object.
ValidLabel(s) ==
    /\ Len(s) <= LabelMax
    /\ \A k \in DOMAIN s : s[k] \notin Foreign
    /\ s # <<>> => {s[1], s[Len(s)]} \subseteq Plain \cup Capitals

ValidName(s) ==
    /\ s # <<>> /\ \A k \in DOMAIN s : s[k] \in Plain \cup {Dash}
    /\ s[1] # Dash /\ s[Len(s)] # Dash

--------------------------------------------------------------------------------
(* From the handshake to the task.                                           *)

Task(name, id, label, type) ==
    [name |-> name, id |-> id, label |-> label, type |-> type, made |-> second,
     phase |-> "new", pod |-> NoPod, activated |-> FALSE]

Plan(id) ==
    /\ plans < MaxPlans
    /\ plans' = plans + 1
    /\ pending' = pending \cup {id}
    /\ UNCHANGED <<tasks, pods, refused, second>>

Submit(task) ==
    /\ \A other \in tasks : other.name # task.name
    /\ tasks' = tasks \cup {task}

\* A handshake that is refused stays where it is and is tried again; so is one whose
\* name is taken (409).
Dispatch(id) ==
    /\ id \in pending
    /\ LET task == Task(TaskName(id), id, Sanitize(id, LabelMax), "execute")
       IN  IF ValidName(task.name) /\ ValidLabel(task.label)
           THEN Submit(task) /\ pending' = pending \ {id} /\ UNCHANGED refused
           ELSE refused' = refused \cup {id} /\ UNCHANGED <<tasks, pending>>
    /\ UNCHANGED <<plans, pods, second>>

CreateStandby(n) ==
    /\ Cardinality({task \in tasks : task.type = "standby" \/ task.activated}) < MaxStandby
    /\ Submit(Task(StandbyName(n), StandbyId(n), StandbyId(n), "standby"))
    /\ UNCHANGED <<pending, plans, pods, refused, second>>

--------------------------------------------------------------------------------
(* From the task to the pod.                                                 *)

\* The pod that the manifest of a task asks for, if nothing speaks against it.
Spawn(task, others) ==
    LET pod == [name |-> PodName(task), label |-> PodLabel(task), task |-> task.name,
                sleeps |-> task.type = "standby", running |-> TRUE]
        admitted == ValidLabel(pod.label) /\ \A other \in others : other.name # pod.name
    IN  /\ pods' = IF admitted THEN others \cup {pod} ELSE others
        /\ tasks' = (tasks \ {t \in tasks : t.name = task.name}) \cup
                        {[task EXCEPT !.pod = IF admitted THEN pod.name ELSE NoPod,
                                      !.phase = IF admitted THEN "spawned" ELSE "Failed"]}

\* on_task_created
TaskCreated(task) ==
    /\ task.phase = "new"
    /\ Spawn(task, pods)
    /\ UNCHANGED <<pending, plans, refused, second>>

\* A client gives a standby task work, and on_task_updated gives it another pod.
Activate(task) ==
    /\ task.type = "standby" /\ task.phase = "spawned"
    /\ Spawn([task EXCEPT !.type = "execute", !.activated = TRUE],
             {pod \in pods : pod.name # task.pod})
    /\ UNCHANGED <<pending, plans, refused, second>>

PodEnds(pod) ==
    /\ pod.running
    /\ pods' = (pods \ {pod}) \cup {[pod EXCEPT !.running = FALSE]}
    /\ UNCHANGED <<pending, plans, tasks, refused, second>>

SecondPasses ==
    /\ second' = (second + 1) % Seconds
    /\ UNCHANGED <<pending, plans, tasks, pods, refused>>

Next ==
    \/ \E id \in Ids : Plan(id) \/ Dispatch(id)
    \/ \E n \in Indexes : CreateStandby(n)
    \/ \E task \in tasks : TaskCreated(task) \/ Activate(task)
    \/ \E pod \in pods : PodEnds(pod)
    \/ SecondPasses

Spec == Init /\ [][Next]_vars

--------------------------------------------------------------------------------
(* Properties.                                                               *)

\* count_idle_pods counts this pod.
Idle(pod) == pod.running /\ StartsWith(pod.label, StandbyPrefix)

\* A task's name is free again in the next second: dispatching a handshake can meet
\* a task of the same name only if that was made in the same second of the day,
\* however the ids were sanitised and cut.
ConflictsPassInASecond ==
    \A id \in pending : \A task \in tasks :
        TaskName(id) = task.name => task.made = second

\* Only an id that is longer than a label in lower case can be refused by the API server
\* and stay in pending/ for ever: what the cut of _sanitize_k8s_name leaves alone is a
\* label, whatever characters the id has.
OnlyCutIdsAreRefused ==
    \A id \in refused : Len(Lowered(id)) > LabelMax

\* A task is left without a pod only if its id, as far as the operator uses it, is
\* no label, or if another task's name agrees with its own as far as pods keep it.
FailedTaskHasAReason ==
    \A task \in tasks : task.phase = "Failed" =>
        \/ ~ValidLabel(Cut(task.id, LabelMax))
        \/ \E other \in tasks \ {task} : Cut(other.name, PodMax) = Cut(task.name, PodMax)

\* The idle pods the sidecar counts are the sleeping ones, and besides them only pods
\* of tasks that were activated and of ids that begin like those of standby tasks.
IdleMeansStandby ==
    \A pod \in pods : \A task \in tasks :
        pod.running /\ pod.task = task.name =>
            (Idle(pod) <=> \/ pod.sleeps
                           \/ task.activated
                           \/ task.id \in Ids /\ StartsWith(task.id, StandbyPrefix))
--------------------------------------------------------------------------------
(* What the properties rest on.                                              *)

Names == Seq(Plain \cup {Dash})

TaskType ==
    [name : Names, id : Seq(Chars), label : Seq(Chars), type : {"execute", "standby"},
     made : 0 .. Seconds - 1, phase : {"new", "spawned", "Failed"},
     pod : Names \cup {NoPod}, activated : BOOLEAN]

PodType ==
    [name : Names, label : Seq(Chars), task : Names, sleeps : BOOLEAN, running : BOOLEAN]

\* The type of every variable.
TypeOK ==
    /\ pending \subseteq Ids /\ refused \subseteq Ids /\ plans \in Nat
    /\ tasks \subseteq TaskType /\ pods \subseteq PodType
    /\ second \in 0 .. Seconds - 1

OneTaskPerName == \A t, u \in tasks : t.name = u.name => t = u

\* No cut takes the time off a task's name.
NamesEndInTime ==
    \A task \in tasks : /\ task.name # <<>>
                        /\ task.name[Len(task.name)] = DigitOf[task.made]

\* A task is a client's, or began as a standby task.
TwoOrigins ==
    \A task \in tasks :
        \/ task.id \in Ids /\ task.type = "execute" /\ ~task.activated
        \/ StartsWith(task.id, StandbyPrefix) /\ (task.activated <=> task.type = "execute")

\* A pod is the one of its task, as that task is now.
PodsFit ==
    \A pod \in pods : \E task \in tasks :
        /\ pod.task = task.name /\ task.phase = "spawned" /\ task.pod = pod.name
        /\ pod.label = PodLabel(task)
        /\ pod.sleeps <=> task.type = "standby"
        /\ \E n \in 0 .. Seconds - 1 :
              pod.name =
                <<"l", "h", Dash>> \o Cut(task.name, PodMax) \o <<Dash>> \o <<DigitOf[n]>>

NamesInvariant ==
    /\ TypeOK /\ OneTaskPerName /\ NamesEndInTime /\ TwoOrigins /\ PodsFit
    /\ OnlyCutIdsAreRefused /\ FailedTaskHasAReason
================================================================================
