------------------------------- MODULE LhExecutor -------------------------------
(***************************************************************************)
(* The executor's pods: one process per task, which runs the command of    *)
(* its task once, reports how it ended and exits (restartPolicy Never); and*)
(* the planner's review of the proof in such a report.                     *)
(*                                                                         *)
(* The three task types differ in where the command comes from; only       *)
(* "execute" can lack one.  All that a review sees of the output is whether*)
(* there is any.                                                           *)
(***************************************************************************)
EXTENDS Naturals

CONSTANTS
    Tasks,          \* tasks that are handed to an executor
    Commanded,      \* those whose task type and payload name a command
    MaxIterations,  \* MAX_ITERATIONS
    MaxMishaps      \* bound: pods refused or killed, and processes not spawned

VARIABLES
    step,       \* step[t]: where the process of t's pod is
    command,    \* command[t]: the subprocess
    output,     \* output[t]: what it wrote to stdout
    failures,   \* failures[t]: _iteration_count
    result,     \* result[t]: the TaskResult
    escalated,  \* tasks whose process emitted ESCALATE
    verdict,    \* verdict[t]: the signal that a review of t answered last
    mishaps     \* history: failures around pods

executorVars == <<step, command, output, failures, result, escalated, verdict>>
vars == <<step, command, output, failures, result, escalated, verdict, mishaps>>

Init ==
    /\ step = [t \in Tasks |-> "none"]
    /\ command = [t \in Tasks |-> "none"]
    /\ output = [t \in Tasks |-> "none"]
    /\ failures = [t \in Tasks |-> 0]
    /\ result = [t \in Tasks |-> "none"]
    /\ escalated = {}
    /\ verdict = [t \in Tasks |-> "none"]
    /\ mishaps = 0

\* A pod of t holds its resources.
Active(t) == step[t] \in {"start", "wait", "report"}

Mishap == mishaps < MaxMishaps /\ mishaps' = mishaps + 1

\* The handler returns "answer", and the process goes on to print it.
Answer(t, answer) ==
    /\ result' = [result EXCEPT ![t] = answer]
    /\ step' = [step EXCEPT ![t] = "report"]

--------------------------------------------------------------------------------

\* The pod that the operator created runs: main loads TASK_SPEC.
Start(t) ==
    /\ step[t] = "none"
    /\ step' = [step EXCEPT ![t] = "start"]
    /\ UNCHANGED <<command, output, failures, result, escalated, verdict, mishaps>>

\* "No command specified in payload".
NoCommand(t) ==
    /\ step[t] = "start" /\ t \notin Commanded
    /\ Answer(t, "error")
    /\ UNCHANGED <<command, output, failures, escalated, verdict, mishaps>>

Spawn(t) ==
    /\ step[t] = "start" /\ t \in Commanded
    /\ command' = [command EXCEPT ![t] = "running"]
    /\ step' = [step EXCEPT ![t] = "wait"]
    /\ UNCHANGED <<output, failures, result, escalated, verdict, mishaps>>

\* create_subprocess_shell raises; execute turns it into an error.
SpawnFails(t) ==
    /\ step[t] = "start" /\ t \in Commanded
    /\ Mishap
    /\ Answer(t, "error")
    /\ UNCHANGED <<command, output, failures, escalated, verdict>>

\* The subprocess ends on its own, whether or not somebody still waits for it.
CommandEnds(t) ==
    /\ command[t] = "running"
    /\ \E code \in {"ok", "bad"} : command' = [command EXCEPT ![t] = code]
    /\ \E out \in {"none", "text"} : output' = [output EXCEPT ![t] = out]
    /\ UNCHANGED <<step, failures, result, escalated, verdict, mishaps>>

\* Mutant of Collect: the return code is not looked at.
CollectBlindly(t) ==
    /\ step[t] = "wait" /\ command[t] \in {"ok", "bad"}
    /\ \E answer \in {"error", "passed"} : Answer(t, answer)
    /\ UNCHANGED <<command, output, failures, escalated, verdict, mishaps>>

\* communicate() returns.  If the output is not UTF-8, decode() raises before the
\* return code is looked at and a failure counted.
Collect(t) ==
    /\ step[t] = "wait" /\ command[t] \in {"ok", "bad"}
    /\ \/ /\ Answer(t, "error")
          /\ UNCHANGED failures
       \/ /\ command[t] = "ok"
          /\ Answer(t, "passed")
          /\ UNCHANGED failures
       \/ /\ command[t] = "bad"
          /\ Answer(t, "failed")
          /\ failures' = [failures EXCEPT ![t] = @ + 1]
    /\ UNCHANGED <<command, output, escalated, verdict, mishaps>>

\* Mutant of TimesOut: the timeout is not handled, and the command goes on.
TimeoutIgnored(t) == step[t] = "wait" /\ UNCHANGED vars

\* wait_for gives up after 300 seconds.  The subprocess is left running, or has
\* ended while something it started holds the pipes open.
TimesOut(t) ==
    /\ step[t] = "wait"
    /\ Answer(t, "error")
    /\ UNCHANGED <<command, output, failures, escalated, verdict, mishaps>>

\* The container ends with its first process, and the subprocess with it.
EndContainer(t, how) ==
    /\ step' = [step EXCEPT ![t] = how]
    /\ command' = [command EXCEPT ![t] = IF @ = "running" THEN "killed" ELSE @]

\* main prints the result, may emit ESCALATE, and exits with 1 unless success.
Report(t) ==
    /\ step[t] = "report"
    /\ EndContainer(t, IF result[t] = "passed" THEN "succeeded" ELSE "failed")
    /\ escalated' = IF failures[t] >= MaxIterations THEN escalated \cup {t} ELSE escalated
    /\ UNCHANGED <<output, failures, result, verdict, mishaps>>

\* The pod is evicted or runs out of memory; what it had to say is lost.
Killed(t) ==
    /\ Active(t)
    /\ Mishap
    /\ EndContainer(t, "failed")
    /\ result' = [result EXCEPT ![t] = "none"]
    /\ UNCHANGED <<output, failures, escalated, verdict>>

\* A pod that is refused or fails before there is a process.
MishapElsewhere == Mishap /\ UNCHANGED executorVars

\* The proof that _handle_execute puts into a result: lint_status and whether
\* test_log has anything in it.
LintPasses(t) == result[t] = "passed"
HasTestLog(t) == output[t] # "none"

\* POST /review with the proof of a reported result; an error carries none.
Review(t) ==
    /\ step[t] \in {"succeeded", "failed"} /\ result[t] \in {"passed", "failed"}
    /\ verdict' = [verdict EXCEPT ![t] =
           IF LintPasses(t) /\ HasTestLog(t) THEN "APPROVE" ELSE "SUPPRESS"]
    /\ UNCHANGED <<step, command, output, failures, result, escalated, mishaps>>

\* The steps that the process takes if nothing stops it.
ProcessStep(t) == NoCommand(t) \/ Spawn(t) \/ Collect(t) \/ TimesOut(t) \/ Report(t)

Next ==
    \/ MishapElsewhere
    \/ \E t \in Tasks :
        \/ Start(t) \/ ProcessStep(t) \/ CommandEnds(t) \/ Review(t)
        \/ SpawnFails(t) \/ Killed(t)

Spec == Init /\ [][Next]_vars

--------------------------------------------------------------------------------
(* Properties.                                                               *)

\* The type of every variable; a process counts at most one failure.
TypeOK ==
    /\ step \in [Tasks -> {"none", "start", "wait", "report", "succeeded", "failed"}]
    /\ command \in [Tasks -> {"none", "running", "ok", "bad", "killed"}]
    /\ output \in [Tasks -> {"none", "text"}]
    /\ failures \in [Tasks -> 0 .. 1]
    /\ result \in [Tasks -> {"none", "error", "failed", "passed"}]
    /\ escalated \subseteq Tasks
    /\ verdict \in [Tasks -> {"none", "APPROVE", "SUPPRESS"}]
    /\ mishaps \in Nat

\* A pod counts as succeeded, or its proof is approved, only if its command
\* ended with 0, however it raced with the timeout and the end of the pod; an
\* approval also needs output.
ApprovalIsEarned ==
    \A t \in Tasks :
        /\ step[t] = "succeeded" => command[t] = "ok"
        /\ verdict[t] = "APPROVE" => step[t] = "succeeded" /\ output[t] = "text"

\* What the proofs rest on: how a result follows from the command while the
\* process has not ended, and what is still true of it afterwards.
ResultInvariant ==
    \A t \in Tasks :
        /\ step[t] \in {"none", "start"} => command[t] = "none"
        /\ step[t] \in {"none", "start", "wait"} => result[t] = "none" /\ failures[t] = 0
        /\ command[t] = "running" => step[t] \in {"wait", "report"}
        /\ result[t] = "passed" => command[t] = "ok" /\ step[t] \in {"report", "succeeded"}
        /\ step[t] = "succeeded" => result[t] = "passed"
        /\ verdict[t] = "APPROVE" => step[t] = "succeeded" /\ output[t] = "text"
================================================================================
