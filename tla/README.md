# Agentic Hemisphere on Kubernetes: TLA+ models, checks and proofs

The repository runs a "right hemisphere" (RH, a planner) and ephemeral "left
hemisphere" (LH, executors) as pods of a cluster. A plan travels

    client --POST /plan--> planner --file--> sidecar --AgentTask--> operator --Pod--> executor

Every arrow crosses a process boundary without a transaction. The models are
about what can happen between the two ends of an arrow, when steps of several
processes interleave, calls fail or lose their reply, and containers die.
Paths below are relative to `src/`.

## 1. Inventory

| component | state | operations | talks to |
|---|---|---|---|
| **RH planner** `docker/rh-planner/app/` | none but the files it writes | `POST /plan` (`plan`, `_write_handshake`), `POST /review` (`review`, `_check_for_issues`) | the sidecar, through the emptyDir volume `/handshakes`, without a lock or a rename |
| **Sidecar: bridge** `docker/rh-sidecar/app/sidecar.py`, `main.py` | `pending/`, `processed/` on the volume; locals of a pass | `scan`, `parse`, `create`, `move_to_processed`, `process_pending`, the loop around them | API server: creates AgentTasks |
| **Sidecar: warm pool** `sidecar.py`, `pool.py` | the standby AgentTasks in the API server; nothing of its own | `ensure_warm_pool`, `count_standby_agent_tasks`, `count_idle_pods`, `deficit`, `burst_needed`, `_burst_scale` | API server: lists AgentTasks and pods, creates standby tasks |
| **Hemisphere Operator** `operator/operator.py` | kopf's finalizer, last-handled spec and `status.on_task_*` on each AgentTask | `on_task_created`, `on_task_updated`, `on_task_deleted` | API server: creates and deletes pods in another namespace |
| **AgentTask CRD** `operator/crds/` | the schema | validation and pruning | decides which status fields of the operator survive |
| **LH executor** `docker/lh-executor/app/` | `_iteration_count`, one subprocess | `execute` and its three handlers, 300 s timeout, escalation | its own stdout; the review endpoint |
| **Cost tracker** `docker/rh-planner/app/cost/tracker.py` | the records of one process; report files named after the second | `record_phase`, `start_phase` (a timer), `set_infra_cost`, `get_record`, `generate_report` | nobody but its callers: no endpoint uses it |
| **Name sanitising** `sidecar.py`, `operator.py` | none of its own: names and labels of tasks and pods | `_sanitize_k8s_name`, `[:63]`, `[:50]`, `startswith("standby-")` | bridge, pool and operator, which derive the same texts each on their own |
| **Manifests** `k8s/` | quotas, replica counts, volumes, probes | restart, replacement and eviction of the planner's pod | bound and restart the others |
| **Deployment scripts** `scripts/*.sh` | environment and remote resources | sequential steps | gcloud, terraform, kubectl |
| **Cost benchmark** `scripts/cost_benchmark.py` | the global random generator, a plan cache, the results | `simulate_task`, `run_cost_benchmark`, `run_matrix` | a copy of part of the tracker's prices |
| **Benchmark** `scripts/benchmark.py`, **Terraform**, **CI**, **tests** | none | none | none |

What is hard, and what makes each part correct (every hazard with its line is in
`PROJECT.json`):

* **planner and bridge**: the planner may truncate and rewrite a file at any
  moment of the sidecar's parse-create-move sequence, keeps a file open across
  the sidecar's rename, and create and move are two effects in two systems.
  Correct means: nothing half written is dispatched, nothing is lost, nothing is
  repeated without a failure, no older plan after a newer one, and everything
  queued is dispatched in the end.
* **warm pool**: every decision rests on a count that is stale when it is used;
  two sidecars count at once; a failed list counts as zero; names repeat within a
  second. Correct means: the pool is bounded, reaches its size, and bursts
  are limited by the work there is.
* **operator**: the only link between a task and its pod is a pod name that
  another program (kopf) stores after the handler has returned; activation
  replaces the pod in two calls; deletions come at any moment; the shipped schema
  drops the pod name, and two operators may run. Correct means: no pod besides a
  task's first without a cause, every spec handled, and no object hanging on its
  finalizer. That no pod is left behind is what the handlers say and do not keep.
* **executor**: the timeout races the end of the command, the report and the end
  of the container; the process is one-shot while its threshold counts over
  several failures.
* **planner's pod**: an answer is given for a file in a volume that two containers
  share and that ends with the pod; the sidecar's one event loop serves both the
  work and the probe. Correct means: an answered plan survives every restart of a
  container, and a sidecar that hangs comes back.
* **names**: four texts made of an id that a client chooses, in two programs, each
  cut to another length, under the rules of the API server. Correct means: which
  ids are refused, which tasks collide and which pods count as idle is what the
  texts were made for.
* **costs**: records are created from three entry points and timers stay open
  across other calls; compared runs of the benchmark share one stream of random
  numbers. Correct means: a report is whole, comparisons are about the same work,
  and no optimization costs more.
* **cluster as a whole**: pool, operator and quota meet in the pods of one
  namespace, where standby pods and working pods ask for the same places and a
  refusal is final. Correct means: a refusal is a shortage, a reported success is
  the command's, and all work comes to an end.

## 2. Modules

| module | models | proofs |
|---|---|---|
| `HandshakeBridge` | planner's writes and the sidecar's pass over the volume | `HandshakeBridgeProofs` |
| `AtLeastOnceDispatch` | abstract: a queued plan waits, runs at least once, is retired | |
| `HandshakeRefinement` | the mapping from the first to the second | in `HandshakeBridgeProofs` |
| `WarmPoolManager` | counting, filling and bursting | `WarmPoolManagerProofs` |
| `HemisphereOperator` | the three kopf handlers, split at their API calls | `HemisphereOperatorProofs` |
| `LhExecutor` | one process per task, its subprocess, its report and the review of it | in `EmployeeClusterProofs` |
| `EmployeeCluster` | pool, handshake tasks, applied tasks and executors under one quota; instantiates `WarmPoolManager` and `LhExecutor` | `EmployeeClusterProofs` |
| `RHPod` | the planner's two containers, their volume, probes, restarts and the replacement of the pod | `RHPodProofs` |
| `TaskNames` | an id's way into the names and labels of its task and its pod | `TaskNamesProofs` |
| `Pricing` | prices of models and the cost of tokens | |
| `CostTracker` | records, timers, infrastructure costs and reports; extends `Pricing` | `CostTrackerProofs` |
| `CostBenchmark` | the matrix of runs of `cost_benchmark.py`; extends `Pricing` | `CostBenchmarkProofs` |

`MC*.tla` only name the model values; `MC*.cfg` give the constants. Definitions
whose comment starts with "Mutant of" are not part of any specification: they
are plausible bugs, and `PROJECT.json` says which property each breaks.

### HandshakeBridge and the code

A file's content is the number of the plan it holds, `Torn`, or `NoFile`.

* `PlanBegin`, `PlanEnd`: `Path.write_text` opens with truncation and writes
  later. In between the file is empty, and the sidecar may rename it: `writerAt`
  follows the open file, as the kernel does. `PlanNotQueued` and `PlanCutOff` are
  the `OSError` branches of `_write_handshake` and the planner's death. The
  handler never awaits, so one file is open at a time.
* `Scan`, `Capacity`, `Parse`, `Create`, `Move`: one pass of `process_pending`,
  cut where it touches the volume or the API. `NextFile` is the `for` loop.
* `ParseFails`, `CreateFails`, `CreateReplyLost`, `MoveFails`: what its two
  `except` branches catch. `AbortPass` is what they do not catch and
  `_sidecar_loop` does. `Crash` is a restart with the volume as it was.
* `taken` holds the AgentTask names of the current second, because two ids that
  sanitise alike collide within a second only; `Tick` and `Wake` empty it.

### WarmPoolManager and the code

Standby tasks are alike, so their number is enough: `old` of earlier seconds, and
`fresh`, the indexes used in this second, whose names cannot be used again.
`running` and `ended` count them by the phase of their pod.

* `Count`, `Fill`: `ensure_warm_pool`, one creation per step, between which other
  processes act. `CountFails` is the `ApiException` that
  `count_standby_agent_tasks` turns into 0.
* `Scan`, `CountIdle`, `Recount`, `Burst`: `process_pending` up to its loop,
  and `_burst_scale`, which counts again and uses that count as first index.
* `Dispatch` is the loop that `HandshakeBridge` models in detail.
* `PodEnds` is the return of `sleep 3600` under `restartPolicy: Never`.

### HemisphereOperator and the code

`job[o][t]` is the handler that operator `o` runs for task `t`, with the values it
read when it was called. Steps are its API calls, then `Patch` for what kopf
stores. `created` is `status.on_task_created`; nothing reads `status.on_task_updated`, which is
left out. `kept` says whether the schema of the CRD that is installed lets such results
through. The one in the repository (`operator/crds/agenttask_crd.yaml:54-87`) does not:
`FALSE` is the system as shipped, `TRUE` what the handlers were written for, and
`Schemas` has the cases of an instance. `Operators` may be two, as in the prod overlay; `--standalone` keeps kopf from
coordinating them.

* `StartCreate`, `Spawn`, `SpawnRefused`, `Patch`: `on_task_created`. A refused
  creation returns phase `Failed`, which kopf takes for success.
* `StartUpdate`, `DeleteOld`, `Spawn`, `Patch`: `on_task_updated`; `Activates` is
  its early return.
* `StartDelete`, `Cleanup`, `Release`: `on_task_deleted`, then kopf's finalizer.
* `*Fails`, `SpawnReplyLost`, `Interrupted`: the suppressed and logged exceptions,
  a reply lost after the pod was stored, and the operator's death.

### LhExecutor and the code

`step[t]` is where the process of task `t` is, `command[t]` its subprocess, which
goes on whether or not somebody waits for it.

* `Start` is `main` up to `execute`; `NoCommand`, `Spawn`, `Collect` and `TimesOut`
  are the exits of `_handle_execute`. In `Collect` output that cannot be decoded
  raises before the return code is looked at: an error whatever the code was.
* `Report` is the rest of `main`: the result, `should_escalate`, the exit code. The
  container ends with it (`EndContainer`), and the subprocess too.
* `Review` is `POST /review` with the proof of a reported result; `LintPasses` and
  `HasTestLog` are the two checks of `_check_for_issues`. It may be asked again.
* `CommandEnds` and `Killed` are the task's command and the kubelet, external.
  `test` and `lint` tasks always have a command: they belong to `Commanded`.

### EmployeeCluster and the code

`Pool!Action` and `Exec!Action` are the actions of the two modules; the cluster's
actions conjoin them with what they do to the rest, so that a step of the cluster is
a step of its parts.

* The pool's `files` and `arrived` are counts of `file`, its handshakes by name.
  `Scan` and `Dispatch` know which handshakes they took, and `Dispatch` creates a
  task for each. `DispatchFails` may create a task and leave its file, which is
  dispatched again as another of `Copies(h)`.
* `Place`, `Refuse`, `PlaceFails` are the ends of `on_task_created` for a task, and
  `StandbyStarts`, `StandbyRefused`, `StandbyFails` for a standby task; `phase` and
  `podless` hold the result, which nothing revisits.
* `Slots` is the quota in pods. All executors ask for the same resources
  (`operator.py:77-80`), so that the tightest of the quota's numbers gives it: 4
  with `k8s/base/resource-quotas.yaml`, 2 with Terraform's defaults.
* A handshake's task is not in `Commanded`: `build_manifest` names no command.
  `Applied` are the tasks of the walkthrough, which do.

### RHPod and the code

`HandshakeBridge` follows one pod through every step of a pass; `RHPod` follows a
handshake through the pods, with a pass over one file as one step.

* `Write`, `WriteFails`, `Answer`: `_write_handshake` with its logged `OSError`, and
  the answer of `POST /plan`, which is the same after both. `PlannerEnds` comes
  between them; a client without an answer asks again.
* `ConfigLoads`, `ConfigFails`: the start of `_sidecar_loop`, which returns when the
  configuration does not load (`silent`). `Dispatch` is a pass over one handshake.
* `CallHangs`, `CallReturns`: the client library's calls are synchronous, so that
  the event loop and `/health` stand still with them. `Healthy` is what the liveness
  probe sees and `RestartSidecar` what it does.
* `PodReplaced`, `PodEvicted`: a Deployment makes a new pod with an empty volume.
  `TooFull` counts both directories, since nothing deletes from `processed/`.

### TaskNames and the code

Texts are sequences of characters, because the properties are about their
characters; lengths are constants of which `LengthsAssumption` keeps the relations
of 53, 63 and 50.

* `Sanitize` is `_sanitize_k8s_name`: `Lowered` is `raw.lower()`, which makes one
  character or several of a capital (two of U+0130) and a letter of a name of some that
  are none (U+212A), `Replaced` the substitution, `Stays` what
  survives the collapsed and stripped separators, `Kept` the text of it in its order,
  `Cut` the end. The strip comes before the cut.
* `TaskName`, `StandbyName`, `PodName`, `PodLabel`: the manifests of sidecar and
  operator. `Time` is the one character of `HHMMSS`, and it repeats.
* `Dispatch`, `CreateStandby`, `TaskCreated`, `Activate`: creation of tasks and pods
  under `ValidName` and `ValidLabel` (external: the rules of the API server). What
  is refused stays pending (task) or fails (pod).
* `Idle` is the filter of `count_idle_pods`.

### CostTracker and the code

Prices are integers in cents per million tokens. A record's list of phases is kept
as its sums, which is all that is ever read of it.

* `RecordDirectly` is a call of `record_phase`; `StartPhase` and `EndPhase` are
  `__enter__` and `__exit__` of the timer, with other calls in between.
* `Position` is the first match of `get_record`; `Store` the change of the record
  that `_get_or_create_record` returned, by reference in the code.
* `GenerateReport` writes the file of the current second over what it held;
  `ReportCutOff` is a `write_text` that raises after truncating. `Restart` is another
  process with the same output directory.
* `spent`, `charged`, `touched` are history: what callers handed in.

### CostBenchmark and the code

The random generator is a table from states to draws and next states: the code
seeds it with a number, so the same state always draws the same.

* `Schedule` is the triple loop over days, profiles and daily frequency.
* `SimulateTask` is `simulate_task`: token draws, then the coin of the cache (only if
  the profile was seen: `Coin`), then the draws for the pod. `PlanCharged`, `Prompt`
  and `ReviewCharged` are the discounts in the code's order.
* `FinishRun` ends a run; the next combination of `run_matrix` seeds afresh.

### Abstractions

* In the cluster the operator does not restart and no task is activated or
  deleted: that is `HemisphereOperator`'s subject. A pod is admitted and starts in
  one step; a pod that has ended no longer counts, as in a ResourceQuota.

* Kopf and the API server are external; they are modelled from how the handlers
  use them. Handlers of different tasks interleave freely, which allows more than
  kopf's scheduling does.
* Deleting a pod frees its name at once. Its grace period would only add refused
  creations, which are modelled as a possible failure.
* A name ends in `HHMMSS` and comes back after a day: only the clock of `TaskNames`
  does so.
* The model of the bridge starts with a loop that runs and a volume that stays;
  `RHPod` has the loop that does not start and the volume that ends with its pod.
* Kopf and the API server tell an operator of every change in the end, also of those
  another operator made; an operator reads the object as it is when it calls a handler.
* Costs are integers; the code's floating-point costs are rounded for display, and
  rounding is left out, as is the division of `int(x * 0.40)` where the product is not
  exact in binary.
* Text, logging, latencies and the plan's contents are left out.

## 3. Runs

| run | instance | shows |
|---|---|---|
| `handshake_bridge` | two intents whose ids sanitise alike, two plans each, two failures | the types, five safety and two liveness properties of planner and bridge |
| `handshake_refinement` | three intents planned once, one whose manifest is refused, two failures | `KeepsPromise`: the bridge implements `AtLeastOnceDispatch` with its fairness |
| `warm_pool` | one sidecar, size 2, two handshakes, one deletion, two failures | the pool's bound, the burst ledger, the pool is refilled and every batch served |
| `hemisphere_operator` | two operators, the shipped schema and one that keeps the results, one task, two edits, a failure, three seconds | the types; every pod besides the first has a cause, with activations and without; no spec or deletion stuck |
| `employee_cluster` | a planned handshake and an applied task, two places, pool of one, a failure of the sidecar and one around a pod | a refusal is a shortage, results and approvals are earned, all work comes to rest |
| `rh_pod` | two plans, a volume with room for one, three stalled processes, one failure, three pods | an answered plan is lost for three reasons only; a sidecar that hangs comes back; what waits is dispatched |
| `task_names` | twenty-two ids around every cut and kind of character, two that grow in lower case among them, two handshakes, a standby task, two seconds | conflicts pass with the second; only ids too long for a label in lower case are refused; a failed task has a reason in its names; what idle pods are |
| `cost_tracker` | two tasks, three models (dearest, other, unlisted), two phases, a timer, two seconds, a restart and a failed write | one record per task, whole reports, savings never negative, overwritten reports lose nothing |
| `cost_benchmark` | two profiles on two days, each planner model, each seed of a generator with seven states | compared runs agree where they can; which optimizations never cost more; what a batch pays |
| `handshake_replan` | no failures | *violated* `ProcessedPlanRan` |
| `operator_cleanup` | as shipped, one operator, no failures | *violated* `CleanupIsHandled` |
| `cluster_workless` | no failures, room for everything | *violated* `WorkIsRun` |

Why the bounds are enough. Two intents with one safe name are what a collision
needs, and two plans of one intent are what a rewrite needs; with two failures, one
can strike the recovery from the other (the operator's run has one, beside a second
operator). For the pool, two is the size the
manifests configure; the second handshake makes a burst overlap a refill. An
operator's tasks share nothing but pod names: one task is checked with everything
that can happen to it, and the proofs cover any number of tasks whose names may
collide, and any finite number of operators. Two edits activate a standby task and
put it to sleep again, and two operators that both see the first make a second
activation of it. Three seconds let creation and activation fall into the same second and
into different ones.

In the cluster a standby pod, the first task of the handshake, its second copy
after a failed move, and the applied task compete for two places: one more than
there is room for at any time, in every order.

For the pod, room for one of two handshakes is the smallest volume that fills up
with a plan that was already dispatched; three pods let a plan be lost twice. The
lengths 6, 11 and 8 keep the order of 53, 63 and 50 and the differences that decide
whether a cut reaches the prefix, the separator or the time; every id is there for
one of them. In the benchmark a profile repeats within a day and across days, so
that look-ups hit, miss and come too early; seven states are enough for the streams
of two runs to come apart and to meet again.

Faults are bounded by `MaxFaults` (and pods killed or refused by the API by
`MaxMishaps`; in `RHPod` stalled processes by `MaxStalls`), so a liveness property
says: once failures stop, the system catches up. Deadlock is checked for the bridge,
the cluster and the names, where a loop or the clock never stops. The others may stop:
`CHECK_DEADLOCK FALSE` stands where the clock ends, a task is gone for good, the matrix
is complete, or the loop of a sidecar is not part of the instance's question.

### What the violated runs mean

* **A second plan of one intent can be lost** (`handshake_replan`). The sidecar
  parses plan 1, creates its task and moves whatever is under the path by then.
  A plan 2 written in between goes to `processed/` unseen. `PlannedOnceIsKept` and
  `ProcessedIntentRan` are what does hold.
* **A deleted task leaves its pod** (`operator_cleanup`). kopf stores the pod's name
  under `status.on_task_created`, which the CRD neither declares nor preserves
  (`agenttask_crd.yaml:54-87`); the API server prunes it, and `on_task_deleted` finds
  no name. For the same reason `on_task_updated` finds no pod to replace and returns: a
  standby task is never activated, its spec says "execute" and its pod sleeps on.
* **A dispatched plan runs nothing** (`cluster_workless`). The sidecar's payload has
  no `command`, which is all that the executor looks at.

Five more disagreements have no run of their own.

* *An activated task leaves its pod*, also where the schema keeps the results. That of
  `on_task_updated` is stored under its own name, and `on_task_deleted` looks under that
  of `on_task_created` only (`operator.py:248`). With `Schemas = {TRUE}` in
  `MCOperatorCleanup.cfg` TLC finds a task created asleep, activated and deleted.
* *A long id is refused for ever.* `_sanitize_k8s_name` strips
  separators before it cuts, so that a cut behind one leaves a label that ends in a
  dash. It need not be long as it is written: 33 characters are enough if 32 of them are
  U+0130. `OnlyCutIdsAreRefused` is what does hold.
* *A plan is shared across days.* `_build_batch_counts` counts the
  tasks of all days, where `docs/cost-benchmark-analysis.md:311` divides by the daily
  frequency; they agree for `--days 1`, and a day gets cheaper the more days are
  simulated (`cost_benchmark.py:360`). `BatchPaysForOnePlan` states what the code does,
  one plan for each run of the benchmark; the analysis promises one for each day.
* *An expired pool stays cold.* The deficit is computed from standby tasks and not
  from idle pods, and a task outlives its pod's hour: `PoolReachesSize` is about
  tasks.
* *Standby pods crowd out the work they are kept for.* With Terraform's default quota
  the pool alone fills the namespace; a dispatched task is marked `Failed` and not
  tried again. `RefusalIsShortage` says how large the quota has to be for this never
  to happen.

## 4. Fairness

* Bridge: weak fairness of `SidecarStep`. `while True` with a catch-all
  (`main.py:67-73`) never blocks, and after `Crash` the kubelet restarts the
  container. Nothing is assumed of the planner or the clock.
* Pool: weak fairness of each sidecar's step, for the same reason, and of
  `PodStarts`, which stands for the operator and the scheduler.
* Operator: weak fairness of `HandlerStep` per task; kopf works through the
  events of every object and calls a failed handler again.

* Cluster: the sidecar's loop as above; `StandbyStep` and `TaskStep` of every task,
  because kopf calls the creation handler of every object and the executor's
  process is scheduled, up to the timeout of its command; `StandbyEnds`, because
  `sleep 3600` returns. Nothing is assumed of commands: `WorkComesToRest` rests on
  the 300 seconds of `TimesOut`, which are part of `TaskStep`.

* Pod: `Dispatch` of every plan, because each pass gets to every file whether or not
  another one failed; the start of the loop, which ends one way or the other; and
  `RestartSidecar`, because the kubelet probes. A call that hangs need not return.

`TaskNames`, `CostTracker` and `CostBenchmark` are about safety and assume nothing.

No action that stands for a failure or a client is fair, and of the clock only
that the two waits with a length (300 and 3600 seconds) end.

## 5. Proofs

All proofs hold for every value of the constants that meets the named
assumptions, except where a theorem's statement restricts them.

* **`HandshakeBridgeProofs`**: `TypeCorrect`, then `DispatchInvariantHolds`, from
  which all five safety properties and the action property `NeverDispatchOlder`
  follow. The properties are not inductive: what excludes a second dispatch
  is the agreement of what the sidecar carries (`held`, `Head(todo)`, `pc`) with
  the volume that the planner changes under it. `DispatchInvariant` says so in
  five parts: files hold queued versions, the writer's file is torn wherever it
  is, the sidecar's version is not newer than the file's, an intent planned once
  has one file, and the next version to be dispatched is at least as new as every
  dispatched one and was itself dispatched at most once per failure.
  `BridgeImplementsPromise` is the refinement: the safety part of
  `AtLeastOnceDispatch`, from `DispatchInvariant` step by step, for
  `MaxPlans = 1` (an `intent_id` is used once).
* **`HemisphereOperatorProofs`**: `TypeCorrect`, `CausesInvariantHolds`,
  `ExtraPodsHaveCausesHolds`, for any finite number of operators, any tasks whose
  truncated names may collide, and either kind of schema. The property counts the
  pods there are; the invariant adds those still to come, from operators that may yet
  create one (`Starters`) or are about to replace one (`Activating`): `Load` never
  exceeds `Causes`. That the first activation costs no pod needs more than a count:
  `SpareCause` says that before it begins the load is below the causes without
  the pod it will delete, whichever name that turns out to be (`Named`: the status and
  the results on their way there), and that the gap stays once that pod is gone. How
  many operators there are enters through facts about the cardinality of such sets
  when one operator's step adds or removes a member.
* **`WarmPoolManagerProofs`**: `TypeCorrect` for any number of sidecars; for one
  `LedgerInvariantHolds`, and from it `PoolIsBoundedHolds` and `BurstsArePaidHolds`.
  `PoolIsBounded` alone is not preserved by a fill: the ledger adds the creations a
  fill has still to make, and the bursts a batch has still to get.
  `PoolIsBoundedForTwo` is the bound for the two sidecars of the prod overlay,
  whose counts may be stale against each other's fill: `PairLedger` keeps the sum of
  both fills and the tasks within a pool for each, and a step of either preserves it
  because a count that succeeds sees every task that exists.
* **`EmployeeClusterProofs`**: the executors' inductive invariant first, then the
  composition. `ClusterIsExecutors` and `ClusterIsPool` state it as it is meant: every
  behaviour of the cluster is, under the mapping of its counts, one of `LhExecutor` and
  one of `WarmPoolManager`, since each of its steps is a step or a stutter of both. So
  the theorems about the parts hold for it: `ResultInvariantHolds`,
  `ApprovalIsEarnedHolds`, `NeverEscalates` (with `MAX_ITERATIONS` above 1, and it is
  5, no process emits ESCALATE, because the count ends with the process), and
  `PoolIsBounded` inside `RefusalIsShortageHolds`. On top of them `TypeCorrect`
  and `RefusalIsShortageHolds`: pods in use are among the standby
  tasks and the tasks created, so that a full namespace means a demand larger than the
  quota; the demand never shrinks, so that it still is when the refusal is looked at.
* **`RHPodProofs`**: `TypeCorrect`, `LossInvariantHolds`, `LossHasACauseHolds`. The
  property is not inductive: what is lost now was decided by handshakes that were
  written into a pod before. `LossInvariant` adds that a pod holds no more files than
  it took handshakes (`FilesWereWritten`, so that an eviction has its cause in the
  history), that what waits was written in the current pod (`WaitingIsYoung`), and the
  property itself for requests that are not answered yet (`LossIsExplained`). The number
  of files rests on the library's facts about cardinality.
* **`TaskNamesProofs`**: `TypeCorrect`, `NamesInvariantHolds`, and from it the four
  properties of the run, for ids of any length over any characters, whatever `lower()`
  makes of them. Two kinds of fact carry them. About texts: what `_sanitize_k8s_name` makes of an id is a text of valid
  characters that does not begin with a dash (the strip comes first, and a cut is
  at the end), its length is bounded, and neither cut of the manifests reaches the
  digit of the time (`LengthsAssumption`). The collapsed text is described by the rank
  of each character that stays, which no recursion is needed for. About the steps:
  `NamesInvariant` says that a name belongs to one task, ends in its time, and that
  a pod carries the cut name and label of the task that records it (`PodsFit`), because
  a failed task has its reason in whoever held the pod's name when it was refused.
* **`CostTrackerProofs`**: `TrackerTypeCorrect`, `LedgerInvariantHolds`, and from it the
  four properties of the run, the action property `OverwrittenReportIsCovered` among
  them. `LedgerInvariant` ties the records to what callers handed in: one record
  per touched intent, with that intent's sums, never dearer than on Opus, and
  every file of this process covered by the report that would be made now. A report is
  a sum over records and the ledger a sum over intents: `SumOverBijection` carries one to
  the other, `SumIsMonotone` says that a later report holds no less.
* **`CostBenchmarkProofs`**: `TypeCorrect`, `BenchInvariantHolds`, `WorkloadsAgreeHolds`,
  `NeverDearerThanOpusHolds`, `OptionsNeverCostMoreHolds`, `BatchPaysForOnePlanHolds`, for
  every generator, any profiles with names of their own, and any number of days.
  `WorkloadsAgree` compares a run with one that is long over; `BenchInvariant` ties the
  generator to it: where the plain run began its next task (`Began`) is where this run
  will (`Ahead`), as long as no plan was looked for, which `CachedWasSeen` derives from
  the schedule. That nothing costs more is a matter of `ChargedIsWithin` (no discount
  charges more tokens than were drawn) and `CostIsMonotone` (over the listed prices, and
  against Opus). What a batch pays needs the schedule itself: `ScheduleIs` counts a
  profile's tasks through both loops, so that there are as many as `_build_batch_counts`
  divides by, and `SumIsBounded` does the rest.

Sums and flattened sequences are recursive functions, and the induction theorems of the
library cannot be instantiated here. Both are proved about without them: `SumFunction`
is shown to be the number of cells of a bar chart, the defining recursion being met by
that number and by no other (among the finite subsets where two solutions differ there
would be a smallest one); `FlattenSeq` likewise, by the least index at which a claim
fails. `WFMin`, which says that there is such a least one, takes sets and no operator. The
lemmas about sums are used by `CostBenchmarkProofs` through an instance of
`CostTrackerProofs`, none of whose parameters they mention.

The inductive invariants were checked by TLC before they were proved; only the
properties that follow from them are among the runs.

Every invariant and both action properties of the passing runs are proved. Only
model-checked: everything under fairness (`EveryQueuedPlanDispatched`,
`EveryQueuedPlanRetired`, `EverySpecHandled`, `DeletedTaskGoes`, `PoolReachesSize`,
`BatchIsServed`, `WorkComesToRest`, `SidecarRecovers`, `WaitingPlanIsDispatched`, and the
fairness of `KeepsPromise`), which is out of the prover's reach: it has no rule for
`ENABLED`. Only proved: `PoolIsBounded` for two sidecars, `NeverEscalates`,
`ClusterIsExecutors` and `ClusterIsPool`.

## 6. Not modelled, and the plan

Ordered by what matters most for the system:

1. *Done*: the planner and its pod, the bridge with its refinement, the pool, the
   operator, the executor and their cluster, names and costs.
2. `DeployResume`: `scripts/deploy.sh` and `configure.sh` as a sequence that may fail
   at any step and is run again: which remote resources, local state and choices
   survive, what a re-run repeats, removes or forgets.
3. A cluster with activation: `on_task_updated` inside `EmployeeCluster`, where a
   standby pod's place is given up before the active pod asks for one. `TaskNames` has
   the activation, without the quota.
4. Proofs: the pool's bound for any number of sidecars, a ledger summed over a finite
   set, which the lemmas about sums make possible.

Left out for good: Terraform, CI, network policies and services (declarations
without behaviour), the shell commands themselves and HTTP endpoints that only
read (I/O), and `scripts/benchmark.py`, whose tasks are independent draws without any
option: nothing in it can go wrong but the division by the number of tasks
(`benchmark.py:148`), which `--tasks 0` makes zero. The schema's validation of the
AgentTask's spec is the API server's.
