------------------------------ MODULE CostBenchmark ------------------------------
(***************************************************************************)
(* scripts/cost_benchmark.py --matrix, for one planner model: the workload *)
(* is simulated once for every combination of optimizations, each time     *)
(* from the same seed, and the costs are compared with each other and with *)
(* those of the plain run.                                                 *)
(*                                                                         *)
(* The random generator is a function of its state: the same call in the   *)
(* same state draws the same value and leads to the same state.  What it   *)
(* draws is given by the constants; rounding of the results is left out.   *)
(***************************************************************************)
EXTENDS Pricing, SequencesExt

CONSTANTS
    Profiles,     \* task profiles, in the order of ALL_PROFILES
    Frequency,    \* Frequency[p]: daily_frequency
    LowRisk,      \* profiles with the role "employee"
    Days,         \* num_days
    States,       \* states of the generator
    Tokens,       \* Tokens[g, p]: what the token counts of a task of p come out as
    AfterTokens,  \* ... and the state after these draws
    Hit,          \* Hit[g, p]: random() is below the cache hit rate of the role of p
    AfterCoin,    \* ... and the state after this draw
    PodCost,      \* PodCost[g, p]: the cost of the pod seconds drawn
    AfterPod      \* ... and the state after this draw

\* The loops of run_cost_benchmark: days, profiles, daily frequency.
Schedule ==
    LET Day == FlattenSeq([n \in DOMAIN Profiles |->
                             [copy \in 1 .. Frequency[Profiles[n]] |-> Profiles[n]]])
    IN  FlattenSeq([day \in 1 .. Days |-> Day])

Kinds == ToSet(Profiles)

ASSUME GeneratorAssumption ==
    /\ Tokens \in [States \X Kinds -> [plan : Usage, implementation : Usage, review : Usage]]
    /\ AfterTokens \in [States \X Kinds -> States]
    /\ Hit \in [States \X Kinds -> BOOLEAN]
    /\ AfterCoin \in [States -> States]
    /\ PodCost \in [States \X Kinds -> Nat]
    /\ AfterPod \in [States \X Kinds -> States]

\* Plans are cached and batches counted by name, and no two profiles share one.
ASSUME ScheduleAssumption ==
    /\ Profiles \in Seq(Kinds) /\ IsInjective(Profiles)
    /\ Frequency \in [Kinds -> Nat]
    /\ Days \in Nat \ {0}

\* Mutant of PlannerModels: a model is added that is dearer than the baseline.
PlannerModelsOutgrown == {Opus, Price("gpt-5", 625, 5000)}

\* RH_MODELS, a copy of a part of the tracker's catalog.
PlannerModels ==
    {Opus, Price("gpt-5", 125, 1000), Price("gemini-2.5-pro", 125, 1000),
     Price("o3", 200, 800), Price("deepseek-r1", 55, 219), Price("claude-haiku-4.5", 100, 500)}

Flags(cache, compress, batch, skip) ==
    [cache |-> cache, compress |-> compress, batch |-> batch, skip |-> skip]

\* optimization_combos: none, each of the four, all.
Combos == <<
    Flags(FALSE, FALSE, FALSE, FALSE),
    Flags(TRUE, FALSE, FALSE, FALSE), Flags(FALSE, TRUE, FALSE, FALSE),
    Flags(FALSE, FALSE, TRUE, FALSE), Flags(FALSE, FALSE, FALSE, TRUE),
    Flags(TRUE, TRUE, TRUE, TRUE)>>

VARIABLES
    rh,      \* the planner model of this column of the matrix
    seed,    \* what random.seed(42) sets the generator to
    table,   \* table[r]: the tasks of the r-th run, which is over
    tasks,   \* the tasks of this run so far
    cached,  \* profiles in plan_cache
    gen      \* the generator

vars == <<rh, seed, table, tasks, cached, gen>>

Init ==
    /\ rh \in PlannerModels
    /\ seed \in States
    /\ table = <<>> /\ tasks = <<>> /\ cached = {} /\ gen = seed

--------------------------------------------------------------------------------
(* What a task is charged.                                                   *)

Free == [input |-> 0, output |-> 0]

\* Mutant of Compressed: the factor is applied the wrong way round.
CompressedInverse(count) == (count * 5) \div 2

\* COMPRESSION_FACTOR is 0.40.
Compressed(count) == (count * 2) \div 5

Prompt(opts, usage) ==
    IF opts.compress THEN [usage EXCEPT !.input = Compressed(@)] ELSE usage

\* Mutant of BatchCount: the tasks of all profiles are counted.
BatchCountOfAll(p) == Len(Schedule)

\* _build_batch_counts
BatchCount(p) == Frequency[p] * Days

PlanCharged(opts, p, usage) ==
    LET plan == Prompt(opts, usage)
        n == BatchCount(p)
    IN  IF opts.batch /\ n > 1
        THEN [input |-> plan.input \div n, output |-> plan.output \div n]
        ELSE plan

ReviewCharged(opts, p, usage) ==
    IF opts.skip /\ p \in LowRisk THEN Free ELSE Prompt(opts, usage)

BicameralCost(plan, implementation, review, infra) ==
    UsageCost(rh, plan) + UsageCost(Flash, implementation) + UsageCost(rh, review) + infra

\* Everything on Opus, nothing optimized.
MonolithicCost(drawn, infra) ==
    infra + Cost(Opus, drawn.plan.input + drawn.implementation.input + drawn.review.input,
                 drawn.plan.output + drawn.implementation.output + drawn.review.output)

--------------------------------------------------------------------------------
(* The runs.                                                                 *)

Run == Len(table) + 1

Opts == Combos[Run]

\* Mutant of Coin: the generator is asked before the cache is.
CoinAlways(p) == Opts.cache

\* "profile.name in plan_cache and random.random() < hit_rate"
Coin(p) == Opts.cache /\ p \in cached

SimulateTask ==
    /\ Run <= Len(Combos) /\ Len(tasks) < Len(Schedule)
    /\ LET p == Schedule[Len(tasks) + 1]
           drawn == Tokens[gen, p]
           drew == AfterTokens[gen, p]
           tossed == IF Coin(p) THEN AfterCoin[drew] ELSE drew
           hit == Coin(p) /\ Hit[drew, p]
           plan == PlanCharged(Opts, p, IF hit THEN Free ELSE drawn.plan)
           review == ReviewCharged(Opts, p, drawn.review)
           infra == PodCost[tossed, p]
       IN  /\ tasks' = Append(tasks,
                [from |-> gen, drawn |-> drawn, plan |-> plan,
                 bicameral |-> BicameralCost(plan, Prompt(Opts, drawn.implementation),
                                             review, infra),
                 monolithic |-> MonolithicCost(drawn, infra)])
           /\ cached' = IF Opts.cache /\ ~hit THEN cached \cup {p} ELSE cached
           /\ gen' = AfterPod[tossed, p]
    /\ UNCHANGED <<rh, seed, table>>

\* The report is made; the next run seeds the generator again.
FinishRun ==
    /\ Run <= Len(Combos) /\ Len(tasks) = Len(Schedule)
    /\ table' = Append(table, tasks)
    /\ tasks' = <<>> /\ cached' = {} /\ gen' = seed
    /\ UNCHANGED <<rh, seed>>

Next == SimulateTask \/ FinishRun

Spec == Init /\ [][Next]_vars

--------------------------------------------------------------------------------
(* Properties.                                                               *)

Task ==
    [from : States, drawn : [plan : Usage, implementation : Usage, review : Usage],
     plan : Usage, bicameral : Nat, monolithic : Nat]

\* The type of every variable.
TypeOK ==
    /\ rh \in PlannerModels /\ seed \in States /\ gen \in States
    /\ table \in Seq(Seq(Task)) /\ Len(table) <= Len(Combos)
    /\ tasks \in Seq(Task) /\ Len(tasks) <= Len(Schedule)
    /\ cached \subseteq Kinds

\* All runs, the unfinished one included.
Logs == Append(table, tasks)

\* Before the k-th task of the r-th run the cache has asked the generator, which
\* it does for the second task of a profile and after.
Shifted(r, k) ==
    /\ Combos[r].cache
    /\ \E j \in 1 .. k - 1 : \E i \in 1 .. j - 1 : Schedule[i] = Schedule[j]

\* The runs of a matrix are about the same tasks, as a comparison of their costs
\* supposes: without the cache always, and with it up to the task that first finds
\* its plan there.
WorkloadsAgree ==
    \A r \in DOMAIN Logs \cap DOMAIN Combos : \A k \in DOMAIN Logs[r] :
        ~Shifted(r, k) => k \in DOMAIN Logs[1] /\ Logs[r][k].drawn = Logs[1][k].drawn

\* No task is dearer with the planner and executors than on Opus alone, under any
\* optimization and whatever was drawn.
NeverDearerThanOpus ==
    \A r \in DOMAIN Logs : \A k \in DOMAIN Logs[r] :
        Logs[r][k].bicameral <= Logs[r][k].monolithic

\* An optimization without the cache never makes a task dearer than it was in the
\* plain run.
OptionsNeverCostMore ==
    \A r \in DOMAIN Logs \cap DOMAIN Combos : \A k \in DOMAIN Logs[r] :
        ~Combos[r].cache => Logs[r][k].bicameral <= Logs[1][k].bicameral

\* Without the cache, the tasks of a profile that share a plan pay in one run together
\* for one, however many they are and on however many days: between the smallest and the
\* largest that was drawn, except what division cuts off.  A day of several pays less than
\* a plan, where docs/cost-benchmark-analysis.md:311 divides by the daily frequency.
BatchPaysForOnePlan ==
    \A r \in DOMAIN table : \A p \in Kinds :
        LET members == {k \in DOMAIN Schedule : Schedule[k] = p}
            paid == SumFunction([k \in members |-> table[r][k].plan.input])
            drawn == {table[r][k].drawn.plan.input : k \in members}
        IN  Combos[r].batch /\ ~Combos[r].cache /\ members # {} =>
                Min(drawn) < paid + Cardinality(members) /\ paid <= Max(drawn)
================================================================================
