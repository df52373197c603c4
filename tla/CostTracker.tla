------------------------------- MODULE CostTracker -------------------------------
(***************************************************************************)
(* The cost tracker of the planner: concurrent callers record the phases of*)
(* tasks, with a timer or directly, set what a task's pod cost, and ask for*)
(* reports, which are also written to a file named after the second.       *)
(*                                                                         *)
(* A record's list of phases is only ever summed up, so the model keeps its*)
(* sums.  Names, latencies and rounding are left out.                      *)
(***************************************************************************)
EXTENDS Pricing, Sequences, FiniteSets, Functions

CONSTANTS
    Intents,      \* tasks, by intent_id
    Models,       \* model names that callers pass, listed or not
    Usages,       \* token counts that a phase may report
    Infra,        \* what set_infra_cost may be called with
    PodRate,      \* cost of a pod for a second
    Timers,       \* with-blocks that may be open at once
    MaxPhases,    \* bound: phases recorded
    MaxSecond,    \* bound: seconds
    MaxRestarts,  \* bound: restarts of the process
    MaxFaults     \* bound: reports that cannot be written

ASSUME TrackerAssumption ==
    /\ Usages \subseteq Usage
    /\ Infra \subseteq [pod : Nat, vertex : Nat]
    /\ PodRate \in Nat
    /\ MaxPhases \in Nat /\ MaxSecond \in Nat /\ MaxRestarts \in Nat /\ MaxFaults \in Nat

VARIABLES
    records,   \* the tracker's list of task records
    open,      \* open[w]: what the block of timer w will record
    second,    \* the clock, as far as file names show it
    files,     \* report files by the second in their name
    \* history
    spent,     \* spent[i]: tokens of i since the process started, and their cost
    charged,   \* charged[i]: the infrastructure cost of i that was set last
    touched,   \* intents that something was recorded for
    phases, restarts, faults

ledger == <<spent, charged, touched>>
vars == <<records, open, second, files, ledger, phases, restarts, faults>>

Closed == [intent |-> "none"]
NoInfra == [pod |-> 0, vertex |-> 0]
Nothing == [input |-> 0, output |-> 0, price |-> 0]

Init ==
    /\ records = <<>>
    /\ open = [w \in Timers |-> Closed]
    /\ spent = [i \in Intents |-> Nothing]
    /\ charged = [i \in Intents |-> NoInfra]
    /\ touched = {}
    /\ second = 0 /\ files = << >>
    /\ phases = 0 /\ restarts = 0 /\ faults = 0

--------------------------------------------------------------------------------
(* Records.                                                                  *)

\* Mutant of Matches: records are told apart by position.
MatchesLast(n, i) == n = Len(records) /\ records[n].intent = i

Matches(n, i) == records[n].intent = i

Has(i) == \E n \in DOMAIN records : Matches(n, i)

\* get_record: the first match.
Position(i) ==
    CHOOSE n \in DOMAIN records :
        Matches(n, i) /\ \A k \in DOMAIN records : Matches(k, i) => n <= k

NewRecord(i) == [intent |-> i, sum |-> Nothing, infra |-> NoInfra]

\* _get_or_create_record, and a change of the record it returns.
Record(i) == IF Has(i) THEN records[Position(i)] ELSE NewRecord(i)

Store(i, record) ==
    records' = IF Has(i) THEN [records EXCEPT ![Position(i)] = record]
               ELSE Append(records, record)

\* A sum with the tokens of one more phase, at the price of its model.
Added(sum, model, usage) ==
    [input |-> sum.input + usage.input, output |-> sum.output + usage.output,
     price |-> sum.price + UsageCost(PriceOf(model), usage)]

\* record_phase
RecordPhase(i, model, usage) ==
    /\ phases < MaxPhases
    /\ phases' = phases + 1
    /\ Store(i, [Record(i) EXCEPT !.sum = Added(@, model, usage)])
    /\ spent' = [spent EXCEPT ![i] = Added(@, model, usage)]
    /\ touched' = touched \cup {i}
    /\ UNCHANGED <<second, files, charged, restarts, faults>>

RecordDirectly ==
    /\ \E i \in Intents : \E model \in Models : \E usage \in Usages :
        RecordPhase(i, model, usage)
    /\ UNCHANGED open

\* "with tracker.start_phase(...)": other callers run while the block is open.
StartPhase(w) ==
    /\ open[w] = Closed
    /\ \E i \in Intents : \E model \in Models :
        open' = [open EXCEPT ![w] = [intent |-> i, model |-> model]]
    /\ UNCHANGED <<records, second, files, ledger, phases, restarts, faults>>

\* __exit__, with the counts that the block set, or zero if it raised before.
EndPhase(w) ==
    /\ open[w] # Closed
    /\ open' = [open EXCEPT ![w] = Closed]
    /\ \E usage \in Usages : RecordPhase(open[w].intent, open[w].model, usage)

\* Mutant of SetInfraCost: a task without a phase gets no record.
SetInfraCostOfKnown(i) ==
    /\ \E infra \in Infra :
        /\ IF Has(i) THEN Store(i, [Record(i) EXCEPT !.infra = infra]) ELSE records' = records
        /\ charged' = [charged EXCEPT ![i] = infra]
    /\ touched' = touched \cup {i}
    /\ UNCHANGED <<open, second, files, spent, phases, restarts, faults>>

\* set_infra_cost replaces what was set before.
SetInfraCost(i) ==
    /\ \E infra \in Infra :
        /\ Store(i, [Record(i) EXCEPT !.infra = infra])
        /\ charged' = [charged EXCEPT ![i] = infra]
    /\ touched' = touched \cup {i}
    /\ UNCHANGED <<open, second, files, spent, phases, restarts, faults>>

--------------------------------------------------------------------------------
(* Reports.                                                                  *)

InfraCost(infra) == infra.pod * PodRate + infra.vertex

Bicameral(record) == record.sum.price + InfraCost(record.infra)

\* The same tokens at the price of Opus.
Monolithic(record) ==
    Cost(Opus, record.sum.input, record.sum.output) + InfraCost(record.infra)

Total(value(_)) == SumFunction([n \in DOMAIN records |-> value(records[n])])

\* generate_report's totals; "process" tells who wrote it.
Report ==
    [process |-> restarts,
     tasks |-> Len(records),
     input |-> Total(LAMBDA record : record.sum.input),
     output |-> Total(LAMBDA record : record.sum.output),
     bicameral |-> Total(Bicameral),
     monolithic |-> Total(Monolithic)]

\* A file that was opened and not written.
Torn ==
    [process |-> restarts, tasks |-> 0, input |-> 0, output |-> 0,
     bicameral |-> 0, monolithic |-> 0]

\* The file of this second gets the content, whatever it held.
Write(content) ==
    files' = [s \in DOMAIN files \cup {second} |-> IF s = second THEN content ELSE files[s]]

\* Mutant of GenerateReport: the tracker starts afresh with every report.
GenerateReportAndReset ==
    /\ records # <<>>
    /\ Write(Report)
    /\ records' = <<>>
    /\ UNCHANGED <<open, second, ledger, phases, restarts, faults>>

\* With no records there is nothing to report, and no file.
GenerateReport ==
    /\ records # <<>>
    /\ Write(Report)
    /\ UNCHANGED <<records, open, second, ledger, phases, restarts, faults>>

\* write_text raises after it truncated the file, and the caller gets no report.
ReportCutOff ==
    /\ records # <<>>
    /\ faults < MaxFaults
    /\ faults' = faults + 1
    /\ Write(Torn)
    /\ UNCHANGED <<records, open, second, ledger, phases, restarts>>

SecondPasses ==
    /\ second < MaxSecond
    /\ second' = second + 1
    /\ UNCHANGED <<records, open, files, ledger, phases, restarts, faults>>

\* Another process tracks into the same directory.
Restart ==
    /\ restarts < MaxRestarts
    /\ restarts' = restarts + 1
    /\ records' = <<>>
    /\ open' = [w \in Timers |-> Closed]
    /\ spent' = [i \in Intents |-> Nothing]
    /\ charged' = [i \in Intents |-> NoInfra]
    /\ touched' = {}
    /\ UNCHANGED <<second, files, phases, faults>>

Next ==
    \/ RecordDirectly
    \/ \E w \in Timers : StartPhase(w) \/ EndPhase(w)
    \/ \E i \in Intents : SetInfraCost(i)
    \/ GenerateReport \/ ReportCutOff \/ SecondPasses \/ Restart

Spec == Init /\ [][Next]_vars

--------------------------------------------------------------------------------
(* Properties.                                                               *)

Amounts == [input : Nat, output : Nat, price : Nat]

Charges == [pod : Nat, vertex : Nat]

File ==
    [process : Nat, tasks : Nat, input : Nat, output : Nat, bicameral : Nat, monolithic : Nat]

\* The type of every variable.
TypeOK ==
    /\ records \in Seq([intent : Intents, sum : Amounts, infra : Charges])
    /\ open \in [Timers -> {Closed} \cup [intent : Intents, model : Models]]
    /\ second \in 0 .. MaxSecond
    /\ DOMAIN files \subseteq 0 .. second /\ files \in [DOMAIN files -> File]
    /\ spent \in [Intents -> Amounts]
    /\ charged \in [Intents -> Charges]
    /\ touched \subseteq Intents
    /\ phases \in 0 .. MaxPhases /\ restarts \in 0 .. MaxRestarts /\ faults \in 0 .. MaxFaults

\* A task has one record, however its phases, timers and costs interleave: what
\* get_record finds first is all there is.
OneRecordPerIntent ==
    \A m, n \in DOMAIN records : records[m].intent = records[n].intent => m = n

\* Whenever a report is made, it is about every task and every token that callers
\* recorded since the process started, at the price of the model that used them.
ReportIsWhole ==
    /\ Report.tasks = Cardinality(touched)
    /\ Report.input = SumFunction([i \in touched |-> spent[i].input])
    /\ Report.output = SumFunction([i \in touched |-> spent[i].output])
    /\ Report.bicameral =
         SumFunction([i \in touched |-> spent[i].price + InfraCost(charged[i])])

\* No task is dearer with the planner's mix of models than with Opus alone: the
\* savings of a record, and so of a report, are never negative.
SavingsNeverNegative == \A n \in DOMAIN records : Bicameral(records[n]) <= Monolithic(records[n])

Covers(new, old) == new.tasks >= old.tasks /\ new.input >= old.input /\ new.output >= old.output

\* A report is overwritten by another one of its own second only, and loses no task
\* and no token by it, unless writing failed or another process took over.
OverwrittenReportIsCovered ==
    [][\A s \in DOMAIN files :
        /\ s \in DOMAIN files'
        /\ files'[s] # files[s] =>
            /\ s = second
            /\ \/ faults' > faults
               \/ files'[s].process > files[s].process
               \/ Covers(files'[s], files[s])]_vars

--------------------------------------------------------------------------------
(* What the properties rest on.                                              *)

\* A record says what was spent on its intent, and what was charged for it last.
RecordsMatchLedger ==
    \A n \in DOMAIN records :
        LET i == records[n].intent IN
            records[n] = [intent |-> i, sum |-> spent[i], infra |-> charged[i]]

\* Every intent that something was recorded for has a record, and no other has a cost.
RecordedIsTouched ==
    /\ touched = {records[n].intent : n \in DOMAIN records}
    /\ \A i \in Intents \ touched : spent[i] = Nothing /\ charged[i] = NoInfra

\* The phases of a record cost no more than they would on Opus.
PhasesNeverDearer ==
    \A n \in DOMAIN records :
        LET sum == records[n].sum IN sum.price <= Cost(Opus, sum.input, sum.output)

\* Every file is of this process, and a report now would cover it, or of an earlier one.
FilesAreCovered ==
    \A s \in DOMAIN files :
        \/ files[s].process < restarts
        \/ files[s].process = restarts /\ Covers(Report, files[s])

\* The inductive invariant.
LedgerInvariant ==
    /\ TypeOK /\ OneRecordPerIntent
    /\ RecordsMatchLedger /\ RecordedIsTouched /\ PhasesNeverDearer /\ FilesAreCovered
================================================================================
