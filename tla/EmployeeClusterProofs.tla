-------------------------- MODULE EmployeeClusterProofs --------------------------
(***************************************************************************)
(* The cluster takes no step that its parts would not take, so that what is*)
(* proved of the pool and of the executors holds for it; and what follows  *)
(* from both together about the quota.                                     *)
(***************************************************************************)
EXTENDS EmployeeCluster, FiniteSetTheorems, TLAPS

\* The proofs about the pool, under the substitutions of Pool.
PoolProofs == INSTANCE WarmPoolManagerProofs WITH
    Sidecars <- {Sidecar},
    MaxFiles <- Cardinality(Handshakes),
    MaxDeletes <- 0,
    deletes <- 0,
    files <- [s \in {Sidecar} |-> Cardinality({h \in Handshakes : InQueue(h)})],
    arrived <- Cardinality({h \in Handshakes : file[h] # "unplanned"})

\* Every step of the cluster is a step of the executors, or none to them.
LEMMA NextIsExecNext ==
    ASSUME [Next]_vars
    PROVE  [Exec!Next]_(Exec!vars)
<1>1. CASE UNCHANGED <<execVars, mishaps>>
  BY <1>1 DEF execVars, Exec!vars
<1>2. CASE StandbyFails \/ \E t \in Tasks : PlaceFails(t)
  BY <1>2 DEF StandbyFails, PlaceFails, Exec!Next
<1>3. CASE \E t \in Tasks : Place(t) \/ ProcessStep(t) \/ PodEvent(t)
  BY <1>3 DEF Place, ProcessStep, PodEvent, Exec!Next
<1>4. CASE UNCHANGED vars
  BY <1>1, <1>4 DEF vars
<1> QED
  BY <1>1, <1>2, <1>3, <1>4
     DEF Next, Plan, SidecarStep, PoolStep, Scan, Dispatch, PoolFault, DispatchFails,
         PassAborted, SecondPasses, StandbyStep, StandbyStarts, StandbyRefused,
         StandbyEnds, Apply, TaskStep, Refuse

\* Every step of the cluster is a step of the pool, or none to it.
LEMMA NextIsPoolNext ==
    ASSUME [Next]_vars
    PROVE  [Pool!Next]_(Pool!vars)
<1>1. CASE UNCHANGED <<file, poolVars>>
  BY <1>1 DEF poolVars, InQueue, Pool!vars
<1>2. CASE PoolStep \/ Scan \/ Dispatch
  BY <1>2 DEF PoolStep, Scan, Dispatch, Pool!Next, Pool!SidecarStep
<1>3. CASE PoolFault \/ DispatchFails \/ PassAborted
  BY <1>3 DEF PoolFault, DispatchFails, PassAborted, Pool!Next, Pool!SidecarFault
<1>4. CASE SecondPasses \/ StandbyStarts \/ StandbyEnds \/ \E h \in Handshakes : Plan(h)
  BY <1>4 DEF SecondPasses, StandbyStarts, StandbyEnds, Plan, Pool!Next
<1>5. CASE StandbyRefused \/ StandbyFails
  BY <1>1, <1>5 DEF StandbyRefused, StandbyFails
<1>6. CASE \E t \in Tasks : Apply(t) \/ TaskStep(t) \/ PlaceFails(t) \/ PodEvent(t)
  BY <1>1, <1>6
     DEF Apply, TaskStep, Place, Refuse, ProcessStep, PlaceFails, PodEvent, taskVars
<1>7. CASE UNCHANGED vars
  BY <1>1, <1>7 DEF vars, taskVars
<1> QED
  BY <1>2, <1>3, <1>4, <1>5, <1>6, <1>7 DEF Next, SidecarStep, StandbyStep

\* Each instance brings its own names of the operators on finite sets.
LEMMA SameSets ==
    ASSUME NEW S
    PROVE  /\ Pool!IsFiniteSet(S) <=> IsFiniteSet(S)
           /\ PoolProofs!IsFiniteSet(S) <=> IsFiniteSet(S)
           /\ Pool!Cardinality(S) = Cardinality(S)
           /\ PoolProofs!Cardinality(S) = Cardinality(S)
<1>1. /\ Pool!IsFiniteSet(S) <=> IsFiniteSet(S)
      /\ PoolProofs!IsFiniteSet(S) <=> IsFiniteSet(S)
  BY DEF Pool!IsFiniteSet, PoolProofs!IsFiniteSet, IsFiniteSet
<1>2. Pool!Cardinality(S) = Cardinality(S)
  BY DEF Pool!Cardinality, Cardinality
<1>3. PoolProofs!Cardinality(S) = Cardinality(S)
  BY DEF PoolProofs!Cardinality, Cardinality
<1> QED
  BY <1>1, <1>2, <1>3

\* The two instances of the pool's module are one.
LEMMA SamePool ==
    /\ Pool!Init <=> PoolProofs!Init
    /\ [Pool!Next]_(Pool!vars) <=> [PoolProofs!Next]_(PoolProofs!vars)
    /\ Pool!TypeOK <=> PoolProofs!TypeOK
    /\ Pool!PoolIsBounded <=> PoolProofs!PoolIsBounded
<1>1. Pool!Init <=> PoolProofs!Init
  BY DEF Pool!Init, PoolProofs!Init
<1>2. Pool!StandbyTasks = PoolProofs!StandbyTasks
  BY SameSets DEF Pool!StandbyTasks, PoolProofs!StandbyTasks
<1>3. Pool!TypeOK <=> PoolProofs!TypeOK
  <2>1. Pool!IsFiniteSet(fresh) <=> PoolProofs!IsFiniteSet(fresh)
    BY SameSets
  <2> QED
    BY <1>2, <2>1, Zenon
       DEF Pool!TypeOK, PoolProofs!TypeOK, Pool!Places, PoolProofs!Places
<1>4. Pool!PoolIsBounded <=> PoolProofs!PoolIsBounded
  <2>1. Pool!Cardinality({Sidecar}) = PoolProofs!Cardinality({Sidecar})
    BY SameSets
  <2> QED
    BY <1>2, <2>1 DEF Pool!PoolIsBounded, PoolProofs!PoolIsBounded
<1> USE DEF Pool!clusterVars, PoolProofs!clusterVars, Pool!nameVars, PoolProofs!nameVars,
            Pool!loopVars, PoolProofs!loopVars, Pool!faultVars, PoolProofs!faultVars
<1>5. Pool!Elapse <=> PoolProofs!Elapse
  BY <1>2 DEF Pool!Elapse, PoolProofs!Elapse
<1>6. /\ Pool!Tick <=> PoolProofs!Tick
      /\ Pool!PodStarts <=> PoolProofs!PodStarts
      /\ Pool!PodEnds <=> PoolProofs!PodEnds
      /\ Pool!TaskDeleted <=> PoolProofs!TaskDeleted
  BY <1>2, <1>5 DEF Pool!Tick, PoolProofs!Tick,
                    Pool!PodStarts, PoolProofs!PodStarts,
                    Pool!PodEnds, PoolProofs!PodEnds,
                    Pool!TaskDeleted, PoolProofs!TaskDeleted
<1>7. ASSUME NEW s \in {Sidecar}
      PROVE  /\ Pool!FileArrives(s) <=> PoolProofs!FileArrives(s)
             /\ Pool!SidecarStep(s) <=> PoolProofs!SidecarStep(s)
             /\ Pool!SidecarFault(s) <=> PoolProofs!SidecarFault(s)
  <2> USE DEF Pool!At, PoolProofs!At, Pool!Goto, PoolProofs!Goto,
              Pool!EndPass, PoolProofs!EndPass,
              Pool!StartFill, PoolProofs!StartFill,
              Pool!Deficit, PoolProofs!Deficit,
              Pool!NextIndex, PoolProofs!NextIndex,
              Pool!CreateStandby, PoolProofs!CreateStandby,
              Pool!BurstNeeded, PoolProofs!BurstNeeded,
              Pool!Fault, PoolProofs!Fault
  <2>1. Pool!FileArrives(s) <=> PoolProofs!FileArrives(s)
    BY DEF Pool!FileArrives, PoolProofs!FileArrives
  <2>2. Pool!Wake(s) <=> PoolProofs!Wake(s)
    BY <1>5 DEF Pool!Wake, PoolProofs!Wake
  <2>3. Pool!Count(s) <=> PoolProofs!Count(s)
    BY <1>2 DEF Pool!Count, PoolProofs!Count
  <2>4. Pool!Fill(s) <=> PoolProofs!Fill(s)
    BY DEF Pool!Fill, PoolProofs!Fill
  <2>5. Pool!Scan(s) <=> PoolProofs!Scan(s)
    BY DEF Pool!Scan, PoolProofs!Scan
  <2>6. Pool!CountIdle(s) <=> PoolProofs!CountIdle(s)
    BY DEF Pool!CountIdle, PoolProofs!CountIdle
  <2>7. Pool!Recount(s) <=> PoolProofs!Recount(s)
    BY DEF Pool!Recount, PoolProofs!Recount
  <2>8. Pool!Burst(s) <=> PoolProofs!Burst(s)
    BY DEF Pool!Burst, PoolProofs!Burst
  <2>9. Pool!Dispatch(s) <=> PoolProofs!Dispatch(s)
    BY DEF Pool!Dispatch, PoolProofs!Dispatch
  <2>10. Pool!CountFails(s) <=> PoolProofs!CountFails(s)
    BY DEF Pool!CountFails, PoolProofs!CountFails
  <2>11. Pool!FillFails(s) <=> PoolProofs!FillFails(s)
    BY DEF Pool!FillFails, PoolProofs!FillFails
  <2>12. Pool!BurstFails(s) <=> PoolProofs!BurstFails(s)
    BY DEF Pool!BurstFails, PoolProofs!BurstFails
  <2>13. Pool!DispatchFails(s) <=> PoolProofs!DispatchFails(s)
    BY DEF Pool!DispatchFails, PoolProofs!DispatchFails
  <2>14. Pool!PassAborted(s) <=> PoolProofs!PassAborted(s)
    BY DEF Pool!PassAborted, PoolProofs!PassAborted
  <2> QED
    BY <2>1, <2>2, <2>3, <2>4, <2>5, <2>6, <2>7, <2>8, <2>9, <2>10, <2>11, <2>12, <2>13,
       <2>14 DEF Pool!SidecarStep, PoolProofs!SidecarStep, Pool!SidecarFault,
                 PoolProofs!SidecarFault
<1>8. Pool!Next <=> PoolProofs!Next
  BY <1>6, <1>7 DEF Pool!Next, PoolProofs!Next
<1>9. UNCHANGED Pool!vars <=> UNCHANGED PoolProofs!vars
  BY DEF Pool!vars, PoolProofs!vars
<1> QED
  BY <1>1, <1>3, <1>4, <1>8, <1>9

\* What WarmPoolManager assumes of its constants.
LEMMA PartsAssume ==
    /\ PoolProofs!IsFiniteSet({Sidecar})
    /\ Desired \in Nat /\ Cardinality(Handshakes) \in Nat /\ 0 \in Nat
    /\ MaxFaults \in Nat
<1>1. PoolProofs!IsFiniteSet({Sidecar})
  BY SameSets, FS_Singleton
<1>2. Cardinality(Handshakes) \in Nat
  BY ClusterAssumption, FS_CardinalityType
<1> QED
  BY <1>1, <1>2, ClusterAssumption

--------------------------------------------------------------------------------
(* The executors.                                                            *)

\* The inductive invariant of the executors.
ExecInv == Exec!TypeOK /\ Exec!ResultInvariant

\* A step of one task, whichever it is.
ExecStep(t) ==
    \/ Exec!Start(t) \/ Exec!ProcessStep(t) \/ Exec!CommandEnds(t) \/ Exec!Review(t)
    \/ Exec!SpawnFails(t) \/ Exec!Killed(t)

\* In the beginning no process runs and nothing is reported.
LEMMA ExecInitInv == Exec!Init => ExecInv
BY DEF Exec!Init, ExecInv, Exec!TypeOK, Exec!ResultInvariant

\* Mishaps are counted.
LEMMA ExecMishaps ==
    ASSUME Exec!TypeOK, Exec!Mishap
    PROVE  mishaps' \in Nat
BY DEF Exec!TypeOK, Exec!Mishap

\* Every step keeps the types.
LEMMA ExecStepKeepsTypes ==
    ASSUME ExecInv, NEW t \in Tasks, ExecStep(t)
    PROVE  Exec!TypeOK'
<1> USE DEF ExecInv, Exec!TypeOK
<1>1. CASE Exec!Start(t)
  BY <1>1 DEF Exec!Start
<1>2. CASE Exec!NoCommand(t)
  BY <1>2 DEF Exec!NoCommand, Exec!Answer
<1>3. CASE Exec!Spawn(t)
  BY <1>3 DEF Exec!Spawn
<1>4. CASE Exec!Collect(t)
  <2>1. failures[t] = 0
    BY <1>4 DEF Exec!Collect, Exec!ResultInvariant
  <2>2. failures' \in [Tasks -> 0 .. 1]
    BY <1>4, <2>1 DEF Exec!Collect
  <2> QED
    BY <1>4, <2>2 DEF Exec!Collect, Exec!Answer
<1>5. CASE Exec!TimesOut(t)
  BY <1>5 DEF Exec!TimesOut, Exec!Answer
<1>6. CASE Exec!Report(t)
  BY <1>6 DEF Exec!Report, Exec!EndContainer
<1>7. CASE Exec!CommandEnds(t)
  BY <1>7 DEF Exec!CommandEnds
<1>8. CASE Exec!Review(t)
  BY <1>8 DEF Exec!Review
<1>9. CASE Exec!SpawnFails(t)
  BY <1>9, ExecMishaps DEF Exec!SpawnFails, Exec!Answer
<1>10. CASE Exec!Killed(t)
  BY <1>10, ExecMishaps DEF Exec!Killed, Exec!EndContainer
<1> QED
  BY <1>1, <1>2, <1>3, <1>4, <1>5, <1>6, <1>7, <1>8, <1>9, <1>10 DEF ExecStep, Exec!ProcessStep

\* Every step keeps what is known of results.
LEMMA ExecStepKeepsResults ==
    ASSUME ExecInv, NEW t \in Tasks, ExecStep(t)
    PROVE  Exec!ResultInvariant'
<1> USE DEF ExecInv, Exec!TypeOK, Exec!ResultInvariant
<1>1. CASE Exec!Start(t)
  BY <1>1 DEF Exec!Start
<1>2. CASE Exec!NoCommand(t)
  BY <1>2 DEF Exec!NoCommand, Exec!Answer
<1>3. CASE Exec!Spawn(t)
  BY <1>3 DEF Exec!Spawn
<1>4. CASE Exec!Collect(t)
  BY <1>4 DEF Exec!Collect, Exec!Answer
<1>5. CASE Exec!TimesOut(t)
  BY <1>5 DEF Exec!TimesOut, Exec!Answer
<1>6. CASE Exec!Report(t)
  BY <1>6 DEF Exec!Report, Exec!EndContainer
<1>7. CASE Exec!CommandEnds(t)
  BY <1>7 DEF Exec!CommandEnds
<1>8. CASE Exec!Review(t)
  BY <1>8 DEF Exec!Review, Exec!LintPasses, Exec!HasTestLog
<1>9. CASE Exec!SpawnFails(t)
  BY <1>9 DEF Exec!SpawnFails, Exec!Answer
<1>10. CASE Exec!Killed(t)
  BY <1>10 DEF Exec!Killed, Exec!Active, Exec!EndContainer
<1> QED
  BY <1>1, <1>2, <1>3, <1>4, <1>5, <1>6, <1>7, <1>8, <1>9, <1>10 DEF ExecStep, Exec!ProcessStep

\* So does every step of the executors, those that are not of a task included.
LEMMA ExecNextInv ==
    ASSUME ExecInv, [Exec!Next]_(Exec!vars)
    PROVE  ExecInv'
<1>1. CASE UNCHANGED Exec!vars
  BY <1>1 DEF Exec!vars, ExecInv, Exec!TypeOK, Exec!ResultInvariant
<1>2. CASE Exec!Next
  <2>1. CASE Exec!MishapElsewhere
    BY <2>1, ExecMishaps DEF Exec!MishapElsewhere, Exec!executorVars, ExecInv, Exec!TypeOK,
       Exec!ResultInvariant
  <2>2. CASE \E t \in Tasks : ExecStep(t)
    BY <2>2, ExecStepKeepsTypes, ExecStepKeepsResults DEF ExecInv
  <2> QED
    BY <1>2, <2>1, <2>2 DEF Exec!Next, ExecStep
<1> QED
  BY <1>1, <1>2

--------------------------------------------------------------------------------
(* The parts in the cluster.                                                 *)

\* The cluster implements its executors: whatever pool, sidecar and quota do, a task's
\* process goes through the steps of executor.py and main.py, in their order.
THEOREM ClusterIsExecutors == Spec => Exec!Spec
<1>1. Init => Exec!Init
  BY DEF Init
<1>2. [Next]_vars => [Exec!Next]_(Exec!vars)
  BY NextIsExecNext
<1> QED
  BY <1>1, <1>2, PTL DEF Spec, Exec!Spec

\* The cluster implements its warm pool, whose handshakes are its own: executors, applied
\* tasks and the quota never make the sidecar's counting and filling go other ways than
\* those of ensure_warm_pool and _burst_scale.
THEOREM ClusterIsPool == Spec => Pool!Spec
<1>1. Init => Pool!Init
  BY DEF Init
<1>2. [Next]_vars => [Pool!Next]_(Pool!vars)
  BY NextIsPoolNext
<1> QED
  BY <1>1, <1>2, PTL DEF Spec, Pool!Spec

\* The invariants of the parts, in the cluster.
LEMMA PartsHold ==
    Spec => [](/\ Pool!TypeOK /\ Pool!PoolIsBounded
               /\ Exec!TypeOK /\ Exec!ResultInvariant /\ ApprovalIsEarned)
<1>1. Init => PoolProofs!Init
  BY SamePool DEF Init
<1>2. [Next]_vars => [PoolProofs!Next]_(PoolProofs!vars)
  BY SamePool, NextIsPoolNext
<1>3. PoolProofs!Spec => []PoolProofs!TypeOK
  BY PoolProofs!TypeCorrect, PartsAssume
<1>4. PoolProofs!Spec => []PoolProofs!PoolIsBounded
  BY PoolProofs!PoolIsBoundedHolds, PartsAssume
<1>5. /\ PoolProofs!TypeOK => Pool!TypeOK
      /\ PoolProofs!PoolIsBounded => Pool!PoolIsBounded
  BY SamePool
<1>6. Exec!Spec => []ExecInv
  BY ExecInitInv, ExecNextInv, PTL DEF Exec!Spec
<1>7. ExecInv => Exec!TypeOK /\ Exec!ResultInvariant /\ ApprovalIsEarned
  BY DEF ExecInv, Exec!ResultInvariant, Exec!ApprovalIsEarned, ApprovalIsEarned
<1> QED
  BY <1>1, <1>2, <1>3, <1>4, <1>5, <1>6, <1>7, ClusterIsExecutors, PTL
     DEF Spec, PoolProofs!Spec

\* What the parts know in every state.
Parts ==
    /\ Pool!TypeOK /\ Pool!PoolIsBounded
    /\ Exec!TypeOK /\ Exec!ResultInvariant

--------------------------------------------------------------------------------
(* What a step of the cluster changes.                                       *)

\* Steps of the sidecar and the clock that only concern standby tasks.
PoolOnly == PoolStep \/ PoolFault \/ SecondPasses

\* Steps by which handshakes become files and tasks.
Handover == Scan \/ Dispatch \/ DispatchFails \/ PassAborted \/ \E h \in Handshakes : Plan(h)

\* Steps that a pod of t or its task makes outside the pool.
TaskOnly(t) == Apply(t) \/ TaskStep(t) \/ PlaceFails(t) \/ PodEvent(t)

\* The steps of Next, grouped by the component that takes them.
LEMMA NextCases ==
    Next <=> \/ PoolOnly \/ Handover
             \/ StandbyStarts \/ StandbyRefused \/ StandbyFails \/ StandbyEnds
             \/ \E t \in Tasks : TaskOnly(t)
BY DEF Next, PoolOnly, Handover, TaskOnly, SidecarStep, StandbyStep

\* Names of standby tasks are added or grow old; bursts and blind fills are counted.
LEMMA PoolOnlyEffect ==
    ASSUME PoolOnly, Parts
    PROVE  /\ running' = running /\ ended' = ended
           /\ UNCHANGED <<taskVars, step>>
           /\ bursted' \in {bursted, bursted + 1}
           /\ blindFills' \in {blindFills, blindFills + 1}
           /\ Pool!Elapse \/ Pool!CreateStandby(Sidecar) \/ UNCHANGED <<old, fresh>>
<1>1. CASE SecondPasses
  BY <1>1 DEF SecondPasses, execVars, Pool!Tick, Pool!clusterVars, Pool!faultVars
<1>2. CASE PoolStep
  BY <1>2
     DEF PoolStep, execVars, Pool!Wake, Pool!Count, Pool!Fill, Pool!CountIdle, Pool!Recount,
         Pool!Burst, Pool!clusterVars, Pool!faultVars, Pool!nameVars
<1>3. CASE PoolFault
  BY <1>3
     DEF PoolFault, execVars, Pool!CountFails, Pool!FillFails, Pool!BurstFails,
         Pool!clusterVars, Pool!nameVars
<1> QED
  BY <1>1, <1>2, <1>3 DEF PoolOnly

\* Handing over leaves pods and standby tasks alone.
LEMMA HandoverEffect ==
    ASSUME Handover
    PROVE  /\ UNCHANGED <<podless, step, old, fresh, running, ended, bursted, blindFills>>
           /\ \/ phase' = phase
              \/ \E H \in SUBSET found : phase' = Submitted(H)
<1>1. CASE Scan
  BY <1>1 DEF Scan, execVars, Pool!Scan, Pool!clusterVars, Pool!nameVars, Pool!faultVars
<1>2. CASE Dispatch
  BY <1>2
     DEF Dispatch, execVars, Pool!Dispatch, Pool!clusterVars, Pool!nameVars, Pool!faultVars
<1>3. CASE DispatchFails
  BY <1>3 DEF DispatchFails, execVars, Pool!DispatchFails, Pool!clusterVars, Pool!nameVars
<1>4. CASE PassAborted
  BY <1>4 DEF PassAborted, execVars, Pool!PassAborted, Pool!clusterVars, Pool!nameVars
<1>5. CASE \E h \in Handshakes : Plan(h)
  BY <1>5
     DEF Plan, execVars, Pool!FileArrives, Pool!clusterVars, Pool!nameVars, Pool!faultVars
<1> QED
  BY <1>1, <1>2, <1>3, <1>4, <1>5 DEF Handover

\* A task appears, or its pod moves on; the pool does not notice.
LEMMA TaskOnlyEffect ==
    ASSUME NEW t \in Tasks, TaskOnly(t), Parts
    PROVE  /\ UNCHANGED <<file, found, podless, old, fresh, running, ended, bursted,
                          blindFills>>
           /\ \/ Place(t) \/ Refuse(t)
              \/ phase[t] = "none" /\ phase' = [phase EXCEPT ![t] = "submitted"]
                 /\ step' = step
              \/ phase[t] = "submitted" /\ phase' = [phase EXCEPT ![t] = "failed"]
                 /\ step' = step
              \/ /\ phase' = phase
                 /\ \/ step' = step
                    \/ /\ Exec!Active(t)
                       /\ \E s \in {"wait", "report", "succeeded", "failed"} :
                              step' = [step EXCEPT ![t] = s]
<1>1. CASE Apply(t)
  BY <1>1 DEF Apply, poolVars, execVars
<1>2. CASE Place(t)
  BY <1>2 DEF Place, poolVars
<1>3. CASE Refuse(t)
  BY <1>3 DEF Refuse, poolVars
<1>4. CASE PlaceFails(t)
  BY <1>4 DEF PlaceFails, poolVars, Exec!MishapElsewhere, Exec!executorVars
<1>5. CASE ProcessStep(t)
  BY <1>5
     DEF ProcessStep, taskVars, poolVars, Exec!Active, Exec!ProcessStep, Exec!NoCommand,
         Exec!Spawn, Exec!Collect, Exec!TimesOut, Exec!Report, Exec!Answer,
         Exec!EndContainer
<1>6. CASE PodEvent(t)
  BY <1>6
     DEF PodEvent, taskVars, poolVars, Exec!Active, Exec!CommandEnds, Exec!Review,
         Exec!SpawnFails, Exec!Killed, Exec!Answer, Exec!EndContainer
<1> QED
  BY <1>1, <1>2, <1>3, <1>4, <1>5, <1>6 DEF TaskOnly, TaskStep

--------------------------------------------------------------------------------
(* Types.                                                                    *)

\* The part of TypeOK that is the cluster's own.
OwnTypes ==
    /\ file \in [Handshakes -> {"unplanned", "pending", "processed"}]
    /\ found \subseteq Handshakes
    /\ phase \in [Tasks -> {"none", "submitted", "placed", "refused", "failed"}]
    /\ podless \in Nat
    /\ running + ended + podless <= Pool!StandbyTasks
    /\ \A t \in Tasks : step[t] # "none" <=> phase[t] = "placed"

\* Standby tasks are counted by a number, and never become fewer.
LEMMA StandbyTasksGrow ==
    ASSUME Parts, Parts',
           Pool!Elapse \/ Pool!CreateStandby(Sidecar) \/ UNCHANGED <<old, fresh>>
    PROVE  /\ Pool!StandbyTasks \in Nat /\ Pool!StandbyTasks' \in Nat
           /\ Pool!StandbyTasks <= Pool!StandbyTasks'
<1>1. /\ IsFiniteSet(fresh) /\ IsFiniteSet(fresh') /\ old \in Nat /\ old' \in Nat
  BY SameSets DEF Parts, Pool!TypeOK
<1>2. Cardinality(fresh) \in Nat /\ Cardinality(fresh') \in Nat
  BY <1>1, FS_CardinalityType
<1>3. /\ Pool!StandbyTasks = old + Cardinality(fresh)
      /\ Pool!StandbyTasks' = old' + Cardinality(fresh')
  BY SameSets DEF Pool!StandbyTasks
<1>4. CASE Pool!Elapse
  <2>1. old' = Pool!StandbyTasks
    BY <1>4 DEF Pool!Elapse
  <2> QED
    BY <1>1, <1>2, <1>3, <2>1
<1>5. CASE Pool!CreateStandby(Sidecar)
  <2>1. old' = old /\ fresh \subseteq fresh'
    BY <1>5 DEF Pool!CreateStandby
  <2>2. Cardinality(fresh) <= Cardinality(fresh')
    BY <1>1, <2>1, FS_Subset
  <2> QED
    BY <1>1, <1>2, <1>3, <2>1, <2>2
<1>6. CASE UNCHANGED <<old, fresh>>
  BY <1>1, <1>2, <1>3, <1>6
<1> QED
  BY <1>4, <1>5, <1>6

\* Whatever happens to pods of the pool, those that run, ended or were refused are
\* no more than its tasks.
LEMMA StandbyPodsStep ==
    ASSUME Parts, Parts', OwnTypes, [Next]_vars
    PROVE  podless' \in Nat /\ (running + ended + podless <= Pool!StandbyTasks)'
<1> USE DEF OwnTypes
<1>1. /\ running \in Nat /\ ended \in Nat /\ podless \in Nat
      /\ running' \in Nat /\ ended' \in Nat
  BY DEF Parts, Pool!TypeOK
<1>2. Pool!StandbyTasks \in Nat /\ Pool!StandbyTasks' \in Nat
  <2>1. /\ IsFiniteSet(fresh) /\ IsFiniteSet(fresh') /\ old \in Nat /\ old' \in Nat
    BY SameSets DEF Parts, Pool!TypeOK
  <2>2. Cardinality(fresh) \in Nat /\ Cardinality(fresh') \in Nat
    BY <2>1, FS_CardinalityType
  <2> QED
    BY <2>1, <2>2, SameSets DEF Pool!StandbyTasks
<1>3. CASE PoolOnly
  <2>1. podless' = podless /\ running' = running /\ ended' = ended
    BY <1>3, PoolOnlyEffect DEF taskVars
  <2>2. Pool!StandbyTasks <= Pool!StandbyTasks'
    BY <1>3, PoolOnlyEffect, StandbyTasksGrow
  <2> QED
    BY <1>1, <1>2, <2>1, <2>2
<1>4. CASE UNCHANGED <<old, fresh>>
  <2>1. Pool!StandbyTasks' = Pool!StandbyTasks
    BY <1>4 DEF Pool!StandbyTasks
  <2>2. CASE StandbyStarts
    <3>1. /\ running + ended + podless < Pool!StandbyTasks
          /\ running' = running + 1 /\ ended' = ended /\ podless' = podless
      BY <2>2 DEF StandbyStarts, StandbyWaits, Pool!PodStarts, taskVars
    <3> QED
      BY <1>1, <1>2, <2>1, <3>1
  <2>3. CASE StandbyRefused \/ StandbyFails
    <3>1. /\ running + ended + podless < Pool!StandbyTasks
          /\ running' = running /\ ended' = ended /\ podless' = podless + 1
      BY <2>3 DEF StandbyRefused, StandbyFails, StandbyWaits, poolVars
    <3> QED
      BY <1>1, <1>2, <2>1, <3>1
  <2>4. CASE StandbyEnds
    <3>1. running' = running - 1 /\ ended' = ended + 1 /\ podless' = podless
      BY <2>4 DEF StandbyEnds, Pool!PodEnds, taskVars
    <3> QED
      BY <1>1, <1>2, <2>1, <3>1
  <2>5. CASE Handover
    BY <1>1, <1>2, <2>1, <2>5, HandoverEffect
  <2>6. CASE \E t \in Tasks : TaskOnly(t)
    BY <1>1, <1>2, <2>1, <2>6, TaskOnlyEffect
  <2>7. CASE UNCHANGED vars
    BY <1>1, <1>2, <2>1, <2>7 DEF vars, taskVars, poolVars
  <2>8. CASE PoolOnly
    BY <1>3, <2>8
  <2> QED
    BY <2>2, <2>3, <2>4, <2>5, <2>6, <2>7, <2>8, NextCases
<1>5. CASE ~UNCHANGED <<old, fresh>> /\ ~PoolOnly
  <2>1. ~Handover
    BY <1>5, HandoverEffect
  <2>2. ~\E t \in Tasks : TaskOnly(t)
    BY <1>5, TaskOnlyEffect
  <2>3. ~(StandbyStarts \/ StandbyRefused \/ StandbyFails \/ StandbyEnds)
    BY <1>5 DEF StandbyStarts, StandbyRefused, StandbyFails, StandbyEnds, poolVars,
                Pool!PodStarts, Pool!PodEnds, Pool!nameVars
  <2> QED
    BY <1>5, <2>1, <2>2, <2>3, NextCases DEF vars, poolVars
<1> QED
  BY <1>3, <1>4, <1>5

\* The books of handshakes and tasks keep their types, and tasks run only in pods.
LEMMA TaskTypesStep ==
    ASSUME Parts, OwnTypes, [Next]_vars
    PROVE  /\ file' \in [Handshakes -> {"unplanned", "pending", "processed"}]
           /\ found' \subseteq Handshakes
           /\ phase' \in [Tasks -> {"none", "submitted", "placed", "refused", "failed"}]
           /\ \A t \in Tasks : step'[t] # "none" <=> phase'[t] = "placed"
<1> USE DEF OwnTypes
<1>0. step \in [Tasks -> {"none", "start", "wait", "report", "succeeded", "failed"}]
  BY DEF Parts, Exec!TypeOK
<1>1. CASE PoolOnly
  BY <1>1, PoolOnlyEffect DEF taskVars
<1>2. CASE StandbyStarts \/ StandbyRefused \/ StandbyFails \/ StandbyEnds
  BY <1>2 DEF StandbyStarts, StandbyRefused, StandbyFails, StandbyEnds, taskVars,
              execVars, Exec!MishapElsewhere, Exec!executorVars
<1>3. CASE Handover
  <2>1. /\ file' \in [Handshakes -> {"unplanned", "pending", "processed"}]
        /\ found' \subseteq Handshakes
    BY <1>3 DEF Handover, Scan, Dispatch, DispatchFails, PassAborted, Plan
  <2>2. step' = step
    BY <1>3, HandoverEffect
  <2>3. CASE phase' = phase
    BY <2>1, <2>2, <2>3
  <2>4. ASSUME NEW H \in SUBSET found, phase' = Submitted(H)
        PROVE  /\ phase' \in [Tasks -> {"none", "submitted", "placed", "refused", "failed"}]
               /\ \A t \in Tasks : step'[t] # "none" <=> phase'[t] = "placed"
    BY <2>2, <2>4 DEF Submitted
  <2> QED
    BY <1>3, <2>1, <2>3, <2>4, HandoverEffect
<1>4. ASSUME NEW t \in Tasks, TaskOnly(t)
      PROVE  /\ UNCHANGED <<file, found>>
             /\ phase' \in [Tasks -> {"none", "submitted", "placed", "refused", "failed"}]
             /\ \A u \in Tasks : step'[u] # "none" <=> phase'[u] = "placed"
  <2>1. CASE Place(t)
    BY <1>0, <2>1 DEF Place, Exec!Start
  <2>2. CASE Refuse(t)
    BY <1>0, <2>2 DEF Refuse, execVars
  <2>3. CASE ~Place(t) /\ ~Refuse(t)
    BY <1>0, <1>4, <2>3, TaskOnlyEffect DEF Exec!Active
  <2> QED
    BY <1>4, <2>1, <2>2, <2>3, TaskOnlyEffect
<1>5. CASE UNCHANGED vars
  BY <1>5 DEF vars, taskVars, execVars
<1> QED
  BY <1>1, <1>2, <1>3, <1>4, <1>5, NextCases

OwnInvariant == OwnTypes /\ RefusalIsShortage

--------------------------------------------------------------------------------
(* What is used of the quota.                                                *)

ActiveTasks == {t \in Tasks : Exec!Active(t)}

\* There are finitely many tasks.
LEMMA TasksAreFinite == IsFiniteSet(Tasks)
<1>1. IsFiniteSet(1 .. 1 + MaxFaults)
  BY ClusterAssumption, FS_Interval
<1>2. IsFiniteSet(Handshakes \X (1 .. 1 + MaxFaults))
  BY <1>1, ClusterAssumption, FS_Product
<1> QED
  BY <1>2, ClusterAssumption, FS_Union DEF Tasks

\* Used is a number; it is the running standby pods and the active executors.
LEMMA UsedType ==
    ASSUME Parts
    PROVE  /\ IsFiniteSet(ActiveTasks) /\ Cardinality(ActiveTasks) \in Nat
           /\ running \in Nat
           /\ Used = running + Cardinality(ActiveTasks)
<1>1. IsFiniteSet(ActiveTasks)
  BY TasksAreFinite, FS_Subset DEF ActiveTasks
<1> QED
  BY <1>1, FS_CardinalityType DEF Used, ActiveTasks, Parts, Pool!TypeOK

--------------------------------------------------------------------------------
(* Refusals.                                                                 *)

\* What the pool, its bursts and the tasks may ask for.
Demand == Desired * (1 + blindFills) + bursted + Cardinality(Created)

\* What is asked of the pool is a number.
LEMMA DemandType ==
    ASSUME Parts
    PROVE  /\ IsFiniteSet(Created) /\ Cardinality(Created) \in Nat
           /\ bursted \in Nat /\ blindFills \in Nat /\ Desired \in Nat
           /\ Desired * (1 + blindFills) \in Nat
<1>1. IsFiniteSet(Created)
  BY TasksAreFinite, FS_Subset DEF Created
<1>2. bursted \in Nat /\ blindFills \in Nat /\ Desired \in Nat
  BY ClusterAssumption DEF Parts, Pool!TypeOK
<1> QED
  BY <1>1, <1>2, FS_CardinalityType

\* Tasks are never taken back, and neither are bursts and blind fills.
LEMMA DemandGrows ==
    ASSUME Parts, OwnTypes, [Next]_vars
    PROVE  /\ Created \subseteq Created'
           /\ bursted' \in {bursted, bursted + 1}
           /\ blindFills' \in {blindFills, blindFills + 1}
<1>1. CASE PoolOnly
  BY <1>1, PoolOnlyEffect DEF taskVars, Created
<1>2. CASE Handover
  <2>1. UNCHANGED <<bursted, blindFills>>
    BY <1>2, HandoverEffect
  <2>2. Created \subseteq Created'
    BY <1>2, HandoverEffect DEF Created, Submitted
  <2> QED
    BY <2>1, <2>2
<1>3. CASE StandbyStarts \/ StandbyRefused \/ StandbyFails \/ StandbyEnds
  BY <1>3 DEF StandbyStarts, StandbyRefused, StandbyFails, StandbyEnds, taskVars, poolVars,
              Pool!PodStarts, Pool!PodEnds, Pool!faultVars, Created
<1>4. ASSUME NEW t \in Tasks, TaskOnly(t)
      PROVE  Created \subseteq Created' /\ UNCHANGED <<bursted, blindFills>>
  <2>1. UNCHANGED <<bursted, blindFills>>
    BY <1>4, TaskOnlyEffect
  <2>2. CASE Place(t) \/ Refuse(t)
    BY <2>1, <2>2 DEF Place, Refuse, Created, OwnTypes
  <2>3. CASE ~Place(t) /\ ~Refuse(t)
    BY <1>4, <2>1, <2>3, TaskOnlyEffect DEF Created, OwnTypes
  <2> QED
    BY <2>2, <2>3
<1>5. CASE UNCHANGED vars
  BY <1>5 DEF vars, taskVars, poolVars, Created
<1> QED
  BY <1>1, <1>2, <1>3, <1>4, <1>5, NextCases

\* At a refusal the slots are full, with pods that the pool and other tasks have.
LEMMA RefusalMeansDemand ==
    ASSUME Parts, OwnTypes, NEW t \in Tasks, Refuse(t)
    PROVE  Slots < Demand
<1>1. phase[t] = "submitted" /\ Slots <= Used
  BY UsedType, ClusterAssumption DEF Refuse, SlotFree
<1>2. t \in Created /\ ActiveTasks \subseteq Created \ {t}
  BY <1>1 DEF ActiveTasks, Created, Exec!Active, OwnTypes
<1>3. Cardinality(Created \ {t}) = Cardinality(Created) - 1
  BY <1>2, DemandType, FS_RemoveElement
<1>4. Cardinality(ActiveTasks) <= Cardinality(Created \ {t})
  BY <1>2, DemandType, FS_RemoveElement, FS_Subset
<1>5. running <= Desired * (1 + blindFills) + bursted
  <2>1. Cardinality({Sidecar}) = 1
    BY FS_Singleton
  <2>2. Pool!StandbyTasks <= Desired * (1 + blindFills) + bursted
    BY <2>1, SameSets DEF Parts, Pool!PoolIsBounded
  <2>3. Pool!StandbyTasks \in Nat
    <3>1. IsFiniteSet(fresh) /\ old \in Nat
      BY SameSets DEF Parts, Pool!TypeOK
    <3> QED
      BY <3>1, SameSets, FS_CardinalityType DEF Pool!StandbyTasks
  <2>4. running <= Pool!StandbyTasks
    BY <2>3 DEF Parts, Pool!TypeOK
  <2> QED
    BY <2>2, <2>3, <2>4, DemandType, UsedType
<1> QED
  BY <1>1, <1>3, <1>4, <1>5, UsedType, DemandType, ClusterAssumption DEF Demand

\* A refusal stays explained: what was demanded then is still demanded, or more.
LEMMA RefusalStep ==
    ASSUME Parts, Parts', OwnTypes, RefusalIsShortage, [Next]_vars
    PROVE  RefusalIsShortage'
<1>1. Demand <= Demand'
  <2>1. Cardinality(Created) <= Cardinality(Created') /\ Cardinality(Created') \in Nat
    <3>1. IsFiniteSet(Created')
      BY TasksAreFinite, FS_Subset DEF Created
    <3> QED
      BY <3>1, DemandGrows, FS_Subset, FS_CardinalityType
  <2>2. Desired * (1 + (blindFills + 1)) = Desired * (1 + blindFills) + Desired
    BY DemandType
  <2>3. /\ Desired * (1 + blindFills) <= Desired * (1 + blindFills')
        /\ Desired * (1 + blindFills') \in Nat
    BY <2>2, DemandType, DemandGrows
  <2> QED
    BY <2>1, <2>3, DemandType, DemandGrows DEF Demand
<1>2. Demand \in Nat /\ Slots \in Nat /\ Demand' \in Nat
  <2>1. IsFiniteSet(Created') /\ Cardinality(Created') \in Nat
    BY TasksAreFinite, FS_Subset, FS_CardinalityType DEF Created
  <2>2. Desired * (1 + (blindFills + 1)) = Desired * (1 + blindFills) + Desired
    BY DemandType
  <2> QED
    BY <2>1, <2>2, DemandType, DemandGrows, ClusterAssumption DEF Demand
<1>3. CASE \E t \in Tasks : phase[t] = "refused"
  BY <1>1, <1>2, <1>3 DEF RefusalIsShortage, Demand
<1>4. CASE \E t \in Tasks : Refuse(t)
  BY <1>1, <1>2, <1>4, RefusalMeansDemand DEF RefusalIsShortage, Demand
<1>5. CASE /\ ~\E t \in Tasks : phase[t] = "refused"
           /\ ~\E t \in Tasks : Refuse(t)
  <2>1. ~\E t \in Tasks : phase'[t] = "refused"
    <3>1. CASE PoolOnly
      BY <1>5, <3>1, PoolOnlyEffect DEF taskVars
    <3>2. CASE Handover
      BY <1>5, <3>2, HandoverEffect DEF Submitted
    <3>3. CASE StandbyStarts \/ StandbyRefused \/ StandbyFails \/ StandbyEnds
      BY <1>5, <3>3 DEF StandbyStarts, StandbyRefused, StandbyFails, StandbyEnds, taskVars
    <3>4. ASSUME NEW t \in Tasks, TaskOnly(t) PROVE ~\E u \in Tasks : phase'[u] = "refused"
      <4>1. CASE Place(t)
        BY <1>5, <4>1 DEF Place, OwnTypes
      <4>2. CASE ~Place(t)
        BY <1>5, <3>4, <4>2, TaskOnlyEffect DEF OwnTypes
      <4> QED
        BY <4>1, <4>2
    <3>5. CASE UNCHANGED vars
      BY <1>5, <3>5 DEF vars, taskVars
    <3> QED
      BY <3>1, <3>2, <3>3, <3>4, <3>5, NextCases
  <2> QED
    BY <2>1 DEF RefusalIsShortage
<1> QED
  BY <1>3, <1>4, <1>5

--------------------------------------------------------------------------------
(* The theorems.                                                             *)

\* What relates the components holds at the start.
LEMMA InitOwn == Init => OwnInvariant
<1> SUFFICES ASSUME Init PROVE OwnInvariant
  OBVIOUS
<1>1. old = 0 /\ fresh = {} /\ running = 0 /\ ended = 0 /\ podless = 0
  BY DEF Init, Pool!Init
<1>2. step = [t \in Tasks |-> "none"] /\ phase = [t \in Tasks |-> "none"]
  BY DEF Init, Exec!Init
<1>3. Pool!StandbyTasks = 0
  BY <1>1, SameSets, FS_EmptySet DEF Pool!StandbyTasks
<1>4. OwnTypes
  BY <1>1, <1>2, <1>3 DEF Init, OwnTypes
<1>5. RefusalIsShortage
  BY <1>2 DEF RefusalIsShortage
<1> QED
  BY <1>4, <1>5 DEF OwnInvariant

\* Every step keeps what relates the components.
LEMMA NextOwn ==
    ASSUME Parts, Parts', OwnInvariant, [Next]_vars
    PROVE  OwnInvariant'
<1>1. OwnTypes'
  BY StandbyPodsStep, TaskTypesStep DEF OwnInvariant, OwnTypes
<1> QED
  BY <1>1, RefusalStep DEF OwnInvariant

\* The parts' invariants and their relation hold together.
LEMMA Invariance == Spec => [](Parts /\ OwnInvariant)
<1>1. Spec => []Parts
  BY PartsHold, PTL DEF Parts
<1> QED
  BY <1>1, InitOwn, NextOwn, PTL DEF Spec

\* Every variable of the cluster keeps its type, and only tasks with a pod run.
THEOREM TypeCorrect == Spec => []TypeOK
<1>1. Parts /\ OwnInvariant => TypeOK
  BY DEF Parts, OwnInvariant, OwnTypes, TypeOK
<1> QED
  BY <1>1, Invariance, PTL

\* For every quota, pool size, number of tasks and of failures: a namespace with
\* room for the pool, its bursts and the tasks refuses none of them.
THEOREM RefusalIsShortageHolds == Spec => []RefusalIsShortage
BY Invariance, PTL DEF OwnInvariant

\* The executors' theorems hold in the cluster: success and approval are earned.
THEOREM ApprovalIsEarnedHolds == Spec => []ApprovalIsEarned
BY PartsHold, PTL

\* The relation of results, commands and verdicts, in the cluster.
THEOREM ResultInvariantHolds == Spec => []ResultInvariant
<1>1. Parts => ResultInvariant
  BY DEF Parts, ResultInvariant
<1> QED
  BY <1>1, Invariance, PTL

\* A process counts fewer failures than escalation takes: with MAX_ITERATIONS above one (it
\* is five) no executor ever emits ESCALATE.
THEOREM NeverEscalates ==
    ASSUME MaxIterations > 1
    PROVE  Spec => [](escalated = {})
<1> DEFINE Quiet == escalated = {}
<1>1. Init => Quiet
  BY DEF Init, Exec!Init
<1>2. ASSUME Exec!TypeOK, Quiet, [Next]_vars PROVE Quiet'
  <2>1. [Exec!Next]_(Exec!vars)
    BY <1>2, NextIsExecNext
  <2>2. CASE UNCHANGED Exec!vars
    BY <1>2, <2>2 DEF Exec!vars
  <2>3. ASSUME NEW t \in Tasks, ExecStep(t) PROVE Quiet'
    <3>1. ~(failures[t] >= MaxIterations)
      BY <1>2, ClusterAssumption DEF Exec!TypeOK
    <3> QED
      BY <1>2, <2>3, <3>1
         DEF ExecStep, Exec!ProcessStep, Exec!Start, Exec!NoCommand, Exec!Spawn,
             Exec!Collect, Exec!TimesOut, Exec!Report, Exec!CommandEnds, Exec!Review,
             Exec!SpawnFails, Exec!Killed
  <2>4. CASE Exec!MishapElsewhere
    BY <1>2, <2>4 DEF Exec!MishapElsewhere, Exec!executorVars
  <2> QED
    BY <2>1, <2>2, <2>3, <2>4 DEF Exec!Next, ExecStep
<1> QED
  BY <1>1, <1>2, PartsHold, PTL DEF Spec
================================================================================
