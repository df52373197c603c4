------------------------- MODULE WarmPoolManagerProofs -------------------------
(***************************************************************************)
(* Proofs about the warm pool for every size of it, every number of        *)
(* handshakes, deletions and faults.                                       *)
(***************************************************************************)
EXTENDS WarmPoolManager, FiniteSetTheorems, TLAPS

--------------------------------------------------------------------------------
(* Types.  They hold for any number of sidecars.                             *)

\* A sidecar has scanned no more files than there are.
BatchIsThere == \A s \in Sidecars : batch[s] <= files[s]

Types == TypeOK /\ BatchIsThere

\* Standby tasks can be counted.
LEMMA StandbyTasksType ==
    ASSUME TypeOK
    PROVE  Cardinality(fresh) \in Nat /\ StandbyTasks \in Nat
<1>1. Cardinality(fresh) \in Nat
  BY FS_CardinalityType DEF TypeOK
<1> QED
  BY <1>1 DEF TypeOK, StandbyTasks

\* A second later the tasks are the same, and all names are free.
LEMMA ElapseKeepsTasks ==
    ASSUME TypeOK, Elapse
    PROVE  /\ old' \in Nat /\ fresh' \subseteq Nat /\ IsFiniteSet(fresh')
           /\ StandbyTasks' = StandbyTasks
<1>1. Cardinality({}) = 0 /\ IsFiniteSet({})
  BY FS_EmptySet
<1>2. StandbyTasks \in Nat
  BY StandbyTasksType
<1> QED
  BY <1>1, <1>2 DEF Elapse, StandbyTasks

\* A creation adds one task, or none when the name exists.
LEMMA CreateAddsTask ==
    ASSUME TypeOK, NEW s \in Sidecars, CreateStandby(s)
    PROVE  /\ old' \in Nat /\ fresh' \subseteq Nat /\ IsFiniteSet(fresh')
           /\ base[s] \in fresh => StandbyTasks' = StandbyTasks
           /\ base[s] \notin fresh => StandbyTasks' = StandbyTasks + 1
<1>1. base[s] \in Nat /\ fresh \subseteq Nat /\ IsFiniteSet(fresh) /\ old \in Nat
  BY DEF TypeOK
<1>2. Cardinality(fresh) \in Nat
  BY StandbyTasksType
<1>3. /\ IsFiniteSet(fresh \cup {base[s]})
      /\ base[s] \notin fresh => Cardinality(fresh \cup {base[s]}) = Cardinality(fresh) + 1
      /\ base[s] \in fresh => fresh \cup {base[s]} = fresh
  BY <1>1, FS_AddElement
<1>4. old' = old /\ fresh' = fresh \cup {base[s]} /\ fresh' \subseteq Nat
  BY <1>1 DEF CreateStandby
<1>5. CASE base[s] \in fresh
  BY <1>1, <1>3, <1>4, <1>5 DEF StandbyTasks
<1>6. CASE base[s] \notin fresh
  <2>1. Cardinality(fresh') = Cardinality(fresh) + 1 /\ IsFiniteSet(fresh')
    BY <1>3, <1>4, <1>6
  <2> QED
    BY <1>1, <1>2, <1>4, <1>6, <2>1 DEF StandbyTasks
<1> QED
  BY <1>5, <1>6

\* A deletion takes one task.
LEMMA DeletionTakesTask ==
    ASSUME TypeOK, TaskDeleted
    PROVE  /\ old' \in Nat /\ fresh' \subseteq Nat /\ IsFiniteSet(fresh')
           /\ StandbyTasks' = StandbyTasks - 1
<1>1. old \in Nat /\ fresh \subseteq Nat /\ IsFiniteSet(fresh)
  BY DEF TypeOK
<1>2. Cardinality(fresh) \in Nat
  BY StandbyTasksType
<1>3. CASE old > 0 /\ old' = old - 1 /\ fresh' = fresh
  BY <1>1, <1>2, <1>3 DEF StandbyTasks
<1>4. ASSUME NEW i \in fresh, fresh' = fresh \ {i}, old' = old
      PROVE  /\ old' \in Nat /\ fresh' \subseteq Nat /\ IsFiniteSet(fresh')
             /\ StandbyTasks' = StandbyTasks - 1
  <2>1. IsFiniteSet(fresh \ {i}) /\ Cardinality(fresh \ {i}) = Cardinality(fresh) - 1
    BY <1>1, FS_RemoveElement
  <2> QED
    BY <1>1, <1>2, <1>4, <2>1 DEF StandbyTasks
<1> QED
  BY <1>3, <1>4 DEF TaskDeleted

\* A fault is counted within its bound, and pays for a blind fill.
LEMMA FaultType ==
    ASSUME TypeOK, Fault
    PROVE  /\ faults' = faults + 1 /\ faults' \in 0 .. MaxFaults
           /\ blindFills \in 0 .. faults' /\ blindFills + 1 \in 0 .. faults'
BY BoundsAssumption DEF TypeOK, Fault

\* A deficit is never negative.
LEMMA DeficitType == \A count \in Nat : Deficit(count) \in Nat
BY BoundsAssumption DEF Deficit

\* The variables have their types at the start.
LEMMA InitTypes == Init => Types
<1> SUFFICES ASSUME Init PROVE Types
  OBVIOUS
<1>1. IsFiniteSet({}) /\ Cardinality({}) = 0
  BY FS_EmptySet
<1> QED
  BY <1>1, BoundsAssumption DEF Init, Types, TypeOK, BatchIsThere, StandbyTasks, Places

\* The steps of the cluster and of the planner.
LEMMA ClusterTypes ==
    ASSUME Types, Tick \/ PodStarts \/ PodEnds \/ TaskDeleted
    PROVE  Types'
<1>1. /\ UNCHANGED <<files, pc, base, left, batch, bursted, arrived, faults, blindFills>>
      /\ BatchIsThere'
  BY DEF Tick, PodStarts, PodEnds, TaskDeleted, loopVars, faultVars, Types, BatchIsThere
<1>2. /\ old' \in Nat /\ fresh' \subseteq Nat /\ IsFiniteSet(fresh')
      /\ running' \in Nat /\ ended' \in Nat /\ running' + ended' <= StandbyTasks'
      /\ deletes' \in 0 .. MaxDeletes
  <2>1. /\ running \in Nat /\ ended \in Nat /\ running + ended <= StandbyTasks
        /\ StandbyTasks \in Nat /\ deletes \in 0 .. MaxDeletes
    BY StandbyTasksType DEF Types, TypeOK
  <2>2. CASE Tick
    BY <2>1, <2>2, ElapseKeepsTasks DEF Tick, clusterVars, Types
  <2>3. CASE PodStarts \/ PodEnds
    <3>1. StandbyTasks' = StandbyTasks
      BY <2>3 DEF PodStarts, PodEnds, nameVars, StandbyTasks
    <3>2. UNCHANGED <<old, fresh, deletes>>
      BY <2>3 DEF PodStarts, PodEnds, nameVars
    <3>3. /\ running' \in Nat /\ ended' \in Nat
          /\ running' + ended' <= StandbyTasks
      BY <2>1, <2>3 DEF PodStarts, PodEnds
    <3> QED
      BY <2>1, <3>1, <3>2, <3>3 DEF Types, TypeOK
  <2>4. CASE TaskDeleted
    <3>1. /\ old' \in Nat /\ fresh' \subseteq Nat /\ IsFiniteSet(fresh')
          /\ StandbyTasks' = StandbyTasks - 1
      BY <2>4, DeletionTakesTask DEF Types
    <3>2. /\ running' \in Nat /\ ended' \in Nat
          /\ running' + ended' <= StandbyTasks - 1
      BY <2>1, <2>4 DEF TaskDeleted
    <3>3. deletes' \in 0 .. MaxDeletes
      BY <2>1, <2>4, BoundsAssumption DEF TaskDeleted
    <3> QED
      BY <3>1, <3>2, <3>3
  <2> QED
    BY <2>2, <2>3, <2>4
<1> QED
  BY <1>1, <1>2 DEF Types, TypeOK

\* What a loop step may do to the names: nothing, a second, or a creation.
LEMMA NamesAfterStep ==
    ASSUME TypeOK, NEW s \in Sidecars,
           Elapse \/ CreateStandby(s) \/ UNCHANGED nameVars
    PROVE  /\ old' \in Nat /\ fresh' \subseteq Nat /\ IsFiniteSet(fresh')
           /\ StandbyTasks' \in Nat /\ StandbyTasks <= StandbyTasks'
<1>1. StandbyTasks \in Nat
  BY StandbyTasksType
<1>2. CASE UNCHANGED nameVars
  BY <1>1, <1>2 DEF nameVars, StandbyTasks, TypeOK
<1> QED
  BY <1>1, <1>2, ElapseKeepsTasks, CreateAddsTask

\* The steps of a sidecar.
LEMMA LoopTypes ==
    ASSUME Types, NEW s \in Sidecars, FileArrives(s) \/ SidecarStep(s) \/ SidecarFault(s)
    PROVE  Types'
<1>1. TypeOK /\ StandbyTasks \in Nat
  BY StandbyTasksType DEF Types
<1>2. /\ old' \in Nat /\ fresh' \subseteq Nat /\ IsFiniteSet(fresh')
      /\ running' \in Nat /\ ended' \in Nat /\ running' + ended' <= StandbyTasks'
      /\ deletes' \in 0 .. MaxDeletes
  <2>1. Elapse \/ CreateStandby(s) \/ UNCHANGED nameVars
    BY DEF FileArrives, SidecarStep, SidecarFault, Wake, Count, Fill, Scan, CountIdle,
           Recount, Burst, Dispatch, CountFails, FillFails, BurstFails, DispatchFails,
           PassAborted
  <2>2. UNCHANGED <<running, ended, deletes>>
    BY DEF FileArrives, SidecarStep, SidecarFault, Wake, Count, Fill, Scan, CountIdle,
           Recount, Burst, Dispatch, CountFails, FillFails, BurstFails, DispatchFails,
           PassAborted, clusterVars
  <2>3. /\ old' \in Nat /\ fresh' \subseteq Nat /\ IsFiniteSet(fresh')
        /\ StandbyTasks' \in Nat /\ StandbyTasks <= StandbyTasks'
    BY <1>1, <2>1, NamesAfterStep
  <2> QED
    BY <1>1, <2>2, <2>3 DEF TypeOK
<1>3. bursted' \in Nat /\ arrived' \in 0 .. MaxFiles
  BY BoundsAssumption
     DEF FileArrives, SidecarStep, SidecarFault, Wake, Count, Fill, Scan, CountIdle,
         Recount, Burst, Dispatch, CountFails, FillFails, BurstFails, DispatchFails,
         PassAborted, Types, TypeOK
<1>4. faults' \in 0 .. MaxFaults /\ blindFills' \in 0 .. faults'
  <2>1. CASE UNCHANGED faultVars
    BY <1>1, <2>1 DEF faultVars, TypeOK
  <2>2. CASE Fault /\ blindFills' \in {blindFills, blindFills + 1}
    BY <1>1, <2>2, FaultType
  <2> QED
    BY <2>1, <2>2
       DEF FileArrives, SidecarStep, SidecarFault, Wake, Count, Fill, Scan, CountIdle,
           Recount, Burst, Dispatch, CountFails, FillFails, BurstFails, DispatchFails,
           PassAborted
<1>5. /\ files' \in [Sidecars -> Nat] /\ batch' \in [Sidecars -> Nat]
      /\ BatchIsThere'
  <2>1. /\ files \in [Sidecars -> Nat] /\ batch \in [Sidecars -> Nat]
        /\ \A x \in Sidecars : batch[x] <= files[x]
    BY DEF Types, TypeOK, BatchIsThere
  <2>2. CASE FileArrives(s)
    BY <2>1, <2>2 DEF FileArrives, loopVars, BatchIsThere
  <2>3. CASE Scan(s)
    BY <2>1, <2>3 DEF Scan, BatchIsThere
  <2>4. CASE UNCHANGED <<files, batch>>
    BY <2>1, <2>4 DEF BatchIsThere
  <2>5. CASE EndPass(s) /\ \E n \in 0 .. batch[s] : files' = [files EXCEPT ![s] = @ - n]
    BY <2>1, <2>5 DEF EndPass, BatchIsThere
  <2>6. CASE Dispatch(s) \/ DispatchFails(s) \/ PassAborted(s)
    <3>1. batch[s] \in 0 .. batch[s] /\ 0 \in 0 .. batch[s]
      BY <2>1
    <3>2. files = [files EXCEPT ![s] = files[s] - 0]
      BY <2>1
    <3> QED
      BY <2>5, <2>6, <3>1, <3>2 DEF Dispatch, DispatchFails, PassAborted
  <2> QED
    BY <2>2, <2>3, <2>4, <2>6
       DEF SidecarStep, SidecarFault, Wake, Count, Fill, CountIdle, Recount, Burst,
           CountFails, FillFails, BurstFails, StartFill, NextIndex
<1> DEFINE LocalsOK ==
        /\ pc' \in [Sidecars -> Places] /\ base' \in [Sidecars -> Nat]
        /\ left' \in [Sidecars -> Nat]
        /\ \A x \in Sidecars : pc'[x] \in {"fill", "recount", "burst"} => left'[x] > 0
<1>6. LocalsOK
  <2>1. /\ pc \in [Sidecars -> Places] /\ base \in [Sidecars -> Nat]
        /\ left \in [Sidecars -> Nat] /\ batch \in [Sidecars -> Nat]
        /\ \A x \in Sidecars : pc[x] \in {"fill", "recount", "burst"} => left[x] > 0
        /\ running \in Nat
    BY DEF Types, TypeOK
  <2>2. CASE EndPass(s)
    BY <2>1, <2>2 DEF EndPass, Goto, Places
  <2>3. CASE UNCHANGED loopVars
    BY <2>1, <2>3 DEF loopVars
  <2>4. CASE Wake(s) \/ Scan(s)
    BY <2>1, <2>4 DEF Wake, Scan, Goto, Places
  <2>5. ASSUME NEW count \in Nat, StartFill(s, count)
        PROVE  LocalsOK
    BY <2>1, <2>5, DeficitType DEF StartFill, Goto, Places
  <2>6. ASSUME NEW next \in {"scan", "dispatch"}, NextIndex(s, next),
               pc[s] \in {"fill", "burst"}
        PROVE  LocalsOK
    <3>1. left[s] > 0 /\ left[s] \in Nat /\ base[s] \in Nat
      BY <2>1, <2>6
    <3>2. base' \in [Sidecars -> Nat] /\ left' \in [Sidecars -> Nat]
      BY <2>1, <2>6, <3>1 DEF NextIndex
    <3>3. pc' = [pc EXCEPT ![s] = next] \/ (pc' = pc /\ left[s] # 1)
      BY <2>1, <2>6 DEF NextIndex, Goto
    <3>4. left' = [left EXCEPT ![s] = left[s] - 1]
      BY <2>6 DEF NextIndex
    <3> QED
      BY <2>1, <2>6, <3>1, <3>2, <3>3, <3>4 DEF Places
  <2>7. CASE CountIdle(s) \/ Recount(s)
    BY <2>1, <2>7 DEF CountIdle, Recount, BurstNeeded, Goto, At, Places
  <2> QED
    BY <1>1, <2>2, <2>3, <2>4, <2>5, <2>6, <2>7
       DEF FileArrives, SidecarStep, SidecarFault, Count, Fill, Burst, Dispatch,
           CountFails, FillFails, BurstFails, DispatchFails, PassAborted, At
<1> QED
  BY <1>2, <1>3, <1>4, <1>5, <1>6 DEF Types, TypeOK

\* Every step keeps the types.
LEMMA NextTypes ==
    ASSUME Types, [Next]_vars
    PROVE  Types'
<1>1. CASE UNCHANGED vars
  BY <1>1 DEF vars, Types, TypeOK, BatchIsThere, StandbyTasks
<1> QED
  BY <1>1, ClusterTypes, LoopTypes DEF Next

\* Every variable keeps its type, for any number of sidecars.
THEOREM TypeCorrect == Spec => []TypeOK
<1>1. Types => TypeOK
  BY DEF Types
<1> QED
  BY <1>1, InitTypes, NextTypes, PTL DEF Spec

--------------------------------------------------------------------------------
(* The bounds, for one sidecar.                                              *)

\* The two sides of the ledger for sidecar s.
PoolLedger(s) ==
    StandbyTasks + Filling(s) <= Desired * (1 + blindFills) + bursted

BurstLedger(s) ==
    /\ files[s] <= arrived
    /\ bursted + Unpaid(s) <= arrived * (1 + faults)

\* The products of the bounds grow with each of their factors.
LEMMA Products ==
    ASSUME NEW a \in Nat, NEW f \in Nat
    PROVE  /\ a * (1 + f) \in Nat
           /\ a * (1 + (f + 1)) = a * (1 + f) + a
           /\ (a + 1) * (1 + f) = a * (1 + f) + f + 1
OBVIOUS

\* The numbers of one sidecar.
LEMMA LoopNumbers ==
    ASSUME Types, NEW s \in Sidecars
    PROVE  /\ files[s] \in Nat /\ left[s] \in Nat /\ batch[s] \in Nat
           /\ batch[s] <= files[s]
           /\ pc[s] \in {"fill", "recount", "burst"} => left[s] > 0
           /\ running \in Nat /\ bursted \in Nat /\ arrived \in Nat
           /\ faults \in Nat /\ blindFills \in Nat /\ StandbyTasks \in Nat
<1>1. TypeOK /\ batch[s] <= files[s]
  BY DEF Types, BatchIsThere
<1> QED
  BY <1>1, StandbyTasksType, BoundsAssumption DEF TypeOK

\* A fill takes the pool to its size from what the count says.
LEMMA FillIsBounded ==
    ASSUME NEW c \in Nat
    PROVE  /\ Deficit(c) \in Nat /\ Deficit(c) <= Desired
           /\ Deficit(c) > 0 => c + Deficit(c) = Desired
BY BoundsAssumption DEF Deficit

\* A fill has as much to create as the count says is missing.
LEMMA StartFillEffect ==
    ASSUME Types, NEW s \in Sidecars, NEW c \in Nat, StartFill(s, c)
    PROVE  Filling(s)' = Deficit(c)
<1>1. /\ left'[s] = Deficit(c)
      /\ pc'[s] = IF Deficit(c) > 0 THEN "fill" ELSE "scan"
  BY DEF StartFill, Goto, Types, TypeOK
<1> QED
  BY <1>1, FillIsBounded DEF Filling

\* After each creation there is one less to come.
LEMMA NextIndexEffect ==
    ASSUME Types, NEW s \in Sidecars, NEW next \in {"scan", "dispatch"},
           NextIndex(s, next), pc[s] \in {"fill", "burst"}
    PROVE  /\ left'[s] = left[s] - 1
           /\ pc'[s] = IF left[s] = 1 THEN next ELSE pc[s]
BY DEF NextIndex, Goto, Types, TypeOK

\* The pool stays within "share" while other sidecars are to create "other" tasks:
\* a count that succeeds sees every task, a count that fails may add a pool, a
\* burst is counted.
LEMMA SharedLedgerStep ==
    ASSUME Types, NEW s \in Sidecars, NEW share \in Nat, NEW other \in Nat,
           other + Desired <= share,
           StandbyTasks + Filling(s) + other <= share + Desired * blindFills + bursted,
           FileArrives(s) \/ SidecarStep(s) \/ SidecarFault(s)
    PROVE  StandbyTasks' + Filling(s)' + other <= share + Desired * blindFills' + bursted'
<1> DEFINE bound == share + Desired * blindFills
<1>1. /\ left[s] \in Nat /\ bursted \in Nat /\ StandbyTasks \in Nat
      /\ blindFills \in Nat /\ Desired \in Nat
      /\ pc[s] \in {"fill", "recount", "burst"} => left[s] > 0
  BY LoopNumbers, BoundsAssumption
<1>2. bound \in Nat /\ bound >= Desired + other
      /\ share + Desired * (blindFills + 1) = bound + Desired
  <2>1. Desired * (blindFills + 1) = Desired * blindFills + Desired
        /\ Desired * blindFills \in Nat
    BY <1>1
  <2> QED
    BY <1>1, <2>1
<1>3. StandbyTasks + Filling(s) + other <= bound + bursted /\ Filling(s) \in Nat
  BY <1>1 DEF Filling
<1> HIDE DEF bound
<1>4. CASE Count(s)
  <2>1. /\ Filling(s)' = Deficit(StandbyTasks) /\ StandbyTasks' = StandbyTasks
        /\ bursted' = bursted /\ blindFills' = blindFills
    BY <1>1, <1>4, StartFillEffect DEF Count, nameVars, faultVars, StandbyTasks
  <2>2. StandbyTasks + Filling(s)' + other <= bound + bursted
    BY <1>1, <1>2, <1>3, <2>1, FillIsBounded
  <2> QED
    BY <2>1, <2>2 DEF bound
<1>5. CASE CountFails(s)
  <2>1. /\ Filling(s)' = Deficit(0) /\ StandbyTasks' = StandbyTasks
        /\ bursted' = bursted /\ blindFills' = blindFills + 1
    BY <1>5, StartFillEffect DEF CountFails, nameVars, StandbyTasks
  <2>2. StandbyTasks + Filling(s)' + other <= bound + Desired + bursted
    BY <1>1, <1>2, <1>3, <2>1, FillIsBounded
  <2> QED
    BY <1>2, <2>1, <2>2
<1>6. CASE Fill(s) \/ FillFails(s)
  <2>1. /\ left'[s] = left[s] - 1
        /\ pc'[s] = IF left[s] = 1 THEN "scan" ELSE "fill"
        /\ pc[s] = "fill"
    BY <1>6, NextIndexEffect DEF Fill, FillFails, At
  <2>2. Filling(s)' = Filling(s) - 1
    BY <1>1, <2>1 DEF Filling
  <2>3. StandbyTasks' \in {StandbyTasks, StandbyTasks + 1}
    <3>1. CASE CreateStandby(s)
      BY <3>1, CreateAddsTask DEF Types
    <3>2. CASE UNCHANGED nameVars
      BY <3>2 DEF nameVars, StandbyTasks
    <3> QED
      BY <1>6, <3>1, <3>2 DEF Fill, FillFails
  <2>4. bursted' = bursted /\ blindFills' = blindFills
    BY <1>6 DEF Fill, FillFails, faultVars
  <2>5. StandbyTasks' + Filling(s)' + other <= bound + bursted
    BY <1>1, <1>2, <1>3, <2>2, <2>3
  <2> QED
    BY <2>4, <2>5 DEF bound
<1>7. CASE Burst(s)
  <2>1. Filling(s)' = 0 /\ Filling(s) = 0
    <3>1. pc[s] = "burst" /\ pc'[s] \in {"burst", "dispatch"}
      BY <1>7, NextIndexEffect DEF Burst, At
    <3> QED
      BY <3>1 DEF Filling
  <2>2. StandbyTasks' - StandbyTasks = bursted' - bursted /\ bursted' \in Nat
        /\ StandbyTasks' \in Nat
    BY <1>1, <1>7, CreateAddsTask DEF Burst, Types
  <2>3. blindFills' = blindFills
    BY <1>7 DEF Burst, faultVars
  <2>4. StandbyTasks' + Filling(s)' + other <= bound + bursted'
    BY <1>1, <1>2, <1>3, <2>1, <2>2
  <2> QED
    BY <2>3, <2>4 DEF bound
<1>8. CASE /\ StandbyTasks' = StandbyTasks /\ bursted' = bursted
           /\ blindFills' = blindFills /\ Filling(s)' \in {0, Filling(s)}
  <2>1. StandbyTasks' + Filling(s)' + other <= bound + bursted'
    BY <1>1, <1>2, <1>3, <1>8
  <2> QED
    BY <1>8, <2>1 DEF bound
<1>9. CASE Wake(s)
  <2>1. pc'[s] = "count"
    BY <1>9 DEF Wake, Goto, Types, TypeOK
  <2>2. StandbyTasks' = StandbyTasks
    BY <1>9, ElapseKeepsTasks DEF Wake, Types
  <2> QED
    BY <1>8, <1>9, <2>1, <2>2 DEF Wake, faultVars, Filling
<1>10. CASE \/ FileArrives(s) \/ Scan(s) \/ CountIdle(s) \/ Recount(s) \/ BurstFails(s)
            \/ Dispatch(s) \/ DispatchFails(s) \/ PassAborted(s)
  <2>1. StandbyTasks' = StandbyTasks /\ bursted' = bursted /\ blindFills' = blindFills
    BY <1>10
       DEF FileArrives, Scan, CountIdle, Recount, BurstFails, Dispatch, DispatchFails,
           PassAborted, nameVars, faultVars, StandbyTasks
  <2>2. Filling(s)' \in {0, Filling(s)}
    <3>1. CASE FileArrives(s)
      BY <3>1 DEF FileArrives, loopVars, Filling
    <3>2. CASE ~FileArrives(s)
      <4>1. pc'[s] # "fill"
        BY <1>10, <3>2, NextIndexEffect
           DEF Scan, CountIdle, Recount, BurstFails, Dispatch, DispatchFails,
               PassAborted, EndPass, Goto, At, Types, TypeOK
      <4> QED
        BY <4>1 DEF Filling
    <3> QED
      BY <3>1, <3>2
  <2> QED
    BY <1>8, <2>1, <2>2
<1> QED
  BY <1>4, <1>5, <1>6, <1>7, <1>9, <1>10 DEF SidecarStep, SidecarFault

\* The numbers of the ledger after a step.
LEMMA NumbersAfter ==
    ASSUME Types', NEW s \in Sidecars
    PROVE  /\ StandbyTasks' \in Nat /\ Filling(s)' \in Nat
           /\ bursted' \in Nat /\ blindFills' \in Nat
<1>1. /\ IsFiniteSet(fresh') /\ old' \in Nat /\ left'[s] \in Nat
      /\ bursted' \in Nat /\ blindFills' \in Nat
  BY BoundsAssumption DEF Types, TypeOK
<1> QED
  BY <1>1, FS_CardinalityType DEF StandbyTasks, Filling

\* The same for a sidecar that is alone.
LEMMA PoolLedgerStep ==
    ASSUME Types, NEW s \in Sidecars, PoolLedger(s),
           FileArrives(s) \/ SidecarStep(s) \/ SidecarFault(s)
    PROVE  PoolLedger(s)'
<1>1. /\ Filling(s) \in Nat /\ Desired \in Nat /\ blindFills \in Nat
      /\ StandbyTasks \in Nat /\ bursted \in Nat
  BY LoopNumbers, BoundsAssumption DEF Filling
<1>2. Types'
  BY NextTypes DEF Next
<1>3. /\ Desired * (1 + blindFills) = Desired + Desired * blindFills
      /\ Desired * (1 + blindFills') = Desired + Desired * blindFills'
  BY <1>1, <1>2, NumbersAfter
<1>4. StandbyTasks + Filling(s) + 0 <= Desired + Desired * blindFills + bursted
  BY <1>1, <1>3 DEF PoolLedger
<1>5. StandbyTasks' + Filling(s)' + 0 <= Desired + Desired * blindFills' + bursted'
  BY <1>1, <1>4, SharedLedgerStep
<1> QED
  BY <1>2, <1>3, <1>5, NumbersAfter DEF PoolLedger

\* Bursts stay paid for: a pass that succeeds retires what it has scanned, and a
\* pass that fails may burst once more for every file.
LEMMA BurstLedgerStep ==
    ASSUME Types, NEW s \in Sidecars, BurstLedger(s),
           FileArrives(s) \/ SidecarStep(s) \/ SidecarFault(s)
    PROVE  BurstLedger(s)'
<1> DEFINE paid == arrived * (1 + faults)
<1>1. /\ left[s] \in Nat /\ bursted \in Nat /\ files[s] \in Nat /\ batch[s] \in Nat
      /\ arrived \in Nat /\ faults \in Nat /\ running \in Nat
      /\ batch[s] <= files[s]
      /\ pc[s] \in {"fill", "recount", "burst"} => left[s] > 0
  BY LoopNumbers
<1>2. /\ paid \in Nat
      /\ arrived * (1 + (faults + 1)) = paid + arrived
      /\ (arrived + 1) * (1 + faults) = paid + faults + 1
  BY <1>1, Products
<1>3. bursted + Unpaid(s) <= paid /\ files[s] <= arrived /\ Unpaid(s) \in Nat
  BY <1>1 DEF BurstLedger, Unpaid
<1> HIDE DEF paid
<1>4. TypeOK
  BY DEF Types
<1>5. CASE FileArrives(s)
  <2>1. /\ files'[s] = files[s] + 1 /\ arrived' = arrived + 1
        /\ UNCHANGED <<pc, left, batch, bursted, faults>>
    BY <1>4, <1>5 DEF FileArrives, loopVars, faultVars, TypeOK
  <2>2. Unpaid(s)' = Unpaid(s) + 1
    BY <1>1, <2>1 DEF Unpaid
  <2>3. bursted + Unpaid(s)' <= paid + faults + 1
    BY <1>1, <1>2, <1>3, <2>2
  <2> QED
    BY <1>1, <1>2, <1>3, <2>1, <2>3 DEF BurstLedger
<1>6. CASE Wake(s) \/ Count(s) \/ Fill(s) \/ Scan(s)
  <2>1. UNCHANGED <<files, arrived, bursted, faults>>
    BY <1>6 DEF Wake, Count, Fill, Scan, faultVars
  <2>2. /\ pc[s] \in {"sleep", "count", "fill", "scan"}
        /\ pc'[s] \in {"sleep", "count", "fill", "scan", "idle"}
    BY <1>4, <1>6, NextIndexEffect
       DEF Wake, Count, Fill, Scan, StartFill, Goto, At, TypeOK
  <2>3. Unpaid(s)' = Unpaid(s)
    BY <2>1, <2>2 DEF Unpaid
  <2> QED
    BY <1>3, <2>1, <2>3 DEF BurstLedger, paid
<1>7. CASE CountIdle(s) \/ Recount(s)
  <2>1. UNCHANGED <<files, arrived, batch, bursted, faults>>
    BY <1>7 DEF CountIdle, Recount, faultVars
  <2>2. CASE CountIdle(s)
    <3>1. /\ pc[s] = "idle" /\ left'[s] = BurstNeeded(batch[s], running)
          /\ pc'[s] \in {"recount", "dispatch"}
      BY <1>4, <2>2 DEF CountIdle, Goto, At, TypeOK
    <3>2. BurstNeeded(batch[s], running) \in Nat
          /\ BurstNeeded(batch[s], running) <= batch[s]
      BY <1>1 DEF BurstNeeded
    <3>3. Unpaid(s)' <= Unpaid(s) /\ Unpaid(s)' \in Nat
      BY <1>1, <2>1, <3>1, <3>2 DEF Unpaid
    <3>4. bursted + Unpaid(s)' <= paid
      BY <1>1, <1>2, <1>3, <3>3
    <3> QED
      BY <1>3, <2>1, <3>4 DEF BurstLedger, paid
  <2>3. CASE Recount(s)
    <3>1. pc[s] = "recount" /\ pc'[s] = "burst" /\ left' = left
      BY <1>4, <2>3 DEF Recount, Goto, At, TypeOK
    <3>2. Unpaid(s)' = Unpaid(s)
      BY <2>1, <3>1 DEF Unpaid
    <3> QED
      BY <1>3, <2>1, <3>2 DEF BurstLedger, paid
  <2> QED
    BY <1>7, <2>2, <2>3
<1>8. ASSUME Burst(s) \/ BurstFails(s)
      PROVE  /\ Unpaid(s)' = Unpaid(s) - 1
             /\ UNCHANGED <<files, arrived>>
  <2>1. UNCHANGED <<files, arrived, batch>> /\ pc[s] = "burst"
    BY <1>8 DEF Burst, BurstFails, faultVars, At
  <2>2. left'[s] = left[s] - 1 /\ pc'[s] = IF left[s] = 1 THEN "dispatch" ELSE "burst"
    BY <1>8, <2>1, NextIndexEffect DEF Burst, BurstFails
  <2> QED
    BY <1>1, <2>1, <2>2 DEF Unpaid
<1>9. CASE Burst(s)
  <2>1. bursted' \in {bursted, bursted + 1} /\ faults' = faults
    BY <1>9 DEF Burst, faultVars
  <2>2. bursted' + Unpaid(s)' <= paid
    BY <1>1, <1>2, <1>3, <1>8, <1>9, <2>1
  <2> QED
    BY <1>3, <1>8, <1>9, <2>1, <2>2 DEF BurstLedger, paid
<1>10. CASE Dispatch(s)
  <2>1. /\ files'[s] = files[s] - batch[s] /\ pc[s] = "dispatch" /\ pc'[s] = "sleep"
        /\ UNCHANGED <<arrived, bursted, faults>>
    BY <1>4, <1>10 DEF Dispatch, EndPass, Goto, At, faultVars, TypeOK
  <2>2. Unpaid(s)' = Unpaid(s)
    BY <2>1 DEF Unpaid
  <2>3. files'[s] <= arrived
    BY <1>1, <1>3, <2>1
  <2> QED
    BY <1>3, <2>1, <2>2, <2>3 DEF BurstLedger, paid
<1>11. CASE SidecarFault(s)
  <2>1. faults' = faults + 1 /\ bursted' = bursted /\ arrived' = arrived
    BY <1>11
       DEF SidecarFault, CountFails, FillFails, BurstFails, DispatchFails, PassAborted, Fault
  <2>2. files'[s] \in Nat /\ files'[s] <= files[s]
    <3>1. CASE files' = files
      BY <1>1, <3>1
    <3>2. CASE DispatchFails(s)
      BY <1>1, <1>4, <3>2 DEF DispatchFails, TypeOK
    <3> QED
      BY <1>11, <3>1, <3>2
         DEF SidecarFault, CountFails, FillFails, BurstFails, PassAborted
  <2>3. Unpaid(s)' <= Unpaid(s) + arrived /\ Unpaid(s)' \in Nat
    <3>1. CASE BurstFails(s)
      <4>1. left[s] > 0 /\ pc[s] = "burst"
        BY <1>1, <3>1 DEF BurstFails, At
      <4>2. Unpaid(s) >= 1
        BY <1>1, <4>1 DEF Unpaid
      <4> QED
        BY <1>1, <1>3, <1>8, <3>1, <4>2
    <3>2. CASE ~BurstFails(s)
      <4>1. pc'[s] \in {"sleep", "fill", "scan"}
        BY <1>4, <1>11, <3>2, NextIndexEffect
           DEF SidecarFault, CountFails, FillFails, DispatchFails, PassAborted,
               StartFill, EndPass, Goto, At, TypeOK
      <4>2. Unpaid(s)' = files'[s]
        BY <4>1 DEF Unpaid
      <4> QED
        BY <1>1, <1>3, <2>2, <4>2
    <3> QED
      BY <3>1, <3>2
  <2>4. bursted + Unpaid(s)' <= paid + arrived
    BY <1>1, <1>2, <1>3, <2>3
  <2>5. files'[s] <= arrived
    BY <1>1, <1>3, <2>2
  <2> QED
    BY <1>2, <2>1, <2>4, <2>5 DEF BurstLedger
<1> QED
  BY <1>5, <1>6, <1>7, <1>9, <1>10, <1>11 DEF SidecarStep

\* The cluster's own steps add no task and touch no handshake.
LEMMA ClusterKeepsLedger ==
    ASSUME Types, Tick \/ PodStarts \/ PodEnds \/ TaskDeleted \/ UNCHANGED vars,
           NEW s \in Sidecars, PoolLedger(s), BurstLedger(s)
    PROVE  PoolLedger(s)' /\ BurstLedger(s)'
<1>1. UNCHANGED <<files, pc, base, left, batch, bursted, arrived, faults, blindFills>>
  BY DEF Tick, PodStarts, PodEnds, TaskDeleted, vars, loopVars, faultVars
<1>2. BurstLedger(s)' /\ Filling(s)' = Filling(s)
  BY <1>1 DEF BurstLedger, Unpaid, Filling
<1>3. StandbyTasks' \in {StandbyTasks, StandbyTasks - 1}
  <2>1. CASE Tick
    BY <2>1, ElapseKeepsTasks DEF Tick, Types
  <2>2. CASE TaskDeleted
    BY <2>2, DeletionTakesTask DEF Types
  <2>3. CASE UNCHANGED nameVars
    BY <2>3 DEF nameVars, StandbyTasks
  <2> QED
    BY <2>1, <2>2, <2>3 DEF PodStarts, PodEnds, vars, nameVars
<1>4. PoolLedger(s)'
  <2> DEFINE limit == Desired * (1 + blindFills) + bursted
  <2>1. limit \in Nat
    BY LoopNumbers, BoundsAssumption, Products
  <2>2. StandbyTasks \in Nat /\ Filling(s) \in Nat
    BY LoopNumbers DEF Filling
  <2>3. StandbyTasks + Filling(s) <= limit
    BY DEF PoolLedger
  <2> HIDE DEF limit
  <2>4. StandbyTasks' + Filling(s)' <= limit
    BY <1>2, <1>3, <2>1, <2>2, <2>3
  <2> QED
    BY <1>1, <2>4 DEF PoolLedger, limit
<1> QED
  BY <1>2, <1>4

\* The ledger is empty at the start.
LEMMA InitLedger == Init => LedgerInvariant
<1> SUFFICES ASSUME Init PROVE LedgerInvariant
  OBVIOUS
<1>1. Cardinality({}) = 0
  BY FS_EmptySet
<1>2. Desired * (1 + 0) \in Nat
  BY BoundsAssumption
<1> QED
  BY <1>1, <1>2 DEF Init, LedgerInvariant, StandbyTasks, Filling, Unpaid

Inv == Types /\ LedgerInvariant

\* The ledger is inductive when there is one sidecar.
LEMMA NextKeepsInv ==
    ASSUME NEW s, Sidecars = {s}, Inv, [Next]_vars
    PROVE  Inv'
<1>1. Types /\ s \in Sidecars /\ PoolLedger(s) /\ BurstLedger(s)
  BY DEF Inv, LedgerInvariant, PoolLedger, BurstLedger
<1>2. Types'
  BY <1>1, NextTypes
<1>3. PoolLedger(s)' /\ BurstLedger(s)'
  <2>1. CASE Tick \/ PodStarts \/ PodEnds \/ TaskDeleted \/ UNCHANGED vars
    BY <1>1, <2>1, ClusterKeepsLedger
  <2>2. CASE FileArrives(s) \/ SidecarStep(s) \/ SidecarFault(s)
    BY <1>1, <2>2, PoolLedgerStep, BurstLedgerStep
  <2> QED
    BY <2>1, <2>2 DEF Next
<1>4. batch'[s] <= files'[s]
  BY <1>2 DEF Types, BatchIsThere
<1> QED
  BY <1>2, <1>3, <1>4 DEF Inv, LedgerInvariant, PoolLedger, BurstLedger

\* The ledger of fills and bursts, for one sidecar and every bound.
THEOREM LedgerInvariantHolds ==
    ASSUME NEW s, Sidecars = {s}
    PROVE  Spec => []LedgerInvariant
<1>1. Init => Inv
  BY InitTypes, InitLedger DEF Inv
<1>2. Inv /\ [Next]_vars => Inv'
  BY NextKeepsInv
<1>3. Inv => LedgerInvariant
  BY DEF Inv
<1> QED
  BY <1>1, <1>2, <1>3, PTL DEF Spec

\* The pool of one sidecar is bounded whatever its size: Desired, once more for
\* every failed list, and the bursts.
THEOREM PoolIsBoundedHolds ==
    ASSUME NEW s, Sidecars = {s}
    PROVE  Spec => []PoolIsBounded
<1>1. TypeOK /\ LedgerInvariant => PoolIsBounded
  <2> SUFFICES ASSUME TypeOK, LedgerInvariant PROVE PoolIsBounded
    OBVIOUS
  <2>1. Cardinality(Sidecars) = 1
    BY FS_Singleton
  <2>2. /\ StandbyTasks + Filling(s) <= Desired * (1 + blindFills) + bursted
        /\ left[s] \in Nat /\ bursted \in Nat /\ blindFills \in Nat
    BY BoundsAssumption DEF LedgerInvariant, TypeOK
  <2>3. StandbyTasks \in Nat /\ Filling(s) \in Nat
    BY <2>2, StandbyTasksType DEF Filling
  <2>4. Desired * (1 + blindFills) \in Nat
    BY <2>2, BoundsAssumption, Products
  <2>5. StandbyTasks <= Desired * (1 + blindFills) + bursted
    BY <2>2, <2>3, <2>4
  <2> QED
    BY <2>1, <2>5 DEF PoolIsBounded
<1> QED
  BY <1>1, TypeCorrect, LedgerInvariantHolds, PTL

\* The bursts of one sidecar are paid for by handshakes and failures.
THEOREM BurstsArePaidHolds ==
    ASSUME NEW s, Sidecars = {s}
    PROVE  Spec => []BurstsArePaid
<1>1. Inv => BurstsArePaid
  <2> SUFFICES ASSUME Inv PROVE BurstsArePaid
    OBVIOUS
  <2>1. bursted + Unpaid(s) <= arrived * (1 + faults) /\ s \in Sidecars
    BY DEF Inv, LedgerInvariant
  <2>2. /\ files[s] \in Nat /\ left[s] \in Nat /\ batch[s] \in Nat
        /\ batch[s] <= files[s]
        /\ bursted \in Nat /\ arrived \in Nat /\ faults \in Nat
    BY LoopNumbers DEF Inv
  <2>3. Unpaid(s) \in Nat
    BY <2>2 DEF Unpaid
  <2>4. arrived * (1 + faults) \in Nat
    BY <2>2, Products
  <2> QED
    BY <2>1, <2>2, <2>3, <2>4 DEF BurstsArePaid
<1>2. Init => Inv
  BY InitTypes, InitLedger DEF Inv
<1>3. Inv /\ [Next]_vars => Inv'
  BY NextKeepsInv
<1> QED
  BY <1>1, <1>2, <1>3, PTL DEF Spec

--------------------------------------------------------------------------------
(* The bound for two sidecars.                                               *)

\* What two sidecars are filling at the same time is within a pool for each.
PairLedger(s, r) ==
    /\ Filling(s) <= Desired /\ Filling(r) <= Desired
    /\ StandbyTasks + Filling(s) + Filling(r)
           <= (Desired + Desired) + Desired * blindFills + bursted

\* A sidecar never has more to fill than a pool, and leaves the others' fills alone.
LEMMA FillingStep ==
    ASSUME Types, NEW s \in Sidecars, NEW r \in Sidecars, s # r, Filling(s) <= Desired,
           FileArrives(s) \/ SidecarStep(s) \/ SidecarFault(s)
    PROVE  Filling(s)' <= Desired /\ Filling(r)' = Filling(r)
<1>1. left[s] \in Nat /\ Desired \in Nat /\ StandbyTasks \in Nat
  BY LoopNumbers, BoundsAssumption
<1>2. CASE Count(s)
  <2>1. Filling(s)' = Deficit(StandbyTasks)
    BY <1>1, <1>2, StartFillEffect DEF Count
  <2>2. pc'[r] = pc[r] /\ left'[r] = left[r]
    BY <1>2 DEF Count, StartFill, Goto, Types, TypeOK
  <2> QED
    BY <1>1, <2>1, <2>2, FillIsBounded DEF Filling
<1>3. CASE CountFails(s)
  <2>1. Filling(s)' = Deficit(0)
    BY <1>3, StartFillEffect DEF CountFails
  <2>2. pc'[r] = pc[r] /\ left'[r] = left[r]
    BY <1>3 DEF CountFails, StartFill, Goto, Types, TypeOK
  <2> QED
    BY <1>1, <2>1, <2>2, FillIsBounded DEF Filling
<1>4. CASE Fill(s) \/ FillFails(s)
  <2>1. pc[s] = "fill" /\ left'[s] = left[s] - 1 /\ pc'[s] \in {"fill", "scan"}
    BY <1>4, NextIndexEffect DEF Fill, FillFails, At
  <2>2. pc'[r] = pc[r] /\ left'[r] = left[r]
    BY <1>4 DEF Fill, FillFails, NextIndex, Goto, Types, TypeOK
  <2> QED
    BY <1>1, <2>1, <2>2 DEF Filling
<1>5. CASE \/ Wake(s) \/ Scan(s) \/ CountIdle(s) \/ Recount(s) \/ Burst(s) \/ BurstFails(s)
           \/ Dispatch(s) \/ DispatchFails(s) \/ PassAborted(s)
  <2>1. pc'[s] # "fill"
    BY <1>5, NextIndexEffect
       DEF Wake, Scan, CountIdle, Recount, Burst, BurstFails, Dispatch, DispatchFails,
           PassAborted, EndPass, Goto, At, Types, TypeOK
  <2>2. pc'[r] = pc[r] /\ left'[r] = left[r]
    BY <1>5
       DEF Wake, Scan, CountIdle, Recount, Burst, BurstFails, Dispatch, DispatchFails,
           PassAborted, EndPass, NextIndex, Goto, Types, TypeOK
  <2> QED
    BY <1>1, <2>1, <2>2 DEF Filling
<1>6. CASE FileArrives(s)
  BY <1>6 DEF FileArrives, loopVars, Filling
<1> QED
  BY <1>2, <1>3, <1>4, <1>5, <1>6 DEF SidecarStep, SidecarFault

\* The step of one of the two.
LEMMA PairStep ==
    ASSUME Types, NEW s \in Sidecars, NEW r \in Sidecars, s # r, PairLedger(s, r),
           FileArrives(s) \/ SidecarStep(s) \/ SidecarFault(s)
    PROVE  PairLedger(s, r)'
<1>1. /\ Filling(s) \in Nat /\ Filling(r) \in Nat /\ Desired \in Nat
      /\ StandbyTasks \in Nat /\ bursted \in Nat /\ Desired * blindFills \in Nat
  <2>1. blindFills \in Nat /\ Desired \in Nat
    BY LoopNumbers, BoundsAssumption
  <2> QED
    BY <2>1, LoopNumbers DEF Filling
<1>2. Filling(s)' <= Desired /\ Filling(r)' = Filling(r)
  BY FillingStep DEF PairLedger
<1>3. Filling(r) + Desired <= Desired + Desired
  BY <1>1 DEF PairLedger
<1>4. StandbyTasks + Filling(s) + Filling(r)
          <= (Desired + Desired) + Desired * blindFills + bursted
  BY DEF PairLedger
<1>5. StandbyTasks' + Filling(s)' + Filling(r)
          <= (Desired + Desired) + Desired * blindFills' + bursted'
  <2>1. Desired + Desired \in Nat
    BY <1>1
  <2> QED
    BY <1>1, <1>3, <1>4, <2>1, SharedLedgerStep
<1> QED
  BY <1>2, <1>5 DEF PairLedger

\* The ledger is the same in either order.
LEMMA PairIsSymmetric ==
    ASSUME Types, NEW s \in Sidecars, NEW r \in Sidecars, PairLedger(s, r)
    PROVE  PairLedger(r, s)
<1>1. Filling(s) \in Nat /\ Filling(r) \in Nat /\ StandbyTasks \in Nat
  BY LoopNumbers DEF Filling
<1>2. StandbyTasks + Filling(s) + Filling(r) = StandbyTasks + Filling(r) + Filling(s)
  BY <1>1
<1> QED
  BY <1>2 DEF PairLedger

\* The cluster's own steps keep it: they add no task.
LEMMA ClusterKeepsPair ==
    ASSUME Types, NEW s \in Sidecars, NEW r \in Sidecars, PairLedger(s, r),
           Tick \/ PodStarts \/ PodEnds \/ TaskDeleted \/ UNCHANGED vars
    PROVE  PairLedger(s, r)'
<1>1. /\ UNCHANGED <<pc, left, bursted, blindFills>>
      /\ UNCHANGED nameVars \/ Tick \/ TaskDeleted
  BY DEF Tick, PodStarts, PodEnds, TaskDeleted, vars, loopVars, faultVars, nameVars
<1>2. Filling(s)' = Filling(s) /\ Filling(r)' = Filling(r)
  BY <1>1 DEF Filling
<1>3. /\ StandbyTasks \in Nat /\ Filling(s) \in Nat /\ Filling(r) \in Nat
      /\ Desired \in Nat /\ blindFills \in Nat /\ bursted \in Nat
  BY LoopNumbers, BoundsAssumption DEF Filling
<1>4. StandbyTasks' \in {StandbyTasks, StandbyTasks - 1}
  <2>1. CASE Tick
    BY <2>1, ElapseKeepsTasks DEF Tick, Types
  <2>2. CASE TaskDeleted
    BY <2>2, DeletionTakesTask DEF Types
  <2>3. CASE UNCHANGED nameVars
    BY <2>3 DEF nameVars, StandbyTasks
  <2> QED
    BY <1>1, <2>1, <2>2, <2>3
<1> DEFINE limit == (Desired + Desired) + Desired * blindFills + bursted
<1>5. limit \in Nat
  BY <1>3
<1>6. StandbyTasks + Filling(s) + Filling(r) <= limit
  BY DEF PairLedger
<1> HIDE DEF limit
<1>7. StandbyTasks' + Filling(s) + Filling(r) <= limit
  BY <1>3, <1>4, <1>5, <1>6
<1>8. limit' = limit
  BY <1>1 DEF limit
<1> QED
  BY <1>2, <1>7, <1>8 DEF PairLedger, limit

\* The pool of the two sidecars that the prod overlay runs: they may each fill it.
THEOREM PoolIsBoundedForTwo ==
    ASSUME NEW s, NEW r, s # r, Sidecars = {s, r}
    PROVE  Spec => []PoolIsBounded
<1> DEFINE Both == Types /\ PairLedger(s, r)
<1>1. Init => Both
  <2> SUFFICES ASSUME Init PROVE PairLedger(s, r)
    BY InitTypes
  <2>1. Cardinality({}) = 0
    BY FS_EmptySet
  <2>2. /\ StandbyTasks = 0 /\ Filling(s) = 0 /\ Filling(r) = 0
        /\ bursted = 0 /\ blindFills = 0
    BY <2>1 DEF Init, StandbyTasks, Filling
  <2> QED
    BY <2>2, BoundsAssumption DEF PairLedger
<1>2. Both /\ [Next]_vars => Both'
  <2> SUFFICES ASSUME Both, [Next]_vars PROVE Both'
    OBVIOUS
  <2>1. Types' /\ s \in Sidecars /\ r \in Sidecars
    BY NextTypes
  <2>2. CASE Tick \/ PodStarts \/ PodEnds \/ TaskDeleted \/ UNCHANGED vars
    BY <2>1, <2>2, ClusterKeepsPair
  <2>3. CASE FileArrives(s) \/ SidecarStep(s) \/ SidecarFault(s)
    BY <2>1, <2>3, PairStep
  <2>4. CASE FileArrives(r) \/ SidecarStep(r) \/ SidecarFault(r)
    <3>1. PairLedger(r, s)
      BY <2>1, PairIsSymmetric
    <3>2. PairLedger(r, s)'
      BY <2>1, <2>4, <3>1, PairStep
    <3>3. /\ StandbyTasks' \in Nat /\ Filling(s)' \in Nat /\ Filling(r)' \in Nat
      BY <2>1, NumbersAfter
    <3>4. StandbyTasks' + Filling(s)' + Filling(r)' = StandbyTasks' + Filling(r)' + Filling(s)'
      BY <3>3
    <3> QED
      BY <2>1, <3>2, <3>4 DEF PairLedger
  <2> QED
    BY <2>2, <2>3, <2>4 DEF Next
<1>3. Both => PoolIsBounded
  <2> SUFFICES ASSUME Both PROVE PoolIsBounded
    OBVIOUS
  <2>1. Cardinality(Sidecars) = 2
    <3>1. IsFiniteSet({r}) /\ Cardinality({r}) = 1 /\ {r} \cup {s} = {s, r}
      BY FS_Singleton
    <3> QED
      BY <3>1, FS_AddElement
  <2>2. /\ StandbyTasks \in Nat /\ Filling(s) \in Nat /\ Filling(r) \in Nat
        /\ Desired \in Nat /\ blindFills \in Nat /\ bursted \in Nat
    BY LoopNumbers, BoundsAssumption DEF Filling
  <2>3. Desired * (2 + blindFills) = (Desired + Desired) + Desired * blindFills
    BY <2>2
  <2>4. StandbyTasks + Filling(s) + Filling(r) <= Desired * (2 + blindFills) + bursted
    BY <2>3 DEF PairLedger
  <2>5. Desired * (2 + blindFills) \in Nat
    BY <2>2
  <2> QED
    BY <2>1, <2>2, <2>4, <2>5 DEF PoolIsBounded
<1> QED
  BY <1>1, <1>2, <1>3, PTL DEF Spec
================================================================================
