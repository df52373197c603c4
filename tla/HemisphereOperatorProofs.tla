------------------------ MODULE HemisphereOperatorProofs ------------------------
(***************************************************************************)
(* Proofs about the operator for every finite set of operators and tasks,  *)
(* every naming of the pods, every bound on seconds, edits and faults, and *)
(* for a schema that keeps the handlers' results as for one that prunes    *)
(* them, as the shipped one does.                                          *)
(***************************************************************************)
EXTENDS HemisphereOperator, FiniteSetTheorems, TLAPS

--------------------------------------------------------------------------------
(* Types.                                                                   *)

\* A handler step writes one job and leaves the others alone.
LEMMA BecomeType ==
    ASSUME job \in [Operators -> [Tasks -> Jobs]],
           NEW o \in Operators, NEW t \in Tasks, NEW j \in Jobs, Become(o, t, j)
    PROVE  /\ job' \in [Operators -> [Tasks -> Jobs]]
           /\ job'[o][t] = j
           /\ \A x \in Operators, y \in Tasks :
                 x # o \/ y # t => job'[x][y] = job[x][y]
<1>1. [job[o] EXCEPT ![t] = j] \in [Tasks -> Jobs]
  OBVIOUS
<1>2. job' = [job EXCEPT ![o] = [job[o] EXCEPT ![t] = j]]
  BY DEF Become
<1> QED
  BY <1>1, <1>2

\* The clock and the task give a pod name, which is not a missing one.
LEMMA NewPodType ==
    ASSUME TypeOK, NEW t \in Tasks
    PROVE  NewPod(t) \in PodNames /\ NewPod(t) \in Results /\ NewPod(t) # NoPod
BY TasksAssumption, NamesAssumption DEF TypeOK, NewPod, PodNames, Results

\* The result of an idle handler, and of one that failed.
LEMMA IdleType == Idle \in Jobs /\ NoPod \in Results /\ Failed \in Results
BY DEF Idle, Jobs, Results

\* A job is a record, so changing fields of it keeps it one.
LEMMA JobTypes ==
    ASSUME NEW j \in Jobs, NEW r \in Results,
           NEW s \in {"idle", "delete_old", "spawn", "patch", "cleanup", "release"},
           NEW k \in {"none", "create", "update", "delete"},
           NEW ty \in TaskTypes
    PROVE  /\ [j EXCEPT !.step = s] \in Jobs
           /\ [j EXCEPT !.step = s, !.result = r] \in Jobs
           /\ [Idle EXCEPT !.step = s, !.kind = k, !.pod = r] \in Jobs
           /\ [Idle EXCEPT !.step = s, !.kind = k, !.type = ty] \in Jobs
           /\ [Idle EXCEPT !.step = s, !.kind = k, !.type = ty, !.pod = r] \in Jobs
<1>1. \A i \in Jobs :
        /\ [i EXCEPT !.step = s] \in Jobs
        /\ [i EXCEPT !.step = s, !.result = r] \in Jobs
        /\ [i EXCEPT !.step = s, !.kind = k, !.pod = r] \in Jobs
        /\ [i EXCEPT !.step = s, !.kind = k, !.type = ty] \in Jobs
        /\ [i EXCEPT !.step = s, !.kind = k, !.type = ty, !.pod = r] \in Jobs
  BY DEF Jobs
<1> QED
  BY <1>1, IdleType

\* A fault is counted within its bound.
LEMMA FaultType ==
    ASSUME TypeOK, NEW t \in Tasks, Fault(t)
    PROVE  faults' \in 0 .. MaxFaults /\ faulted' \in [Tasks -> Nat]
BY BoundsAssumption DEF TypeOK, Fault

\* A stored pod has a name and an owner.
LEMMA StorePodType ==
    ASSUME TypeOK, NEW o \in Operators, NEW t \in Tasks, StorePod(o, t)
    PROVE  owner' \in [PodNames -> Tasks \cup {NoTask}] /\ sleeps' \subseteq PodNames
<1>1. NewPod(t) \in PodNames
  BY NewPodType
<1> QED
  BY <1>1 DEF TypeOK, StorePod

\* The variables have their types at the start.
LEMMA InitType == Init => TypeOK
<1> SUFFICES ASSUME Init PROVE TypeOK
  OBVIOUS
<1>1. job \in [Operators -> [Tasks -> Jobs]]
  BY IdleType DEF Init
<1> QED
  BY <1>1, IdleType, BoundsAssumption DEF Init, TypeOK, TaskTypes

\* Every step of a handler, or of a failing one, keeps the types.
LEMMA HandlerType ==
    ASSUME TypeOK, NEW o \in Operators, NEW t \in Tasks,
           HandlerStep(o, t) \/ HandlerFault(o, t)
    PROVE  TypeOK'
<1> DEFINE j == job[o][t]
<1>1. /\ job \in [Operators -> [Tasks -> Jobs]]
      /\ j \in Jobs /\ created[t] \in Results
      /\ type[t] \in TaskTypes /\ state[t] \in {"absent", "live", "deleting", "gone"}
  BY DEF TypeOK
<1> HIDE DEF j
<1>2. CASE AddFinalizer(o, t)
  BY <1>2 DEF AddFinalizer, TypeOK, podVars, faultVars
<1>3. CASE StartCreate(o, t)
  <2>1. job' \in [Operators -> [Tasks -> Jobs]]
    <3>1. [Idle EXCEPT !.step = "spawn", !.kind = "create", !.type = type[t]] \in Jobs
      BY <1>1, JobTypes
    <3> QED
      BY <1>1, <1>3, <3>1, BecomeType DEF StartCreate
  <2> QED
    BY <1>3, <2>1 DEF StartCreate, TypeOK, podVars, faultVars, objectVars
<1>4. CASE StartUpdate(o, t)
  <2>1. job' \in [Operators -> [Tasks -> Jobs]]
    <3>1. [Idle EXCEPT !.step = IF Activates(t) THEN "delete_old" ELSE "patch",
                       !.kind = "update", !.type = type[t], !.pod = created[t]] \in Jobs
      BY <1>1, JobTypes DEF Activates
    <3> QED
      BY <1>1, <1>4, <3>1, BecomeType DEF StartUpdate
  <2>2. activated' \in [Tasks -> Nat]
    BY <1>4 DEF StartUpdate, TypeOK, Activates
  <2> QED
    BY <1>4, <2>1, <2>2 DEF StartUpdate, TypeOK, podVars, faultVars, objectVars
<1>5. CASE StartDelete(o, t)
  <2>1. job' \in [Operators -> [Tasks -> Jobs]]
    <3>1. [Idle EXCEPT
             !.step = IF created[t] \in PodNames THEN "cleanup" ELSE "release",
             !.kind = "delete", !.pod = created[t]] \in Jobs
      BY <1>1, JobTypes
    <3> QED
      BY <1>1, <1>5, <3>1, BecomeType DEF StartDelete
  <2> QED
    BY <1>5, <2>1 DEF StartDelete, TypeOK, podVars, faultVars, objectVars
<1>6. CASE DeleteOld(o, t) \/ Cleanup(o, t)
  <2>1. job' \in [Operators -> [Tasks -> Jobs]]
    <3>1. /\ [j EXCEPT !.step = "spawn"] \in Jobs
          /\ [j EXCEPT !.step = "release"] \in Jobs
      BY <1>1, IdleType, JobTypes DEF TaskTypes
    <3> QED
      BY <1>1, <1>6, <3>1, BecomeType DEF DeleteOld, Cleanup, j
  <2>2. owner' \in [PodNames -> Tasks \cup {NoTask}] /\ sleeps' \subseteq PodNames
    BY <1>6 DEF DeleteOld, Cleanup, DeletePod, TypeOK
  <2> QED
    BY <1>6, <2>1, <2>2 DEF DeleteOld, Cleanup, TypeOK, faultVars, objectVars
<1>7. CASE DeleteOldFails(o, t) \/ CleanupFails(o, t)
  <2>1. job' \in [Operators -> [Tasks -> Jobs]]
    <3>1. /\ [j EXCEPT !.step = "spawn"] \in Jobs
          /\ [j EXCEPT !.step = "release"] \in Jobs
      BY <1>1, IdleType, JobTypes DEF TaskTypes
    <3> QED
      BY <1>1, <1>7, <3>1, BecomeType DEF DeleteOldFails, CleanupFails, j
  <2>2. faults' \in 0 .. MaxFaults /\ faulted' \in [Tasks -> Nat]
    BY <1>7, FaultType DEF DeleteOldFails, CleanupFails
  <2> QED
    BY <1>7, <2>1, <2>2 DEF DeleteOldFails, CleanupFails, TypeOK, podVars, objectVars
<1>8. CASE Spawn(o, t) \/ SpawnRefused(o, t) \/ SpawnReplyLost(o, t)
  <2>1. job' \in [Operators -> [Tasks -> Jobs]]
    <3>1. /\ [j EXCEPT !.step = "patch", !.result = NewPod(t)] \in Jobs
          /\ [j EXCEPT !.step = "patch", !.result = Failed] \in Jobs
      BY <1>1, IdleType, NewPodType, JobTypes DEF TaskTypes
    <3> QED
      BY <1>1, <1>8, <3>1, IdleType, BecomeType
         DEF Spawn, SpawnRefused, SpawnReplyLost, j
  <2>2. /\ owner' \in [PodNames -> Tasks \cup {NoTask}]
        /\ sleeps' \subseteq PodNames
    <3>1. CASE StorePod(o, t)
      BY <3>1, StorePodType
    <3>2. CASE UNCHANGED podVars
      BY <3>2 DEF podVars, TypeOK
    <3> QED
      BY <1>8, <3>1, <3>2 DEF Spawn, SpawnRefused, SpawnReplyLost
  <2>3. faults' \in 0 .. MaxFaults /\ faulted' \in [Tasks -> Nat]
    <3>1. CASE Fault(t)
      BY <3>1, FaultType
    <3>2. CASE UNCHANGED faultVars
      BY <3>2 DEF faultVars, TypeOK
    <3> QED
      BY <1>8, <3>1, <3>2 DEF Spawn, SpawnRefused, SpawnReplyLost
  <2> QED
    BY <1>8, <2>1, <2>2, <2>3
       DEF Spawn, SpawnRefused, SpawnReplyLost, TypeOK, objectVars
<1>9. CASE Patch(o, t)
  <2>1. job' \in [Operators -> [Tasks -> Jobs]]
    BY <1>1, <1>9, IdleType, BecomeType DEF Patch
  <2>2. /\ handled' \in [Tasks -> TaskTypes \cup {"none"}]
        /\ created' \in [Tasks -> Results]
    <3>1. j.type \in TaskTypes \cup {"none"} /\ j.result \in Results
      BY <1>1 DEF Jobs
    <3>2. CASE state[t] = "gone"
      BY <1>9, <3>2 DEF Patch, TypeOK
    <3>3. CASE state[t] # "gone"
      <4>1. handled' = [handled EXCEPT ![t] = j.type]
        BY <1>9, <3>3 DEF Patch, j
      <4>2. created' = [created EXCEPT ![t] = j.result] \/ created' = created
        BY <1>9, <3>3 DEF Patch, j
      <4> QED
        BY <3>1, <4>1, <4>2 DEF TypeOK
    <3> QED
      BY <3>2, <3>3
  <2> QED
    BY <1>9, <2>1, <2>2 DEF Patch, TypeOK, podVars, faultVars
<1>10. CASE Release(o, t)
  <2>1. job' \in [Operators -> [Tasks -> Jobs]]
    BY <1>1, <1>10, IdleType, BecomeType DEF Release
  <2> QED
    BY <1>10, <2>1 DEF Release, TypeOK, podVars, faultVars
<1>11. CASE Interrupted(o, t)
  <2>1. job' \in [Operators -> [Tasks -> Jobs]]
    BY <1>1, <1>11, IdleType, BecomeType DEF Interrupted
  <2>2. faults' \in 0 .. MaxFaults /\ faulted' \in [Tasks -> Nat]
    BY <1>11, FaultType DEF Interrupted
  <2> QED
    BY <1>11, <2>1, <2>2 DEF Interrupted, TypeOK, podVars, objectVars
<1> QED
  BY <1>2, <1>3, <1>4, <1>5, <1>6, <1>7, <1>8, <1>9, <1>10, <1>11
     DEF HandlerStep, HandlerFault

\* Every step keeps the types.
LEMMA NextType ==
    ASSUME TypeOK, [Next]_vars
    PROVE  TypeOK'
<1>1. ASSUME NEW t \in Tasks, NEW ty \in TaskTypes, Submit(t, ty)
      PROVE  TypeOK'
  BY <1>1 DEF Submit, TypeOK, podVars, faultVars
<1>2. ASSUME NEW t \in Tasks, Edit(t) PROVE TypeOK'
  BY <1>2, BoundsAssumption DEF Edit, TypeOK, podVars, faultVars, TaskTypes
<1>3. ASSUME NEW t \in Tasks, Delete(t) PROVE TypeOK'
  BY <1>3 DEF Delete, TypeOK, podVars, faultVars
<1>4. ASSUME NEW n \in PodNames, PodVanishes(n) PROVE TypeOK'
  BY <1>4 DEF PodVanishes, TypeOK, objectVars, faultVars
<1>5. CASE Tick
  BY <1>5, BoundsAssumption DEF Tick, TypeOK, objectVars, podVars, faultVars
<1>6. CASE UNCHANGED vars
  BY <1>6 DEF vars, TypeOK
<1> QED
  BY <1>1, <1>2, <1>3, <1>4, <1>5, <1>6, HandlerType DEF Next, Client

\* Every variable keeps its type, for any number of operators.
THEOREM TypeCorrect == Spec => []TypeOK
BY InitType, NextType, PTL DEF Spec

--------------------------------------------------------------------------------
(* Sizes of the sets that the invariant counts.                              *)

\* A part of a finite set is no larger, and smaller if it lacks an element.
LEMMA PartSize ==
    ASSUME NEW S, IsFiniteSet(S), NEW T, T \subseteq S
    PROVE  /\ IsFiniteSet(T) /\ Cardinality(T) \in Nat /\ Cardinality(S) \in Nat
           /\ Cardinality(T) <= Cardinality(S)
           /\ \A x \in S \ T : Cardinality(T) + 1 <= Cardinality(S)
<1>1. /\ IsFiniteSet(T) /\ Cardinality(T) \in Nat /\ Cardinality(S) \in Nat
      /\ Cardinality(T) <= Cardinality(S)
  BY FS_Subset, FS_CardinalityType
<1>2. ASSUME NEW x \in S \ T PROVE Cardinality(T) + 1 <= Cardinality(S)
  <2>1. IsFiniteSet(T \cup {x}) /\ Cardinality(T \cup {x}) = Cardinality(T) + 1
    BY <1>1, FS_AddElement
  <2>2. T \cup {x} \subseteq S
    OBVIOUS
  <2> QED
    BY <2>1, <2>2, FS_Subset
<1> QED
  BY <1>1, <1>2

\* One element more makes a set larger by one at most.
LEMMA OneMore ==
    ASSUME NEW S, IsFiniteSet(S), NEW x, NEW T, T \subseteq S \cup {x}
    PROVE  /\ IsFiniteSet(T) /\ Cardinality(T) \in Nat /\ Cardinality(S) \in Nat
           /\ Cardinality(T) <= Cardinality(S) + 1
<1>1. Cardinality(S) \in Nat
  BY FS_CardinalityType
<1>2. IsFiniteSet(S \cup {x}) /\ Cardinality(S \cup {x}) <= Cardinality(S) + 1
  BY <1>1, FS_AddElement
<1>3. IsFiniteSet(T) /\ Cardinality(T) \in Nat /\ Cardinality(T) <= Cardinality(S \cup {x})
      /\ Cardinality(S \cup {x}) \in Nat
  BY <1>2, PartSize
<1> QED
  BY <1>1, <1>2, <1>3

\* Pods are only ever added to the task whose handler stores one.
LEMMA PodsAfterStore ==
    ASSUME TypeOK, NEW o \in Operators, NEW t \in Tasks, StorePod(o, t)
    PROVE  /\ Pods(t)' = Pods(t) \cup {NewPod(t)}
           /\ \A x \in Tasks : x # t => Pods(x)' = Pods(x)
<1>1. NewPod(t) \in PodNames
  BY NewPodType
<1>2. \A n \in PodNames : owner'[n] = IF n = NewPod(t) THEN t ELSE owner[n]
  BY <1>1 DEF StorePod, TypeOK
<1> QED
  BY <1>1, <1>2, TasksAssumption DEF Pods, StorePod

\* A deleted pod is nobody's.
LEMMA PodsAfterDelete ==
    ASSUME TypeOK, NEW n, DeletePod(n)
    PROVE  \A x \in Tasks : Pods(x)' = Pods(x) \ {n}
<1>1. \A k \in PodNames : owner'[k] = IF k = n THEN NoTask ELSE owner[k]
  BY DEF DeletePod, TypeOK
<1> QED
  BY <1>1, TasksAssumption DEF Pods

--------------------------------------------------------------------------------
(* Every pod has a cause.                                                    *)

\* The invariant for one task.
Fits(t) ==
    /\ IsFiniteSet(Pods(t)) /\ Load(t, Pods(t)) <= Causes(t)
    /\ SpareCause(t)
    /\ \A o \in Operators : JobFits(o, t)

Inv == TypeOK /\ CausesInvariant

\* What is counted is counted in natural numbers.
Counted(t) ==
    /\ IsFiniteSet(Starters(t)) /\ IsFiniteSet(Activating(t))
    /\ Coming(t) \in Nat /\ Causes(t) \in Nat

CountedAll == \A t \in Tasks : Counted(t)

\* That holds in every state of the right types.
LEMMA Counts == TypeOK => CountedAll
<1> SUFFICES ASSUME TypeOK, NEW t \in Tasks PROVE Counted(t)
  BY DEF CountedAll
<1>1. Starters(t) \subseteq Operators /\ Activating(t) \subseteq Operators
  BY DEF Starters, Activating
<1>2. /\ IsFiniteSet(Starters(t)) /\ IsFiniteSet(Activating(t))
      /\ Cardinality(Starters(t)) \in Nat /\ Cardinality(Activating(t)) \in Nat
      /\ Cardinality(Operators) \in Nat
  BY <1>1, TasksAssumption, PartSize
<1>3. faulted[t] \in Nat /\ activated[t] \in Nat
  BY DEF TypeOK
<1> QED
  BY <1>2, <1>3 DEF Coming, Causes, Counted

\* The same after a step.
LEMMA CountsAfter == TypeOK' => CountedAll'
BY Counts, PTL

\* How a step changes the load of a task, when all its pods count and when one of
\* them does not.
LEMMA LoadAfter ==
    ASSUME TypeOK, TypeOK', NEW t \in Tasks, IsFiniteSet(Pods(t)), NEW k \in Nat,
           \/ Pods(t)' \subseteq Pods(t) /\ Coming(t)' <= Coming(t) + k
           \/ \E n : Pods(t)' = Pods(t) \cup {n} /\ Coming(t)' + 1 <= Coming(t) + k,
           NEW P, P \subseteq Pods(t), NEW Q, Q \subseteq Pods(t)',
           \A x \in Q : x \in Pods(t) => x \in P
    PROVE  /\ IsFiniteSet(P) /\ IsFiniteSet(Q)
           /\ Cardinality(P) \in Nat /\ Cardinality(Q) \in Nat
           /\ Cardinality(Q) + Coming(t)' <= Cardinality(P) + Coming(t) + k
<1>1. Coming(t) \in Nat /\ Coming(t)' \in Nat
  BY Counts, CountsAfter DEF CountedAll, Counted
<1>2. IsFiniteSet(P) /\ Cardinality(P) \in Nat
  BY PartSize
<1>3. CASE Pods(t)' \subseteq Pods(t) /\ Coming(t)' <= Coming(t) + k
  <2>1. Q \subseteq P
    BY <1>3
  <2>2. IsFiniteSet(Q) /\ Cardinality(Q) \in Nat /\ Cardinality(Q) <= Cardinality(P)
    BY <1>2, <2>1, PartSize
  <2> QED
    BY <1>1, <1>2, <1>3, <2>2
<1>4. CASE \E n : Pods(t)' = Pods(t) \cup {n} /\ Coming(t)' + 1 <= Coming(t) + k
  <2>1. PICK n : Pods(t)' = Pods(t) \cup {n} /\ Coming(t)' + 1 <= Coming(t) + k
    BY <1>4
  <2>2. Q \subseteq P \cup {n}
    BY <2>1
  <2>3. IsFiniteSet(Q) /\ Cardinality(Q) \in Nat /\ Cardinality(Q) <= Cardinality(P) + 1
    BY <1>2, <2>2, OneMore
  <2> QED
    BY <1>1, <1>2, <2>1, <2>3
<1> QED
  BY <1>3, <1>4

\* A step keeps the invariant of a task if the load grows no more than the causes,
\* and what the first activation is to delete is still there or has been deleted.
LEMMA StepKeeps ==
    ASSUME TypeOK, TypeOK', NEW t \in Tasks, Fits(t), activated'[t] = activated[t],
           NEW k \in Nat, faulted'[t] = faulted[t] + k,
           \/ Pods(t)' \subseteq Pods(t) /\ Coming(t)' <= Coming(t) + k
           \/ \E n : Pods(t)' = Pods(t) \cup {n} /\ Coming(t)' + 1 <= Coming(t) + k,
           Activating(t)' \subseteq Activating(t),
           \A p \in Named(t)' :
              p \in Named(t) \/ Cardinality(Pods(t)' \ {p}) + Coming(t)' < Causes(t)',
           \A o \in Operators :
              /\ Step(o, t, "delete_old")
              /\ Cardinality(Pods(t) \ {job[o][t].pod}) + Coming(t) < Causes(t)
              => \/ job'[o][t] = job[o][t]
                 \/ Cardinality(Pods(t)') + Coming(t)' < Causes(t)',
           \A o \in Operators : JobFits(o, t)'
    PROVE  Fits(t)'
<1>1. /\ Coming(t) \in Nat /\ Coming(t)' \in Nat
      /\ Causes(t) \in Nat /\ Causes(t)' = Causes(t) + k
  <2>1. Counted(t) /\ Counted(t)'
    BY Counts, CountsAfter DEF CountedAll
  <2>2. faulted[t] \in Nat /\ activated[t] \in Nat /\ Cardinality(Operators) \in Nat
    BY TasksAssumption, PartSize DEF TypeOK
  <2> QED
    BY <2>1, <2>2 DEF Counted, Causes
<1>2. /\ IsFiniteSet(Pods(t)')
      /\ Cardinality(Pods(t)) \in Nat /\ Cardinality(Pods(t)') \in Nat
      /\ Cardinality(Pods(t)') + Coming(t)' <= Cardinality(Pods(t)) + Coming(t) + k
  BY LoadAfter DEF Fits
<1>3. ASSUME NEW p, Cardinality(Pods(t) \ {p}) + Coming(t) < Causes(t)
      PROVE  Cardinality(Pods(t)' \ {p}) + Coming(t)' < Causes(t)'
  <2>1. /\ Cardinality(Pods(t) \ {p}) \in Nat /\ Cardinality(Pods(t)' \ {p}) \in Nat
        /\ Cardinality(Pods(t)' \ {p}) + Coming(t)' <= Cardinality(Pods(t) \ {p}) + Coming(t) + k
    <3> DEFINE P == Pods(t) \ {p}
               Q == Pods(t)' \ {p}
    <3>1. P \subseteq Pods(t) /\ Q \subseteq Pods(t)' /\ \A x \in Q : x \in Pods(t) => x \in P
      OBVIOUS
    <3> HIDE DEF P, Q
    <3>2. /\ Cardinality(P) \in Nat /\ Cardinality(Q) \in Nat
          /\ Cardinality(Q) + Coming(t)' <= Cardinality(P) + Coming(t) + k
      BY <3>1, LoadAfter DEF Fits
    <3> QED
      BY <3>2 DEF P, Q
  <2> QED
    BY <1>1, <1>3, <2>1
<1>4. Load(t, Pods(t))' <= Causes(t)'
  BY <1>1, <1>2 DEF Fits, Load
<1>5. SpareCause(t)'
  <2>1. CASE activated[t] = 0
    <3>1. Activating(t)' = {}
      BY <2>1 DEF Fits, SpareCause
    <3>2. \A p \in Named(t)' : Cardinality(Pods(t)' \ {p}) + Coming(t)' < Causes(t)'
      BY <1>3, <2>1 DEF Fits, SpareCause, Load
    <3> QED
      BY <2>1, <3>1, <3>2 DEF SpareCause, Load
  <2>2. CASE activated[t] # 0 /\ Load(t, Pods(t)) < Causes(t)
    BY <1>1, <1>2, <2>2 DEF SpareCause, Load
  <2>3. CASE activated[t] # 0 /\ ~(Load(t, Pods(t)) < Causes(t))
    <3>1. PICK o \in Operators :
            /\ Step(o, t, "delete_old")
            /\ Cardinality(Pods(t) \ {job[o][t].pod}) + Coming(t) < Causes(t)
      BY <2>3 DEF Fits, SpareCause, Load
    <3>2. CASE job'[o][t] = job[o][t]
      BY <1>3, <2>3, <3>1, <3>2 DEF SpareCause, Load, Step
    <3>3. CASE Cardinality(Pods(t)') + Coming(t)' < Causes(t)'
      BY <2>3, <3>3 DEF SpareCause, Load
    <3> QED
      BY <3>1, <3>2, <3>3
  <2> QED
    BY <2>1, <2>2, <2>3
<1> QED
  BY <1>2, <1>4, <1>5 DEF Fits

\* What a handler step does to the jobs, to the last-handled spec and to the object.
OthersStay(o, t) ==
    \A x \in Operators, y \in Tasks : x # o \/ y # t => job'[x][y] = job[x][y]

Later(t) ==
    /\ handled'[t] = "none" => handled[t] = "none"
    /\ state'[t] \in {"absent", "live"} => state[t] \in {"absent", "live"}

\* Setting the step, and the result, of a job.
LEMMA JobAfter ==
    ASSUME TypeOK, NEW o \in Operators, NEW t \in Tasks, NEW r \in Results,
           NEW s \in {"idle", "delete_old", "spawn", "patch", "cleanup", "release"}
    PROVE  /\ Become(o, t, [job[o][t] EXCEPT !.step = s, !.result = r]) =>
                 /\ job'[o][t].step = s /\ job'[o][t].result = r
                 /\ job'[o][t].kind = job[o][t].kind /\ job'[o][t].type = job[o][t].type
           /\ Become(o, t, [job[o][t] EXCEPT !.step = s]) =>
                 /\ job'[o][t].step = s /\ job'[o][t].result = job[o][t].result
                 /\ job'[o][t].kind = job[o][t].kind /\ job'[o][t].type = job[o][t].type
           /\ Become(o, t, Idle) => job'[o][t] = Idle
<1> DEFINE j == job[o][t]
           a == [j EXCEPT !.step = s, !.result = r]
           b == [j EXCEPT !.step = s]
<1>1. j \in Jobs /\ job \in [Operators -> [Tasks -> Jobs]]
  BY DEF TypeOK
<1> HIDE DEF j
<1>2. a \in Jobs /\ b \in Jobs
  BY <1>1, JobTypes DEF TaskTypes
<1>3. /\ a.step = s /\ a.result = r /\ a.kind = j.kind /\ a.type = j.type
      /\ b.step = s /\ b.result = j.result /\ b.kind = j.kind /\ b.type = j.type
  BY <1>1 DEF Jobs
<1> HIDE DEF a, b
<1>4. /\ Become(o, t, a) => job'[o][t] = a
      /\ Become(o, t, b) => job'[o][t] = b
      /\ Become(o, t, Idle) => job'[o][t] = Idle
  BY <1>1, <1>2, IdleType, BecomeType
<1> QED
  BY <1>3, <1>4 DEF a, b, j

\* Only the handler's own job changes.
LEMMA HandlerAlone ==
    ASSUME TypeOK, NEW o \in Operators, NEW t \in Tasks,
           HandlerStep(o, t) \/ HandlerFault(o, t)
    PROVE  OthersStay(o, t)
<1>1. job' = job \/ \E j : Become(o, t, j)
  BY DEF HandlerStep, HandlerFault, AddFinalizer, StartCreate, StartUpdate, StartDelete,
         DeleteOld, DeleteOldFails, Spawn, SpawnRefused, SpawnReplyLost, Patch,
         Cleanup, CleanupFails, Release, Interrupted
<1>2. ASSUME NEW j, Become(o, t, j) PROVE OthersStay(o, t)
  <2>1. job' = [job EXCEPT ![o] = [job[o] EXCEPT ![t] = j]]
    BY <1>2 DEF Become
  <2> QED
    BY <2>1 DEF OthersStay, TypeOK
<1> QED
  BY <1>1, <1>2 DEF OthersStay

\* A spec that was handled stays so, and a deleted object stays deleted.
LEMMA NextLater ==
    ASSUME TypeOK, \A t \in Tasks, o \in Operators : JobFits(o, t), [Next]_vars
    PROVE  \A x \in Tasks : Later(x)
<1>1. CASE Client \/ Tick \/ UNCHANGED vars
  BY <1>1 DEF Client, Tick, vars, Submit, Edit, Delete, PodVanishes, objectVars, Later, TypeOK
<1>2. ASSUME NEW o \in Operators, NEW t \in Tasks, HandlerStep(o, t) \/ HandlerFault(o, t)
      PROVE  \A x \in Tasks : Later(x)
  <2>1. CASE Patch(o, t)
    <3>1. job[o][t].type # "none" /\ state' = state
      BY <2>1 DEF Patch, JobFits, Step
    <3>2. handled' = handled \/ handled' = [handled EXCEPT ![t] = job[o][t].type]
      BY <2>1 DEF Patch
    <3> QED
      BY <3>1, <3>2 DEF Later, TypeOK
  <2>2. CASE ~Patch(o, t)
    BY <1>2, <2>2 DEF HandlerStep, HandlerFault, AddFinalizer, StartCreate, StartUpdate,
           StartDelete, DeleteOld, DeleteOldFails, Spawn, SpawnRefused, SpawnReplyLost,
           Cleanup, CleanupFails, Release, Interrupted, objectVars, Later, TypeOK
  <2> QED
    BY <2>1, <2>2
<1> QED
  BY <1>1, <1>2 DEF Next

\* The sets that are counted change at most by the operator that takes the step.
LEMMA SetsAfter ==
    ASSUME NEW t \in Tasks, NEW o \in Operators, Later(t),
           \A x \in Operators : x # o => job'[x][t] = job[x][t]
    PROVE  /\ Starters(t)' \ {o} \subseteq Starters(t) \ {o}
           /\ Activating(t)' \ {o} \subseteq Activating(t) \ {o}
           /\ \A p \in Named(t)' :
                 \/ p \in Named(t) \/ p = created'[t]
                 \/ Step(o, t, "patch")' /\ p = job'[o][t].result
           /\ \A x \in Operators : x # o /\ JobFits(x, t) => JobFits(x, t)'
<1>1. Starters(t)' \ {o} \subseteq Starters(t) \ {o}
  BY DEF Starters, Step, Later
<1>2. Activating(t)' \ {o} \subseteq Activating(t) \ {o}
  BY DEF Activating, Step
<1>3. \A p \in Named(t)' :
         \/ p \in Named(t) \/ p = created'[t]
         \/ Step(o, t, "patch")' /\ p = job'[o][t].result
  BY DEF Named, Step
<1>4. \A x \in Operators : x # o /\ JobFits(x, t) => JobFits(x, t)'
  BY DEF JobFits
<1> QED
  BY <1>1, <1>2, <1>3, <1>4

\* How many pods are still to come, after a step of one operator.
LEMMA ComingAfter ==
    ASSUME TypeOK, TypeOK', NEW t \in Tasks, NEW o \in Operators,
           Starters(t)' \ {o} \subseteq Starters(t) \ {o},
           Activating(t)' \ {o} \subseteq Activating(t) \ {o},
           o \in Activating(t)' => o \in Activating(t)
    PROVE  /\ Activating(t)' \subseteq Activating(t)
           /\ Coming(t)' <= Coming(t) + 1
           /\ o \notin Starters(t)' => Coming(t)' <= Coming(t)
           /\ o \in Starters(t) => Coming(t)' <= Coming(t)
           /\ o \in Activating(t) \ Activating(t)' => Coming(t)' <= Coming(t)
           /\ o \notin Starters(t)' /\ o \in Starters(t) => Coming(t)' + 1 <= Coming(t)
           /\ o \notin Starters(t)' /\ o \in Activating(t) \ Activating(t)' =>
                 Coming(t)' + 1 <= Coming(t)
<1>1. Counted(t) /\ Counted(t)'
  BY Counts, CountsAfter DEF CountedAll
<1> DEFINE S == Starters(t)
           A == Activating(t)
<1>2. IsFiniteSet(S) /\ IsFiniteSet(A)
  BY <1>1 DEF Counted
<1>3. Activating(t)' \subseteq A
  OBVIOUS
<1>4. /\ Cardinality(S) \in Nat /\ Cardinality(Starters(t)') \in Nat
      /\ Cardinality(Starters(t)') <= Cardinality(S) + 1
  <2>1. Starters(t)' \subseteq S \cup {o}
    OBVIOUS
  <2> HIDE DEF S
  <2> QED
    BY <1>2, <2>1, OneMore
<1>5. /\ Cardinality(A) \in Nat /\ Cardinality(Activating(t)') \in Nat
      /\ Cardinality(Activating(t)') <= Cardinality(A)
      /\ o \in A \ Activating(t)' => Cardinality(Activating(t)') + 1 <= Cardinality(A)
  <2> HIDE DEF A
  <2> QED
    BY <1>2, <1>3, PartSize
<1>6. o \notin Starters(t)' \/ o \in S =>
        /\ Cardinality(Starters(t)') <= Cardinality(S)
        /\ o \in S \ Starters(t)' => Cardinality(Starters(t)') + 1 <= Cardinality(S)
  <2> SUFFICES ASSUME o \notin Starters(t)' \/ o \in S
               PROVE  /\ Cardinality(Starters(t)') <= Cardinality(S)
                      /\ o \in S \ Starters(t)' =>
                           Cardinality(Starters(t)') + 1 <= Cardinality(S)
    OBVIOUS
  <2>1. Starters(t)' \subseteq S
    OBVIOUS
  <2> HIDE DEF S
  <2> QED
    BY <1>2, <2>1, PartSize
<1> QED
  BY <1>3, <1>4, <1>5, <1>6 DEF Coming

\* A step that makes no pod, nor begins to, and stores a pod name only from a result.
LEMMA QuietKeeps ==
    ASSUME TypeOK, TypeOK', NEW o \in Operators, NEW t \in Tasks, Fits(t), Later(t),
           \A x \in Operators : x # o => job'[x][t] = job[x][t],
           Pods(t)' \subseteq Pods(t), activated'[t] = activated[t],
           NEW k \in {0, 1}, faulted'[t] = faulted[t] + k,
           o \notin Starters(t)' \/ o \in Starters(t),
           o \notin Activating(t)' \/ o \in Activating(t),
           created'[t] \in {created[t]} \/
              (Step(o, t, "patch") /\ created'[t] = job[o][t].result),
           Step(o, t, "patch")' =>
              job'[o][t].result \notin PodNames \/ job'[o][t] = job[o][t],
           Step(o, t, "delete_old") => job'[o][t] = job[o][t],
           JobFits(o, t)'
    PROVE  Fits(t)'
<1>1. /\ Starters(t)' \ {o} \subseteq Starters(t) \ {o}
      /\ Activating(t)' \ {o} \subseteq Activating(t) \ {o}
      /\ \A p \in Named(t)' :
            \/ p \in Named(t) \/ p = created'[t]
            \/ Step(o, t, "patch")' /\ p = job'[o][t].result
      /\ \A x \in Operators : x # o /\ JobFits(x, t) => JobFits(x, t)'
  BY SetsAfter
<1>2. Activating(t)' \subseteq Activating(t) /\ Coming(t)' <= Coming(t)
  BY <1>1, ComingAfter
<1>3. Coming(t)' <= Coming(t) + k
  BY <1>2, Counts, CountsAfter DEF CountedAll, Counted
<1>4. Named(t)' \subseteq Named(t)
  <2>1. \A p \in PodNames : p = created[t] \/ (Step(o, t, "patch") /\ p = job[o][t].result)
                            => p \in Named(t)
    BY DEF Named
  <2>2. Named(t)' \subseteq PodNames
    BY DEF Named
  <2>3. Step(o, t, "patch")' /\ job'[o][t] = job[o][t] => Step(o, t, "patch")
    BY DEF Step
  <2> QED
    BY <1>1, <2>1, <2>2, <2>3
<1>5. \A x \in Operators : Step(x, t, "delete_old") => job'[x][t] = job[x][t]
  OBVIOUS
<1>6. \A x \in Operators : JobFits(x, t)'
  BY <1>1 DEF Fits
<1> QED
  BY <1>2, <1>3, <1>4, <1>5, <1>6, StepKeeps

\* Clients, the clock, and other tasks, whose handlers may take pods of t away.
LEMMA UnconcernedKeeps ==
    ASSUME TypeOK, TypeOK', NEW t \in Tasks, Fits(t), Later(t),
           \A x \in Operators : job'[x][t] = job[x][t],
           Pods(t)' \subseteq Pods(t), activated'[t] = activated[t],
           faulted'[t] = faulted[t], created'[t] = created[t]
    PROVE  Fits(t)'
<1>1. CASE Operators = {}
  <2>1. /\ Starters(t)' = {} /\ Starters(t) = {}
        /\ Activating(t)' = {} /\ Activating(t) = {}
        /\ Named(t)' = Named(t)
    BY <1>1 DEF Starters, Activating, Named
  <2>2. Coming(t)' <= Coming(t) + 0
    BY <2>1, Counts, CountsAfter DEF Coming, CountedAll, Counted
  <2>3. faulted'[t] = faulted[t] + 0
    BY DEF TypeOK
  <2> QED
    BY <1>1, <2>1, <2>2, <2>3, StepKeeps
<1>2. ASSUME NEW o \in Operators PROVE Fits(t)'
  <2>1. faulted'[t] = faulted[t] + 0
    BY DEF TypeOK
  <2>2. JobFits(o, t)'
    BY DEF Fits, JobFits
  <2>3. /\ o \in Starters(t)' => o \in Starters(t)
        /\ o \in Activating(t)' => o \in Activating(t)
    BY DEF Starters, Activating, Step, Later
  <2> QED
    BY <2>1, <2>2, <2>3, QuietKeeps
<1> QED
  BY <1>1, <1>2

\* A handler starts and begins nothing: it creates the first pod, which was awaited,
\* or it finds nothing to activate, or it is about to clean up.
LEMMA StartKeeps ==
    ASSUME TypeOK, TypeOK', NEW o \in Operators, NEW t \in Tasks, Fits(t), Later(t),
           OthersStay(o, t), StartCreate(o, t) \/ StartDelete(o, t)
                             \/ (StartUpdate(o, t) /\ ~Activates(t))
    PROVE  Fits(t)'
<1>1. /\ Step(o, t, "idle") /\ UNCHANGED <<objectVars, podVars, faultVars, activated>>
      /\ type[t] \in TaskTypes /\ created[t] \in Results /\ faulted[t] \in Nat
      /\ job \in [Operators -> [Tasks -> Jobs]]
  BY DEF StartCreate, StartDelete, StartUpdate, TypeOK
<1>2. /\ faulted'[t] = faulted[t] + 0 /\ created'[t] = created[t] /\ Pods(t)' = Pods(t)
      /\ state'[t] = state[t] /\ handled'[t] = handled[t] /\ activated'[t] = activated[t]
  BY <1>1 DEF objectVars, faultVars, podVars, Pods
<1>3. CASE StartCreate(o, t)
  <2> DEFINE j == [Idle EXCEPT !.step = "spawn", !.kind = "create", !.type = type[t]]
  <2>1. j \in Jobs
    BY <1>1, JobTypes
  <2>2. j.step = "spawn" /\ j.kind = "create" /\ j.type = type[t]
    BY DEF Idle
  <2>3. Become(o, t, j)
    BY <1>3 DEF StartCreate
  <2> HIDE DEF j
  <2>4. job'[o][t] = j
    BY <1>1, <2>1, <2>3, BecomeType
  <2>5. o \in Starters(t) /\ o \notin Activating(t)' /\ ~Step(o, t, "patch")'
    BY <1>1, <1>3, <2>2, <2>4 DEF StartCreate, Starters, Activating, Step
  <2>6. JobFits(o, t)'
    BY <1>1, <2>2, <2>4 DEF JobFits, TaskTypes
  <2> QED
    BY <1>1, <1>2, <2>5, <2>6, QuietKeeps DEF OthersStay, Step
<1>4. CASE StartDelete(o, t)
  <2> DEFINE j == [Idle EXCEPT
             !.step = IF created[t] \in PodNames THEN "cleanup" ELSE "release",
             !.kind = "delete", !.pod = created[t]]
  <2>1. j \in Jobs
    BY <1>1, JobTypes DEF TaskTypes
  <2>2. j.step \in {"cleanup", "release"}
    BY DEF Idle
  <2>3. Become(o, t, j)
    BY <1>4 DEF StartDelete
  <2> HIDE DEF j
  <2>4. job'[o][t] = j
    BY <1>1, <2>1, <2>3, BecomeType
  <2>5. o \notin Starters(t)' /\ o \notin Activating(t)' /\ ~Step(o, t, "patch")'
    BY <2>2, <2>4 DEF Starters, Activating, Step
  <2>6. JobFits(o, t)'
    BY <2>2, <2>4 DEF JobFits
  <2> QED
    BY <1>1, <1>2, <2>5, <2>6, QuietKeeps DEF OthersStay, Step
<1>5. CASE StartUpdate(o, t) /\ ~Activates(t)
  <2> DEFINE j == [Idle EXCEPT !.step = "patch", !.kind = "update", !.type = type[t],
                               !.pod = created[t]]
  <2>1. j \in Jobs
    BY <1>1, JobTypes
  <2>2. j.step = "patch" /\ j.type = type[t] /\ j.result = NoPod
    BY DEF Idle
  <2>3. Become(o, t, j)
    BY <1>5 DEF StartUpdate
  <2> HIDE DEF j
  <2>4. job'[o][t] = j
    BY <1>1, <2>1, <2>3, BecomeType
  <2>5. /\ o \notin Starters(t)' /\ o \notin Activating(t)'
        /\ job'[o][t].result \notin PodNames
    BY <2>2, <2>4, NamesAssumption DEF Starters, Activating, Step
  <2>6. JobFits(o, t)'
    BY <1>1, <2>2, <2>4 DEF JobFits, TaskTypes
  <2> QED
    BY <1>1, <1>2, <2>5, <2>6, QuietKeeps DEF OthersStay, Step
<1> QED
  BY <1>3, <1>4, <1>5

\* An activation begins: it is one pod more to come, and one cause more, but for the
\* first, which has the old pod to delete.
LEMMA ActivationKeeps ==
    ASSUME TypeOK, TypeOK', NEW o \in Operators, NEW t \in Tasks, Fits(t), Later(t),
           OthersStay(o, t), StartUpdate(o, t), Activates(t)
    PROVE  Fits(t)'
<1>1. /\ Step(o, t, "idle") /\ UNCHANGED <<objectVars, podVars, faultVars>>
      /\ type[t] \in TaskTypes /\ created[t] \in PodNames /\ created[t] \in Results
      /\ faulted[t] \in Nat /\ activated[t] \in Nat /\ activated'[t] = activated[t] + 1
      /\ handled[t] = "standby" /\ job \in [Operators -> [Tasks -> Jobs]]
  BY DEF StartUpdate, Activates, TypeOK
<1>2. /\ faulted'[t] = faulted[t] /\ created'[t] = created[t] /\ Pods(t)' = Pods(t)
      /\ handled'[t] = handled[t]
  BY <1>1 DEF objectVars, faultVars, podVars, Pods
<1> DEFINE j == [Idle EXCEPT !.step = "delete_old", !.kind = "update", !.type = type[t],
                             !.pod = created[t]]
<1>3. j \in Jobs
  BY <1>1, JobTypes
<1>4. j.step = "delete_old" /\ j.kind = "update" /\ j.type = type[t] /\ j.pod = created[t]
  BY DEF Idle
<1>5. Become(o, t, j)
  BY DEF StartUpdate
<1> HIDE DEF j
<1>6. job'[o][t] = j
  BY <1>1, <1>3, <1>5, BecomeType
<1>7. \A x \in Operators : JobFits(x, t)'
  <2>1. JobFits(o, t)'
    BY <1>1, <1>4, <1>6 DEF JobFits, TaskTypes
  <2> QED
    BY <2>1, SetsAfter DEF Fits, OthersStay
<1>8. /\ Counted(t) /\ Counted(t)'
      /\ Cardinality(Operators) \in Nat
  BY Counts, CountsAfter, TasksAssumption, PartSize DEF CountedAll
<1>9. Coming(t)' <= Coming(t) + 1
  <2>1. Starters(t)' \subseteq Starters(t)
    BY <1>4, <1>6 DEF Starters, Step, OthersStay, Later
  <2>2. Activating(t)' \subseteq Activating(t) \cup {o}
    BY DEF Activating, Step, OthersStay
  <2>3. /\ Cardinality(Starters(t)) \in Nat /\ Cardinality(Starters(t)') \in Nat
        /\ Cardinality(Starters(t)') <= Cardinality(Starters(t))
    <3> DEFINE S == Starters(t)
               T == Starters(t)'
    <3>1. IsFiniteSet(S) /\ T \subseteq S
      BY <1>8, <2>1 DEF Counted
    <3> HIDE DEF S, T
    <3>2. Cardinality(S) \in Nat /\ Cardinality(T) \in Nat /\ Cardinality(T) <= Cardinality(S)
      BY <3>1, PartSize
    <3> QED
      BY <3>2 DEF S, T
  <2>4. /\ Cardinality(Activating(t)) \in Nat /\ Cardinality(Activating(t)') \in Nat
        /\ Cardinality(Activating(t)') <= Cardinality(Activating(t)) + 1
    <3> DEFINE S == Activating(t)
               T == Activating(t)'
    <3>1. IsFiniteSet(S) /\ T \subseteq S \cup {o}
      BY <1>8, <2>2 DEF Counted
    <3> HIDE DEF S, T
    <3>2. Cardinality(S) \in Nat /\ Cardinality(T) \in Nat /\ Cardinality(T) <= Cardinality(S) + 1
      BY <3>1, OneMore
    <3> QED
      BY <3>2 DEF S, T
  <2> QED
    BY <2>3, <2>4 DEF Coming
<1>10. /\ Coming(t) \in Nat /\ Coming(t)' \in Nat /\ Causes(t) \in Nat
       /\ Causes(t)' = Causes(t) + 1
  BY <1>1, <1>2, <1>8 DEF Counted, Causes
<1>11. IsFiniteSet(Pods(t)) /\ Cardinality(Pods(t)) \in Nat
  BY FS_CardinalityType DEF Fits
<1>12. Load(t, Pods(t))' <= Causes(t)'
  BY <1>2, <1>9, <1>10, <1>11 DEF Fits, Load
<1>13. SpareCause(t)'
  <2>1. activated'[t] # 0
    BY <1>1
  <2>2. CASE activated[t] = 0
    <3>1. created[t] \in Named(t)
      BY <1>1 DEF Named
    <3>2. Cardinality(Pods(t) \ {created[t]}) + Coming(t) < Causes(t)
      BY <2>2, <3>1 DEF Fits, SpareCause, Load
    <3>3. Cardinality(Pods(t) \ {created[t]}) \in Nat
      BY <1>11, FS_RemoveElement, FS_CardinalityType
    <3>4. Cardinality(Pods(t)' \ {created[t]}) + Coming(t)' < Causes(t)'
      BY <1>2, <1>9, <1>10, <3>2, <3>3
    <3> QED
      BY <1>4, <1>6, <2>1, <3>4 DEF SpareCause, Load, Step
  <2>3. CASE activated[t] # 0 /\ Load(t, Pods(t)) < Causes(t)
    BY <1>2, <1>9, <1>10, <1>11, <2>1, <2>3 DEF SpareCause, Load
  <2>4. CASE activated[t] # 0 /\ ~(Load(t, Pods(t)) < Causes(t))
    <3>1. PICK x \in Operators :
            /\ Step(x, t, "delete_old")
            /\ Cardinality(Pods(t) \ {job[x][t].pod}) + Coming(t) < Causes(t)
      BY <2>4 DEF Fits, SpareCause, Load
    <3>2. job'[x][t] = job[x][t]
      BY <1>1, <3>1 DEF OthersStay, Step
    <3>3. Cardinality(Pods(t) \ {job[x][t].pod}) \in Nat
      BY <1>11, FS_RemoveElement, FS_CardinalityType
    <3>4. Cardinality(Pods(t)' \ {job[x][t].pod}) + Coming(t)' < Causes(t)'
      BY <1>2, <1>9, <1>10, <3>1, <3>3
    <3> QED
      BY <2>1, <3>1, <3>2, <3>4 DEF SpareCause, Load, Step
  <2> QED
    BY <2>2, <2>3, <2>4
<1> QED
  BY <1>2, <1>7, <1>11, <1>12, <1>13 DEF Fits

\* A handler ends, is refused its pod, or cleans up: nothing is made.
LEMMA EndKeeps ==
    ASSUME TypeOK, TypeOK', NEW o \in Operators, NEW t \in Tasks, Fits(t), Later(t),
           OthersStay(o, t), SpawnRefused(o, t) \/ Patch(o, t) \/ Cleanup(o, t)
                             \/ CleanupFails(o, t) \/ Release(o, t)
    PROVE  Fits(t)'
<1>1. /\ Step(o, t, job[o][t].step) /\ job[o][t].step \notin {"idle", "delete_old"}
      /\ activated' = activated /\ faulted[t] \in Nat
  BY DEF SpawnRefused, Patch, Cleanup, CleanupFails, Release, Step, TypeOK
<1>2. Pods(t)' \subseteq Pods(t)
  <2>1. CASE Cleanup(o, t)
    BY <2>1, PodsAfterDelete DEF Cleanup
  <2>2. CASE UNCHANGED podVars
    BY <2>2 DEF podVars, Pods
  <2> QED
    BY <2>1, <2>2 DEF SpawnRefused, Patch, CleanupFails, Release
<1>3. PICK k \in {0, 1} : faulted'[t] = faulted[t] + k
  <2>1. CASE Fault(t)
    <3>1. faulted'[t] = faulted[t] + 1
      BY <2>1 DEF Fault, TypeOK
    <3> QED
      BY <3>1
  <2>2. CASE UNCHANGED faultVars
    <3>1. faulted'[t] = faulted[t] + 0
      BY <1>1, <2>2 DEF faultVars
    <3> QED
      BY <3>1
  <2> QED
    BY <2>1, <2>2 DEF SpawnRefused, Patch, Cleanup, CleanupFails, Release
<1>4. created'[t] \in {created[t]} \/
         (Step(o, t, "patch") /\ created'[t] = job[o][t].result)
  <2>1. CASE Patch(o, t)
    <3>1. Step(o, t, "patch")
      BY <2>1 DEF Patch
    <3>2. created' = created \/ created' = [created EXCEPT ![t] = job[o][t].result]
      BY <2>1 DEF Patch
    <3> QED
      BY <3>1, <3>2 DEF TypeOK
  <2>2. CASE ~Patch(o, t)
    BY <2>2 DEF SpawnRefused, Cleanup, CleanupFails, Release, objectVars
  <2> QED
    BY <2>1, <2>2
<1>5. CASE SpawnRefused(o, t)
  <2>1. job'[o][t].step = "patch" /\ job'[o][t].result = Failed /\ job'[o][t].type = job[o][t].type
    BY <1>5, IdleType, JobAfter DEF SpawnRefused
  <2>2. o \notin Starters(t)' /\ o \notin Activating(t)' /\ job'[o][t].result \notin PodNames
    BY <2>1, NamesAssumption DEF Starters, Activating, Step
  <2>3. JobFits(o, t)'
    BY <1>5, <2>1 DEF SpawnRefused, Step, Fits, JobFits
  <2> QED
    BY <1>1, <1>2, <1>3, <1>4, <2>2, <2>3, QuietKeeps DEF OthersStay, Step
<1>6. CASE Cleanup(o, t) \/ CleanupFails(o, t)
  <2>1. job'[o][t].step = "release"
    BY <1>6, IdleType, JobAfter DEF Cleanup, CleanupFails
  <2>2. o \notin Starters(t)' /\ o \notin Activating(t)' /\ ~Step(o, t, "patch")'
    BY <2>1 DEF Starters, Activating, Step
  <2>3. JobFits(o, t)'
    BY <2>1 DEF JobFits
  <2> QED
    BY <1>1, <1>2, <1>3, <1>4, <2>2, <2>3, QuietKeeps DEF OthersStay, Step
<1>7. CASE Patch(o, t) \/ Release(o, t)
  <2>1. job'[o][t] = Idle /\ Idle.step = "idle"
    BY <1>7, IdleType, JobAfter DEF Patch, Release, Idle
  <2>2. handled'[t] # "none" \/ state'[t] = "gone"
    <3>1. CASE Patch(o, t)
      <4>1. job[o][t].type # "none"
        BY <3>1 DEF Patch, Step, Fits, JobFits
      <4> QED
        BY <3>1, <4>1 DEF Patch, TypeOK
    <3>2. CASE Release(o, t)
      BY <3>2 DEF Release, TypeOK
    <3> QED
      BY <1>7, <3>1, <3>2
  <2>3. o \notin Starters(t)' /\ o \notin Activating(t)' /\ ~Step(o, t, "patch")'
    BY <2>1, <2>2 DEF Starters, Activating, Step
  <2>4. JobFits(o, t)'
    BY <2>1 DEF JobFits
  <2> QED
    BY <1>1, <1>2, <1>3, <1>4, <2>3, <2>4, QuietKeeps DEF OthersStay, Step
<1> QED
  BY <1>5, <1>6, <1>7

\* The old pod is deleted, which was the spare cause, or a failure is one.
LEMMA DeletionKeeps ==
    ASSUME TypeOK, TypeOK', NEW o \in Operators, NEW t \in Tasks, Fits(t), Later(t),
           OthersStay(o, t), DeleteOld(o, t) \/ DeleteOldFails(o, t)
    PROVE  Fits(t)'
<1>1. /\ Step(o, t, "delete_old") /\ UNCHANGED objectVars /\ activated' = activated
      /\ faulted[t] \in Nat /\ activated[t] \in Nat
      /\ job[o][t].kind = "update" /\ job[o][t].type # "none"
  BY DEF DeleteOld, DeleteOldFails, TypeOK, Fits, JobFits, Step
<1>2. /\ job'[o][t].step = "spawn" /\ job'[o][t].kind = "update"
      /\ job'[o][t].type = job[o][t].type
  BY <1>1, IdleType, JobAfter DEF DeleteOld, DeleteOldFails
<1>3. \A x \in Operators : JobFits(x, t)'
  <2>1. JobFits(o, t)'
    BY <1>1, <1>2 DEF JobFits
  <2> QED
    BY <2>1, SetsAfter DEF Fits, OthersStay
<1>4. Activating(t)' \subseteq Activating(t) /\ Coming(t)' <= Coming(t)
  <2>1. o \in Activating(t) /\ o \notin Starters(t)'
    BY <1>1, <1>2 DEF Activating, Starters, Step
  <2>2. /\ Starters(t)' \ {o} \subseteq Starters(t) \ {o}
        /\ Activating(t)' \ {o} \subseteq Activating(t) \ {o}
    BY SetsAfter DEF OthersStay
  <2> QED
    BY <2>1, <2>2, ComingAfter
<1>5. \A p \in Named(t)' : p \in Named(t)
  <2>1. created'[t] = created[t] /\ ~Step(o, t, "patch")'
    BY <1>1, <1>2 DEF objectVars, Step
  <2>2. \A p \in Named(t)' : p \in Named(t) \/ p = created'[t]
    BY <2>1, SetsAfter DEF OthersStay
  <2>3. Named(t)' \subseteq PodNames /\ {created[t]} \cap PodNames \subseteq Named(t)
    BY DEF Named
  <2> QED
    BY <2>1, <2>2, <2>3
<1>6. /\ Coming(t) \in Nat /\ Coming(t)' \in Nat /\ Causes(t) \in Nat /\ Causes(t)' \in Nat
      /\ Cardinality(Operators) \in Nat
  BY Counts, CountsAfter, TasksAssumption, PartSize DEF CountedAll, Counted
<1>7. \A x \in Operators : x # o => job'[x][t] = job[x][t]
  BY DEF OthersStay
<1>8. CASE DeleteOld(o, t)
  <2>1. Pods(t)' = Pods(t) \ {job[o][t].pod} /\ faulted'[t] = faulted[t] + 0
    BY <1>1, <1>8, PodsAfterDelete DEF DeleteOld, faultVars
  <2>2. Causes(t)' = Causes(t)
    BY <1>1, <1>8 DEF DeleteOld, faultVars, Causes
  <2>3. Cardinality(Pods(t)') \in Nat
    <3>1. Pods(t)' \subseteq Pods(t)
      BY <2>1
    <3> QED
      BY <3>1, PartSize DEF Fits
  <2>4. Cardinality(Pods(t) \ {job[o][t].pod}) + Coming(t) < Causes(t)
        => Cardinality(Pods(t)') + Coming(t)' < Causes(t)'
    BY <1>4, <1>6, <2>1, <2>2, <2>3
  <2>5. Coming(t)' <= Coming(t) + 0
    BY <1>4, <1>6
  <2> QED
    BY <1>1, <1>3, <1>4, <1>5, <1>7, <2>1, <2>4, <2>5, StepKeeps
<1>9. CASE DeleteOldFails(o, t)
  <2>1. Pods(t)' = Pods(t) /\ faulted'[t] = faulted[t] + 1
    BY <1>9 DEF DeleteOldFails, podVars, Pods, Fault, TypeOK
  <2>2. Causes(t)' = Causes(t) + 1
    BY <1>1, <1>6, <2>1 DEF Causes
  <2>3. Cardinality(Pods(t)) \in Nat
    BY FS_CardinalityType DEF Fits
  <2>4. Cardinality(Pods(t)') + Coming(t)' < Causes(t)'
    BY <1>4, <1>6, <2>1, <2>2, <2>3 DEF Fits, Load
  <2>5. Coming(t)' <= Coming(t) + 1
    BY <1>4, <1>6
  <2> QED
    BY <1>1, <1>3, <1>4, <1>5, <2>1, <2>4, <2>5, StepKeeps
<1> QED
  BY <1>8, <1>9

\* The awaited pod is made: it is there instead of still to come.
LEMMA SpawnKeeps ==
    ASSUME TypeOK, TypeOK', NEW o \in Operators, NEW t \in Tasks, Fits(t), Later(t),
           OthersStay(o, t), Spawn(o, t)
    PROVE  Fits(t)'
<1> DEFINE n == NewPod(t)
<1>1. /\ Step(o, t, "spawn") /\ UNCHANGED objectVars /\ activated' = activated
      /\ faulted'[t] = faulted[t] + 0 /\ faulted[t] \in Nat /\ activated[t] \in Nat
      /\ job[o][t].kind \in {"create", "update"} /\ job[o][t].type # "none"
  BY DEF Spawn, TypeOK, Fits, JobFits, Step, faultVars
<1>2. n \in PodNames /\ n \in Results /\ n \notin Pods(t) /\ Pods(t)' = Pods(t) \cup {n}
  BY NewPodType, PodsAfterStore, TasksAssumption DEF Spawn, StorePod, Pods
<1> HIDE DEF n
<1>3. /\ job'[o][t].step = "patch" /\ job'[o][t].result = n
      /\ job'[o][t].type = job[o][t].type
  BY <1>1, <1>2, JobAfter DEF Spawn, n
<1>4. \A x \in Operators : JobFits(x, t)'
  <2>1. JobFits(o, t)'
    BY <1>1, <1>3 DEF JobFits
  <2> QED
    BY <2>1, SetsAfter DEF Fits, OthersStay
<1>5. Activating(t)' \subseteq Activating(t) /\ Coming(t)' + 1 <= Coming(t)
  <2>1. /\ o \in Starters(t) \/ o \in Activating(t)
        /\ o \notin Starters(t)' /\ o \notin Activating(t)'
    BY <1>1, <1>3 DEF Activating, Starters, Step
  <2>2. /\ Starters(t)' \ {o} \subseteq Starters(t) \ {o}
        /\ Activating(t)' \ {o} \subseteq Activating(t) \ {o}
    BY SetsAfter DEF OthersStay
  <2> QED
    BY <2>1, <2>2, ComingAfter
<1>6. /\ Coming(t) \in Nat /\ Coming(t)' \in Nat /\ Causes(t) \in Nat
      /\ Cardinality(Operators) \in Nat
  BY Counts, CountsAfter, TasksAssumption, PartSize DEF CountedAll, Counted
<1>7. Causes(t)' = Causes(t) /\ Coming(t)' + 1 <= Coming(t) + 0
  BY <1>1, <1>5, <1>6 DEF Causes
<1>8. Cardinality(Pods(t)) \in Nat
  BY FS_CardinalityType DEF Fits
<1>9. Cardinality(Pods(t)' \ {n}) + Coming(t)' < Causes(t)'
  <2>1. Pods(t)' \ {n} = Pods(t)
    BY <1>2
  <2> QED
    BY <1>5, <1>6, <1>7, <1>8, <2>1 DEF Fits, Load
<1>10. \A p \in Named(t)' :
          p \in Named(t) \/ Cardinality(Pods(t)' \ {p}) + Coming(t)' < Causes(t)'
  <2>1. created'[t] = created[t]
    BY <1>1 DEF objectVars
  <2>2. \A p \in Named(t)' : p \in Named(t) \/ p = created'[t] \/ p = n
    BY <1>3, SetsAfter DEF OthersStay
  <2>3. Named(t)' \subseteq PodNames /\ {created[t]} \cap PodNames \subseteq Named(t)
    BY DEF Named
  <2> QED
    BY <1>9, <2>1, <2>2, <2>3
<1>11. \A x \in Operators : Step(x, t, "delete_old") => job'[x][t] = job[x][t]
  BY <1>1 DEF OthersStay, Step
<1> QED
  BY <1>1, <1>2, <1>4, <1>5, <1>7, <1>10, <1>11, StepKeeps

\* A handler fails half-way: what it did stays done and it may be called again, which
\* is one pod more, but the failure is one cause more.
LEMMA FaultKeeps ==
    ASSUME TypeOK, TypeOK', NEW o \in Operators, NEW t \in Tasks, Fits(t), Later(t),
           OthersStay(o, t), SpawnReplyLost(o, t) \/ Interrupted(o, t)
    PROVE  Fits(t)'
<1>1. /\ UNCHANGED objectVars /\ activated' = activated /\ ~Step(o, t, "idle")
      /\ faulted'[t] = faulted[t] + 1 /\ faulted[t] \in Nat /\ activated[t] \in Nat
  BY DEF SpawnReplyLost, Interrupted, TypeOK, Fault, Step
<1>2. \/ job'[o][t] = Idle
      \/ /\ SpawnReplyLost(o, t)
         /\ job'[o][t].step = "patch" /\ job'[o][t].result = Failed
         /\ job'[o][t].type = job[o][t].type
  BY IdleType, JobAfter DEF SpawnReplyLost, Interrupted
<1>3. /\ job'[o][t].step \in {"idle", "patch"}
      /\ job'[o][t].step = "patch" => job'[o][t].result = Failed
      /\ Interrupted(o, t) => job'[o][t].step = "idle"
  <2>1. Interrupted(o, t) => job'[o][t] = Idle
    BY IdleType, JobAfter DEF Interrupted
  <2>2. Idle.step = "idle"
    BY DEF Idle
  <2> QED
    BY <1>2, <2>1, <2>2
<1>4. \A x \in Operators : JobFits(x, t)'
  <2>1. JobFits(o, t)'
    <3>1. Idle.step = "idle"
      BY DEF Idle
    <3>2. SpawnReplyLost(o, t) => job[o][t].type # "none"
      BY DEF SpawnReplyLost, Fits, JobFits, Step
    <3> QED
      BY <1>2, <3>1, <3>2 DEF JobFits
  <2> QED
    BY <2>1, SetsAfter DEF Fits, OthersStay
<1>5. /\ Starters(t)' \ {o} \subseteq Starters(t) \ {o}
      /\ Activating(t)' \ {o} \subseteq Activating(t) \ {o}
      /\ o \notin Activating(t)'
  BY <1>3, SetsAfter DEF Activating, Step, OthersStay
<1>6. /\ Coming(t) \in Nat /\ Coming(t)' \in Nat /\ Causes(t) \in Nat /\ Causes(t)' \in Nat
      /\ Cardinality(Operators) \in Nat /\ Cardinality(Pods(t)) \in Nat
      /\ Cardinality(Pods(t)') \in Nat
  <2>1. IsFiniteSet(Pods(t)')
    <3>1. CASE SpawnReplyLost(o, t)
      BY <3>1, PodsAfterStore, FS_AddElement DEF SpawnReplyLost, Fits
    <3>2. CASE Interrupted(o, t)
      BY <3>2 DEF Interrupted, podVars, Pods, Fits
    <3> QED
      BY <3>1, <3>2
  <2> QED
    BY <2>1, Counts, CountsAfter, TasksAssumption, PartSize, FS_CardinalityType
       DEF CountedAll, Counted, Fits
<1>7. Causes(t)' = Causes(t) + 1
  BY <1>1, <1>6 DEF Causes
<1>8. \A p \in Named(t)' : p \in Named(t)
  <2>1. created'[t] = created[t]
    BY <1>1 DEF objectVars
  <2>2. \A p \in Named(t)' : p \in Named(t) \/ p = created'[t] \/ p = Failed
    BY <1>3, SetsAfter DEF OthersStay, Step
  <2>3. Named(t)' \subseteq PodNames /\ {created[t]} \cap PodNames \subseteq Named(t)
    BY DEF Named
  <2> QED
    BY <2>1, <2>2, <2>3, NamesAssumption
<1>9. \A x \in Operators : x # o => job'[x][t] = job[x][t]
  BY DEF OthersStay
<1>10. CASE SpawnReplyLost(o, t)
  <2>1. Step(o, t, "spawn") /\ \E n : Pods(t)' = Pods(t) \cup {n}
    BY <1>10, PodsAfterStore DEF SpawnReplyLost
  <2>2. o \in Starters(t) \/ o \in Activating(t)
    BY <2>1 DEF Starters, Activating, Step, Fits, JobFits
  <2>3. /\ Activating(t)' \subseteq Activating(t)
        /\ Coming(t)' <= Coming(t)
    BY <1>5, <2>2, ComingAfter
  <2>4. Coming(t)' + 1 <= Coming(t) + 1
    BY <1>6, <2>3
  <2>5. \A x \in Operators : Step(x, t, "delete_old") => job'[x][t] = job[x][t]
    BY <1>9, <2>1 DEF Step
  <2> QED
    BY <1>1, <1>4, <1>8, <2>1, <2>3, <2>4, <2>5, StepKeeps
<1>11. CASE Interrupted(o, t)
  <2>1. Pods(t)' = Pods(t)
    BY <1>11 DEF Interrupted, podVars, Pods
  <2>2. /\ Activating(t)' \subseteq Activating(t)
        /\ Coming(t)' <= Coming(t) + 1
        /\ o \in Activating(t) => Coming(t)' <= Coming(t)
    BY <1>5, ComingAfter
  <2>3. Step(o, t, "delete_old") => Cardinality(Pods(t)') + Coming(t)' < Causes(t)'
    <3> SUFFICES ASSUME Step(o, t, "delete_old")
                 PROVE  Cardinality(Pods(t)') + Coming(t)' < Causes(t)'
      OBVIOUS
    <3>1. Coming(t)' <= Coming(t)
      BY <2>2 DEF Activating
    <3> QED
      BY <1>6, <1>7, <2>1, <3>1 DEF Fits, Load
  <2> QED
    BY <1>1, <1>4, <1>8, <1>9, <2>1, <2>2, <2>3, StepKeeps
<1> QED
  BY <1>10, <1>11

\* Every step of a task's own handlers.
LEMMA HandlerKeeps ==
    ASSUME TypeOK, TypeOK', NEW o \in Operators, NEW t \in Tasks, Fits(t), Later(t),
           HandlerStep(o, t) \/ HandlerFault(o, t)
    PROVE  Fits(t)'
<1>1. OthersStay(o, t)
  BY HandlerAlone
<1>2. CASE AddFinalizer(o, t)
  <2>1. /\ \A x \in Operators : job'[x][t] = job[x][t]
        /\ Pods(t)' \subseteq Pods(t) /\ activated'[t] = activated[t]
        /\ faulted'[t] = faulted[t] /\ created'[t] = created[t]
    BY <1>2 DEF AddFinalizer, podVars, faultVars, Pods
  <2> QED
    BY <2>1, UnconcernedKeeps
<1> QED
  BY <1>1, <1>2, StartKeeps, ActivationKeeps, EndKeeps, DeletionKeeps, SpawnKeeps, FaultKeeps
     DEF HandlerStep, HandlerFault

\* The handlers of one task add no pod to another, but may delete one whose name the
\* other has taken.
LEMMA OtherTasksKeep ==
    ASSUME TypeOK, TypeOK', NEW o \in Operators, NEW t \in Tasks,
           HandlerStep(o, t) \/ HandlerFault(o, t),
           NEW x \in Tasks, x # t, Fits(x), Later(x)
    PROVE  Fits(x)'
<1>1. \A y \in Operators : job'[y][x] = job[y][x]
  BY HandlerAlone DEF OthersStay
<1>2. /\ activated'[x] = activated[x] /\ faulted'[x] = faulted[x]
      /\ created'[x] = created[x]
  BY DEF HandlerStep, HandlerFault, AddFinalizer, StartCreate, StartUpdate, StartDelete,
         DeleteOld, DeleteOldFails, Spawn, SpawnRefused, SpawnReplyLost, Patch,
         Cleanup, CleanupFails, Release, Interrupted, objectVars, faultVars, Fault, TypeOK
<1>3. Pods(x)' \subseteq Pods(x)
  <2>1. CASE UNCHANGED podVars
    BY <2>1 DEF podVars, Pods
  <2>2. CASE StorePod(o, t)
    BY <2>2, PodsAfterStore
  <2>3. CASE DeletePod(job[o][t].pod)
    BY <2>3, PodsAfterDelete
  <2> QED
    BY <2>1, <2>2, <2>3
       DEF HandlerStep, HandlerFault, AddFinalizer, StartCreate, StartUpdate, StartDelete,
           DeleteOld, DeleteOldFails, Spawn, SpawnRefused, SpawnReplyLost, Patch,
           Cleanup, CleanupFails, Release, Interrupted
<1> QED
  BY <1>1, <1>2, <1>3, UnconcernedKeeps

\* Clients, the clock and vanishing pods.
LEMMA ClientKeeps ==
    ASSUME TypeOK, TypeOK', Client \/ Tick \/ UNCHANGED vars,
           NEW t \in Tasks, Fits(t), Later(t)
    PROVE  Fits(t)'
<1>1. job' = job /\ UNCHANGED <<created, faulted, activated>>
  BY DEF Client, Tick, vars, Submit, Edit, Delete, PodVanishes, objectVars, faultVars
<1>2. Pods(t)' \subseteq Pods(t)
  <2>1. CASE UNCHANGED podVars
    BY <2>1 DEF podVars, Pods
  <2>2. ASSUME NEW n \in PodNames, PodVanishes(n) PROVE Pods(t)' \subseteq Pods(t)
    BY <2>2, PodsAfterDelete DEF PodVanishes, DeletePod
  <2> QED
    BY <2>1, <2>2 DEF Client, Tick, vars, Submit, Edit, Delete, podVars
<1> QED
  BY <1>1, <1>2, UnconcernedKeeps

\* At the start no pod exists, and as many may come as there are operators.
LEMMA InitFits == Init => Inv
<1> SUFFICES ASSUME Init PROVE Inv
  OBVIOUS
<1>1. TypeOK
  BY InitType
<1>2. ASSUME NEW t \in Tasks PROVE Fits(t)
  <2>1. Pods(t) = {}
    BY TasksAssumption DEF Init, Pods
  <2>2. \A o \in Operators : job[o][t] = Idle /\ Idle.step = "idle"
    BY DEF Init, Idle
  <2>3. Activating(t) = {} /\ Named(t) = {} /\ \A o \in Operators : JobFits(o, t)
    BY <2>2, NamesAssumption DEF Init, Activating, Named, Step, JobFits
  <2>4. /\ Starters(t) \subseteq Operators /\ Cardinality(Operators) \in Nat
        /\ Cardinality(Starters(t)) \in Nat
        /\ Cardinality(Starters(t)) <= Cardinality(Operators)
    BY TasksAssumption, PartSize DEF Starters
  <2>5. faulted[t] = 0 /\ activated[t] = 0
    BY DEF Init
  <2>6. IsFiniteSet({}) /\ Cardinality({}) = 0
    BY FS_EmptySet
  <2> QED
    BY <2>1, <2>3, <2>4, <2>5, <2>6 DEF Fits, SpareCause, Load, Coming, Causes
<1> QED
  BY <1>1, <1>2 DEF Inv, CausesInvariant, Fits

\* The invariant is inductive.
LEMMA NextKeepsInv ==
    ASSUME Inv, [Next]_vars
    PROVE  Inv'
<1>1. TypeOK /\ TypeOK' /\ \A t \in Tasks : Fits(t)
  BY NextType DEF Inv, CausesInvariant, Fits
<1>2. \A x \in Tasks : Later(x)
  BY <1>1, NextLater DEF Fits
<1>3. ASSUME NEW x \in Tasks PROVE Fits(x)'
  <2>1. CASE Client \/ Tick \/ UNCHANGED vars
    BY <1>1, <1>2, <2>1, ClientKeeps
  <2>2. ASSUME NEW o \in Operators, NEW t \in Tasks, HandlerStep(o, t) \/ HandlerFault(o, t)
        PROVE  Fits(x)'
    BY <1>1, <1>2, <2>2, HandlerKeeps, OtherTasksKeep
  <2> QED
    BY <2>1, <2>2 DEF Next
<1> QED
  BY <1>1, <1>3 DEF Inv, CausesInvariant, Fits

\* The pods that a task has and those still to come are never more than their causes,
\* and one cause is left over until the first activation has deleted the old pod.
THEOREM CausesInvariantHolds == Spec => [](TypeOK /\ CausesInvariant)
<1>1. Inv /\ [Next]_vars => Inv'
  BY NextKeepsInv
<1>2. Inv => TypeOK /\ CausesInvariant
  BY DEF Inv
<1> QED
  BY InitFits, <1>1, <1>2, PTL DEF Spec

\* A task has a pod besides its first only for an operator too many, for a failure or
\* for a further activation: with one operator, no failure and at most one activation
\* it has one pod at most.
THEOREM ExtraPodsHaveCausesHolds == Spec => []ExtraPodsHaveCauses
<1>1. TypeOK /\ CausesInvariant => ExtraPodsHaveCauses
  <2> SUFFICES ASSUME TypeOK, CausesInvariant, NEW t \in Tasks
               PROVE  Cardinality(Pods(t)) <= Cardinality(Operators) + faulted[t]
                          + (IF activated[t] = 0 THEN 0 ELSE activated[t] - 1)
    BY DEF ExtraPodsHaveCauses
  <2>1. Fits(t)
    BY DEF CausesInvariant, Fits
  <2>2. /\ Cardinality(Starters(t)) \in Nat /\ Cardinality(Activating(t)) \in Nat
        /\ Cardinality(Operators) \in Nat /\ Cardinality(Pods(t)) \in Nat
        /\ faulted[t] \in Nat /\ activated[t] \in Nat
    <3>1. Starters(t) \subseteq Operators /\ Activating(t) \subseteq Operators
      BY DEF Starters, Activating
    <3> QED
      BY <2>1, <3>1, TasksAssumption, PartSize, FS_CardinalityType DEF Fits, TypeOK
  <2>3. CASE activated[t] = 0
    BY <2>1, <2>2, <2>3 DEF Fits, Load, Coming, Causes
  <2>4. CASE activated[t] # 0 /\ Load(t, Pods(t)) < Causes(t)
    BY <2>2, <2>4 DEF Load, Coming, Causes
  <2>5. CASE activated[t] # 0 /\ ~(Load(t, Pods(t)) < Causes(t))
    <3>1. PICK o \in Operators : Step(o, t, "delete_old")
      BY <2>1, <2>5 DEF Fits, SpareCause
    <3>2. Cardinality(Activating(t)) # 0
      <4>1. IsFiniteSet(Activating(t)) /\ o \in Activating(t)
        BY <3>1, Counts DEF CountedAll, Counted, Activating
      <4> QED
        BY <4>1, FS_EmptySet
    <3> QED
      BY <2>1, <2>2, <2>5, <3>2 DEF Fits, Load, Coming, Causes
  <2> QED
    BY <2>3, <2>4, <2>5
<1> QED
  BY <1>1, CausesInvariantHolds, PTL
================================================================================
