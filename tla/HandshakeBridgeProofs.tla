------------------------- MODULE HandshakeBridgeProofs -------------------------
(***************************************************************************)
(* Proofs that the safety properties of HandshakeBridge hold for every set *)
(* of intents, every naming of them, and every bound on plans and faults;  *)
(* and that the bridge implements the safety half of what it promises.     *)
(***************************************************************************)
EXTENDS HandshakeRefinement, SequenceTheorems, TLAPS

\* Taking an intent out of the listing, or moving it to the end, leaves a
\* listing of intents.
LEMMA ListingType ==
    ASSUME byAge \in Seq(Intents), NEW i \in Intents
    PROVE  /\ Without(i) \in Seq(Intents)
           /\ Touched(i) \in Seq(Intents)
<1>1. Without(i) \in Seq(Intents)
  <2>1. CASE At(i) = {}
    BY <2>1 DEF Without
  <2>2. CASE At(i) # {}
    <3> DEFINE n == Len(byAge)
               k == CHOOSE k \in At(i) : TRUE
    <3>1. n \in Nat /\ k \in 1 .. n
      BY <2>2 DEF At
    <3>2. \A j \in 1 .. n : byAge[j] \in Intents
      OBVIOUS
    <3> HIDE DEF k, n
    <3>3. SubSeq(byAge, 1, k - 1) \in Seq(Intents)
      <4>1. 1 \in Int /\ k - 1 \in Int /\ \A j \in 1 .. k - 1 : byAge[j] \in Intents
        BY <3>1, <3>2
      <4> QED
        BY <4>1, SubSeqProperties
    <3>4. SubSeq(byAge, k + 1, n) \in Seq(Intents)
      <4>1. k + 1 \in Int /\ n \in Int /\ \A j \in k + 1 .. n : byAge[j] \in Intents
        BY <3>1, <3>2
      <4> QED
        BY <4>1, SubSeqProperties
    <3>5. SubSeq(byAge, 1, k - 1) \o SubSeq(byAge, k + 1, n) \in Seq(Intents)
      BY <3>3, <3>4, ConcatProperties
    <3> QED
      BY <2>2, <3>5 DEF Without, k, n
  <2> QED
    BY <2>1, <2>2
<1> QED
  BY <1>1, AppendProperties DEF Touched

\* The pass goes on with the rest of its files, or ends.
LEMMA NextFileType ==
    ASSUME todo \in Seq(Intents), todo # <<>>, NextFile
    PROVE  /\ todo' \in Seq(Intents)
           /\ held' = NoFile
           /\ pc' \in {"sleep", "parse"}
           /\ pc' = "parse" => todo' # <<>>
<1>1. Tail(todo) \in Seq(Intents) /\ Len(Tail(todo)) = Len(todo) - 1
  BY HeadTailProperties
<1>2. Len(todo) # 1 => Tail(todo) # <<>>
  BY <1>1, EmptySeq, LenProperties
<1> QED
  BY <1>1, <1>2 DEF NextFile

\* While the sidecar deals with a file there is one.
LEMMA TodoHasHead ==
    ASSUME TypeOK, SidecarCarries, pc \in {"parse", "create", "move"}
    PROVE  todo \in Seq(Intents) /\ todo # <<>> /\ Head(todo) \in Intents
<1>1. todo \in Seq(Intents) /\ todo # <<>>
  BY DEF TypeOK, SidecarCarries
<1> QED
  BY <1>1, HeadTailProperties

\* Between parse and move the sidecar holds a version of the file.
LEMMA HoldsVersion ==
    ASSUME TypeOK, SidecarCarries, pc \in {"create", "move"}
    PROVE  held \in Versions
<1>1. Head(todo) \in Intents /\ held \in queued[Head(todo)]
  BY TodoHasHead DEF SidecarCarries
<1> QED
  BY <1>1 DEF TypeOK

\* One more AgentTask from the version that the sidecar holds.
LEMMA StoreType ==
    ASSUME TypeOK, held \in Versions, NEW i \in Intents, SafeName[i] \in Names, Store(i)
    PROVE  tasks' \in [Intents -> [Versions -> Nat]] /\ taken' \subseteq Names
<1>1. tasks[i] \in [Versions -> Nat]
  BY DEF TypeOK
<1>2. [tasks[i] EXCEPT ![held] = tasks[i][held] + 1] \in [Versions -> Nat]
  BY <1>1
<1>3. [tasks EXCEPT ![i] = [tasks[i] EXCEPT ![held] = tasks[i][held] + 1]]
        \in [Intents -> [Versions -> Nat]]
  BY <1>2 DEF TypeOK
<1> QED
  BY <1>3 DEF TypeOK, Store

\* The sidecar's variables after it is done with a file.
LEMMA NextFileStep ==
    ASSUME TypeOK, SidecarCarries, pc \in {"parse", "create", "move"}, NextFile
    PROVE  /\ todo' \in Seq(Intents)
           /\ held' = NoFile
           /\ pc' \in {"sleep", "parse"}
           /\ pc' = "parse" => todo' # <<>>
<1>1. todo \in Seq(Intents) /\ todo # <<>>
  BY TodoHasHead
<1> QED
  BY <1>1, NextFileType

\* The variables have their types at the start.
LEMMA InitType == Init => TypeOK
BY IntentsAssumption, BoundsAssumption DEF Init, TypeOK, Contents, Versions

\* Every step keeps the types.
LEMMA NextType ==
    TypeOK /\ WriterHoldsTornFile /\ SidecarCarries /\ [Next]_vars => TypeOK'
<1> SUFFICES ASSUME TypeOK, WriterHoldsTornFile, SidecarCarries, [Next]_vars
             PROVE  TypeOK'
  OBVIOUS
<1> USE BoundsAssumption
<1>1. ASSUME NEW i \in Intents, PlanBegin(i) PROVE TypeOK'
  <2>1. Touched(i) \in Seq(Intents)
    BY ListingType DEF TypeOK
  <2> QED
    <3>1. plans' \in [Intents -> 0 .. MaxPlans]
      BY <1>1 DEF TypeOK, PlanBegin
    <3>2. pending' \in [Intents -> Contents]
      BY <1>1 DEF TypeOK, PlanBegin, Contents
    <3> QED
      BY <1>1, <2>1, <3>1, <3>2 DEF TypeOK, PlanBegin, sidecarVars
<1>2. ASSUME NEW i \in Intents, PlanNotQueued(i) PROVE TypeOK'
  BY <1>2 DEF TypeOK, PlanNotQueued, Fault, sidecarVars
<1>3. CASE PlanEnd
  <2>1. writer \in Intents /\ plans[writer] \in Versions
    BY <1>3 DEF PlanEnd, TypeOK, WriterHoldsTornFile, Versions
  <2>2. Touched(writer) \in Seq(Intents)
    BY <2>1, ListingType DEF TypeOK
  <2> QED
    <3>1. queued' \in [Intents -> SUBSET Versions]
      BY <1>3, <2>1 DEF TypeOK, PlanEnd
    <3>2. pending' \in [Intents -> Contents] /\ processed' \in [Intents -> Contents]
      BY <1>3, <2>1 DEF TypeOK, PlanEnd, Contents
    <3>3. byAge' \in Seq(Intents)
      BY <1>3, <2>2 DEF TypeOK, PlanEnd
    <3> QED
      BY <1>3, <3>1, <3>2, <3>3 DEF TypeOK, PlanEnd, sidecarVars
<1>4. CASE PlanCutOff
  BY <1>4 DEF TypeOK, PlanCutOff, Fault, sidecarVars
<1>5. CASE Wake
  BY <1>5 DEF TypeOK, Wake, plannerVars
<1>6. CASE Scan
  BY <1>6 DEF TypeOK, Scan, plannerVars
<1>7. CASE Capacity
  BY <1>7 DEF TypeOK, Capacity, plannerVars
<1>8. CASE AbortPass
  BY <1>8 DEF TypeOK, AbortPass, Fault, plannerVars
<1>9. CASE Parse
  BY <1>9 DEF TypeOK, Parse, plannerVars
<1>10. CASE ParseFails
  <2>1. todo' \in Seq(Intents) /\ held' = NoFile /\ pc' \in {"sleep", "parse"}
    BY <1>10, NextFileStep DEF ParseFails
  <2> QED
    <3>1. faults' \in 0 .. MaxFaults
      BY <1>10 DEF TypeOK, ParseFails, Fault
    <3> QED
      BY <1>10, <2>1, <3>1 DEF TypeOK, ParseFails, plannerVars
<1>11. CASE Create
  <2>1. Head(todo) \in Intents /\ SafeName[Head(todo)] \in Names
    BY <1>11, TodoHasHead, IntentsAssumption DEF Create
  <2>a. held \in Versions
    BY <1>11, HoldsVersion DEF Create
  <2>2. tasks' \in [Intents -> [Versions -> Nat]] /\ taken' \subseteq Names
    BY <1>11, <2>1, <2>a, StoreType DEF Create, TypeOK
  <2> QED
    BY <1>11, <2>2 DEF TypeOK, Create, plannerVars
<1>12. CASE CreateFails
  <2>1. todo' \in Seq(Intents) /\ held' = NoFile /\ pc' \in {"sleep", "parse"}
    BY <1>12, NextFileStep DEF CreateFails
  <2> QED
    BY <1>12, <2>1
       DEF TypeOK, CreateFails, Accepts, Fault, plannerVars
<1>13. CASE CreateReplyLost
  <2>1. todo' \in Seq(Intents) /\ held' = NoFile /\ pc' \in {"sleep", "parse"}
    BY <1>13, NextFileStep DEF CreateReplyLost
  <2>2. Head(todo) \in Intents /\ SafeName[Head(todo)] \in Names
    BY <1>13, TodoHasHead, IntentsAssumption DEF CreateReplyLost
  <2>a. held \in Versions
    BY <1>13, HoldsVersion DEF CreateReplyLost
  <2>3. tasks' \in [Intents -> [Versions -> Nat]] /\ taken' \subseteq Names
    BY <1>13, <2>2, <2>a, StoreType DEF CreateReplyLost, TypeOK
  <2> QED
    BY <1>13, <2>1, <2>3
       DEF TypeOK, CreateReplyLost, Fault, plannerVars
<1>14. CASE Move
  <2>1. todo' \in Seq(Intents) /\ held' = NoFile /\ pc' \in {"sleep", "parse"}
    BY <1>14, NextFileStep DEF Move
  <2>2. Head(todo) \in Intents
    BY <1>14, TodoHasHead DEF Move
  <2>3. Without(Head(todo)) \in Seq(Intents)
    BY <2>2, ListingType DEF TypeOK
  <2>4. pending' \in [Intents -> Contents] /\ processed' \in [Intents -> Contents]
    BY <1>14, <2>2 DEF Move, TypeOK, Contents
  <2> QED
    BY <1>14, <2>1, <2>3, <2>4 DEF TypeOK, Move, plannerVars
<1>15. CASE MoveFails
  <2>1. todo' \in Seq(Intents) /\ held' = NoFile /\ pc' \in {"sleep", "parse"}
    BY <1>15, NextFileStep DEF MoveFails
  <2> QED
    BY <1>15, <2>1 DEF TypeOK, MoveFails, Fault, plannerVars
<1>16. CASE Crash
  BY <1>16 DEF TypeOK, Crash, Fault, plannerVars
<1>17. CASE Tick
  BY <1>17 DEF TypeOK, Tick, plannerVars, sidecarVars
<1>18. CASE UNCHANGED vars
  BY <1>18 DEF TypeOK, vars, plannerVars, sidecarVars
<1> QED
  BY <1>1, <1>2, <1>3, <1>4, <1>5, <1>6, <1>7, <1>8, <1>9, <1>10, <1>11,
     <1>12, <1>13, <1>14, <1>15, <1>16, <1>17, <1>18
     DEF Next, PlannerNext, SidecarStep, SidecarFault

--------------------------------------------------------------------------------
(* The inductive invariant: the types, the three safety properties that are *)
(* kept only together, and DispatchInvariant.                               *)

Inv ==
    /\ TypeOK
    /\ DispatchInvariant
    /\ ProcessedIntentRan
    /\ TasksCarryWholePlans
    /\ DuplicatesNeedFaults

\* The inductive invariant holds at the start.
LEMMA InitInv == Init => Inv
<1> SUFFICES ASSUME Init PROVE Inv
  OBVIOUS
<1>1. TypeOK
  BY InitType
<1>2. DispatchInvariant
  BY ContentsAssumption
     DEF Init, DispatchInvariant, FilesAreQueued, WriterHoldsTornFile,
         SidecarCarries, OneFile, NextDispatchIsFresh, Versions
<1>3. ProcessedIntentRan /\ TasksCarryWholePlans /\ DuplicatesNeedFaults
  BY DEF Init, ProcessedIntentRan, TasksCarryWholePlans, DuplicatesNeedFaults
<1> QED
  BY <1>1, <1>2, <1>3 DEF Inv

\* Queued versions and the files on the volume.
LEMMA FilesStep ==
    ASSUME TypeOK, FilesAreQueued, WriterHoldsTornFile, SidecarCarries,
           [Next]_vars
    PROVE  FilesAreQueued'
<1>1. ASSUME NEW i \in Intents, PlanBegin(i) PROVE FilesAreQueued'
  BY <1>1, ContentsAssumption DEF PlanBegin, FilesAreQueued, TypeOK, Versions
<1>2. ASSUME NEW i \in Intents, PlanNotQueued(i) PROVE FilesAreQueued'
  BY <1>2 DEF PlanNotQueued, FilesAreQueued, TypeOK, Versions
<1>3. CASE PlanEnd
  <2>1. writer \in Intents /\ plans[writer] \in Nat \ {0}
    BY <1>3 DEF PlanEnd, TypeOK, WriterHoldsTornFile
  <2>2. queued' = [queued EXCEPT ![writer] = @ \cup {plans[writer]}] /\ plans' = plans
    BY <1>3 DEF PlanEnd
  <2>3. \A i \in Intents : \A v \in queued'[i] : v <= plans'[i]
    BY <2>1, <2>2 DEF FilesAreQueued, TypeOK
  <2>4. \A i \in Intents : pending'[i] \in Versions => pending'[i] \in queued'[i]
    BY <1>3, <2>1, <2>2 DEF PlanEnd, FilesAreQueued, TypeOK
  <2>5. \A i \in Intents : processed'[i] \in Versions => processed'[i] \in queued'[i]
    BY <1>3, <2>1, <2>2 DEF PlanEnd, FilesAreQueued, TypeOK
  <2>6. \A i \in Intents : plans'[i] = 0 => pending'[i] = NoFile
    BY <1>3, <2>1, <2>2 DEF PlanEnd, FilesAreQueued, TypeOK
  <2> QED
    BY <2>3, <2>4, <2>5, <2>6 DEF FilesAreQueued
<1>4. CASE Move
  <2>1. Head(todo) \in Intents
    BY <1>4, TodoHasHead DEF Move
  <2> QED
    BY <1>4, <2>1, ContentsAssumption
       DEF Move, FilesAreQueued, TypeOK, plannerVars, Versions
<1>5. CASE UNCHANGED <<plans, queued, pending, processed>>
  BY <1>5 DEF FilesAreQueued
<1> QED
  BY <1>1, <1>2, <1>3, <1>4, <1>5
     DEF Next, PlannerNext, SidecarStep, SidecarFault, vars, plannerVars,
         PlanCutOff, Wake, Scan, Capacity, AbortPass, Parse, ParseFails, Create,
         CreateFails, CreateReplyLost, MoveFails, Crash, Tick

\* The open file of the planner.
LEMMA WriterStep ==
    ASSUME TypeOK, FilesAreQueued, WriterHoldsTornFile, SidecarCarries,
           [Next]_vars
    PROVE  WriterHoldsTornFile'
<1>1. ASSUME NEW i \in Intents, PlanBegin(i) PROVE WriterHoldsTornFile'
  <2>1. plans[i] \in Nat /\ plans[i] + 1 \notin queued[i]
    BY <1>1 DEF TypeOK, FilesAreQueued, Versions
  <2> QED
    BY <1>1, <2>1 DEF PlanBegin, WriterHoldsTornFile, TypeOK
<1>2. CASE \E i \in Intents : PlanNotQueued(i)
  BY <1>2 DEF PlanNotQueued, WriterHoldsTornFile
<1>3. CASE PlanEnd \/ PlanCutOff
  BY <1>3 DEF PlanEnd, PlanCutOff, WriterHoldsTornFile
<1>4. CASE Move
  <2>1. Head(todo) \in Intents /\ pending[Head(todo)] # NoFile
    BY <1>4, TodoHasHead DEF Move, SidecarCarries
  <2> QED
    BY <1>4, <2>1 DEF Move, WriterHoldsTornFile, TypeOK, plannerVars
<1>5. CASE UNCHANGED <<plans, queued, pending, processed, writer, writerAt>>
  BY <1>5 DEF WriterHoldsTornFile
<1> QED
  BY <1>1, <1>2, <1>3, <1>4, <1>5
     DEF Next, PlannerNext, SidecarStep, SidecarFault, vars, plannerVars,
         Wake, Scan, Capacity, AbortPass, Parse, ParseFails, Create,
         CreateFails, CreateReplyLost, MoveFails, Crash, Tick

\* Only the sidecar moves pc, and only NextFile and Scan lead it to parse, so
\* the steps of the planner matter here for what they do to the file it holds.
LEMMA SidecarStepKeeps ==
    ASSUME TypeOK, FilesAreQueued, WriterHoldsTornFile, SidecarCarries,
           [Next]_vars
    PROVE  SidecarCarries'
<1>1. ASSUME NEW i \in Intents, PlanBegin(i) PROVE SidecarCarries'
  BY <1>1, TodoHasHead, ContentsAssumption
     DEF PlanBegin, SidecarCarries, sidecarVars, TypeOK, Versions
<1>2. CASE \E i \in Intents : PlanNotQueued(i)
  BY <1>2 DEF PlanNotQueued, SidecarCarries, sidecarVars
<1>3. CASE PlanEnd
  <2>1. CASE pc \in {"create", "move"}
    <3>1. writer \in Intents /\ Head(todo) \in Intents /\ held \in queued[Head(todo)]
      BY <1>3, <2>1, TodoHasHead DEF PlanEnd, TypeOK, SidecarCarries
    <3>2. held <= plans[Head(todo)]
      BY <3>1 DEF FilesAreQueued
    <3>3. held \in queued'[Head(todo)]
      BY <1>3, <3>1 DEF PlanEnd, TypeOK
    <3>4. pending'[Head(todo)] \in {pending[Head(todo)], plans[Head(todo)]}
      BY <1>3, <3>1 DEF PlanEnd, TypeOK
    <3>5. /\ pending'[Head(todo)] # NoFile
          /\ pending'[Head(todo)] \in Versions => held <= pending'[Head(todo)]
      BY <2>1, <3>1, <3>2, <3>4, ContentsAssumption DEF SidecarCarries, TypeOK
    <3>6. UNCHANGED <<pc, todo, held, tasks>>
      BY <1>3 DEF PlanEnd, sidecarVars
    <3> QED
      BY <3>3, <3>5, <3>6 DEF SidecarCarries
  <2>2. CASE pc \notin {"create", "move"}
    BY <1>3, <2>2 DEF PlanEnd, SidecarCarries, sidecarVars
  <2> QED
    BY <2>1, <2>2
<1>4. CASE PlanCutOff
  BY <1>4 DEF PlanCutOff, SidecarCarries, sidecarVars
<1>5. CASE Wake \/ Scan \/ AbortPass \/ Crash
  BY <1>5 DEF Wake, Scan, AbortPass, Crash, SidecarCarries
<1>6. CASE Capacity
  BY <1>6 DEF Capacity, SidecarCarries
<1>7. CASE Parse
  <2>1. Head(todo) \in Intents
    BY <1>7, TodoHasHead DEF Parse
  <2> QED
    BY <1>7, <2>1, ContentsAssumption
       DEF Parse, SidecarCarries, FilesAreQueued, plannerVars, Versions
<1>8. CASE ParseFails \/ CreateFails \/ CreateReplyLost \/ Move \/ MoveFails
  <2>1. pc' \in {"sleep", "parse"} /\ (pc' = "parse" => todo' # <<>>)
    BY <1>8, NextFileStep DEF ParseFails, CreateFails, CreateReplyLost, Move, MoveFails
  <2> QED
    BY <2>1 DEF SidecarCarries
<1>9. CASE Create
  <2>1. Head(todo) \in Intents /\ held \in Versions
    BY <1>9, TodoHasHead, HoldsVersion DEF Create
  <2>2. tasks'[Head(todo)][held] > 0
    BY <1>9, <2>1 DEF Create, Store, TypeOK
  <2> QED
    BY <1>9, <2>2 DEF Create, SidecarCarries, plannerVars
<1>10. CASE UNCHANGED vars \/ Tick
  BY <1>10 DEF vars, Tick, SidecarCarries, plannerVars, sidecarVars
<1> QED
  BY <1>1, <1>2, <1>3, <1>4, <1>5, <1>6, <1>7, <1>8, <1>9, <1>10
     DEF Next, PlannerNext, SidecarStep, SidecarFault

\* A version above every plan of an intent has no AgentTask yet.
LEMMA NoTaskAbovePlans ==
    ASSUME TypeOK, FilesAreQueued, TasksCarryWholePlans,
           NEW i \in Intents, NEW w \in Versions, tasks[i][w] > 0
    PROVE  w \in queued[i] /\ w <= plans[i]
BY DEF TypeOK, FilesAreQueued, TasksCarryWholePlans

\* AgentTasks are made of whole plans.
LEMMA WholePlansStep ==
    ASSUME TypeOK, SidecarCarries, TasksCarryWholePlans, [Next]_vars
    PROVE  TasksCarryWholePlans'
<1>1. CASE Create \/ CreateReplyLost
  <2>1. Head(todo) \in Intents /\ held \in Versions /\ held \in queued[Head(todo)]
    BY <1>1, TodoHasHead, HoldsVersion DEF Create, CreateReplyLost, SidecarCarries
  <2>2. Store(Head(todo)) /\ queued' = queued
    BY <1>1 DEF Create, CreateReplyLost, plannerVars
  <2>3. \A i \in Intents, v \in Versions :
           tasks'[i][v] # tasks[i][v] => i = Head(todo) /\ v = held
    BY <2>1, <2>2 DEF Store, TypeOK
  <2> QED
    BY <2>1, <2>2, <2>3 DEF TasksCarryWholePlans
<1>2. CASE PlanEnd
  BY <1>2 DEF PlanEnd, TasksCarryWholePlans, TypeOK
<1>3. CASE UNCHANGED <<queued, tasks>>
  BY <1>3 DEF TasksCarryWholePlans
<1> QED
  BY <1>1, <1>2, <1>3
     DEF Next, PlannerNext, SidecarStep, SidecarFault, vars, plannerVars,
         PlanBegin, PlanNotQueued, PlanCutOff, Wake, Scan, Capacity, AbortPass,
         Parse, ParseFails, CreateFails, Move, MoveFails, Crash, Tick

\* The effect of a task creation on the counts.
LEMMA StoreEffect ==
    ASSUME TypeOK, SidecarCarries, Create \/ CreateReplyLost
    PROVE  /\ Head(todo) \in Intents
           /\ held \in Versions
           /\ tasks'[Head(todo)][held] = tasks[Head(todo)][held] + 1
           /\ \A i \in Intents, v \in Versions :
                 i # Head(todo) \/ v # held => tasks'[i][v] = tasks[i][v]
<1>1. Head(todo) \in Intents /\ held \in Versions
  BY TodoHasHead, HoldsVersion DEF Create, CreateReplyLost
<1>2. Store(Head(todo))
  BY DEF Create, CreateReplyLost
<1> QED
  BY <1>1, <1>2 DEF Store, TypeOK

\* Every other step leaves the counts alone.
LEMMA TasksUnchanged ==
    ASSUME [Next]_vars, ~Create, ~CreateReplyLost
    PROVE  tasks' = tasks
BY DEF Next, PlannerNext, SidecarStep, SidecarFault, vars, PlanBegin,
       PlanNotQueued, PlanEnd, PlanCutOff, Wake, Scan, Capacity, AbortPass, Parse,
       ParseFails, CreateFails, Move, MoveFails, Crash, Tick

\* The fault count never falls, and a step that loses the sidecar's place after
\* a creation raises it.
LEMMA FaultsGrow ==
    ASSUME TypeOK, [Next]_vars
    PROVE  /\ faults' \in Nat /\ faults <= faults'
           /\ CreateReplyLost \/ MoveFails \/ Crash => faults' = faults + 1
BY DEF TypeOK, Next, PlannerNext, SidecarStep, SidecarFault, vars, Fault, PlanBegin,
       PlanNotQueued, PlanEnd, PlanCutOff, Wake, Scan, Capacity, AbortPass, Parse,
       ParseFails, Create, CreateFails, CreateReplyLost, Move, MoveFails, Crash, Tick

\* A plan is dispatched again only after a fault.
LEMMA DuplicatesStep ==
    ASSUME TypeOK, SidecarCarries, NextDispatchIsFresh, DuplicatesNeedFaults,
           [Next]_vars
    PROVE  DuplicatesNeedFaults'
<1>1. faults \in Nat /\ faults' \in Nat /\ faults <= faults'
  BY FaultsGrow DEF TypeOK
<1>2. CASE Create \/ CreateReplyLost
  <2>1. tasks[Head(todo)][held] <= faults
    BY <1>2 DEF Create, CreateReplyLost, NextDispatchIsFresh, Fresh
  <2> QED
    <3> SUFFICES ASSUME NEW i \in Intents, NEW v \in Versions
                 PROVE  tasks'[i][v] <= 1 + faults'
      BY DEF DuplicatesNeedFaults
    <3>1. tasks[i][v] \in Nat /\ tasks[i][v] <= 1 + faults
      BY DEF DuplicatesNeedFaults, TypeOK
    <3>2. CASE i = Head(todo) /\ v = held
      BY <1>1, <1>2, <2>1, <3>1, <3>2, StoreEffect
    <3>3. CASE i # Head(todo) \/ v # held
      BY <1>1, <1>2, <3>1, <3>3, StoreEffect
    <3> QED
      BY <3>2, <3>3
<1>3. CASE ~Create /\ ~CreateReplyLost
  BY <1>1, <1>3, TasksUnchanged DEF DuplicatesNeedFaults, TypeOK
<1> QED
  BY <1>2, <1>3

\* A file is moved only after a task was created from it.
LEMMA ProcessedStep ==
    ASSUME TypeOK, WriterHoldsTornFile, SidecarCarries, ProcessedIntentRan,
           [Next]_vars
    PROVE  ProcessedIntentRan'
<1>1. CASE Create \/ CreateReplyLost
  <2>1. processed' = processed
    BY <1>1 DEF Create, CreateReplyLost
  <2>2. ASSUME NEW i \in Intents, NEW v \in Versions, tasks[i][v] > 0
        PROVE  tasks'[i][v] > 0
    <3>1. tasks[i][v] \in Nat
      BY DEF TypeOK
    <3>2. CASE i = Head(todo) /\ v = held
      BY <1>1, <3>1, <3>2, StoreEffect
    <3>3. CASE i # Head(todo) \/ v # held
      BY <1>1, <2>2, <3>3, StoreEffect
    <3> QED
      BY <3>2, <3>3
  <2> QED
    BY <2>1, <2>2 DEF ProcessedIntentRan
<1>2. CASE Move
  <2>1. Head(todo) \in Intents /\ held \in Versions /\ tasks[Head(todo)][held] > 0
    BY <1>2, TodoHasHead, HoldsVersion DEF Move, SidecarCarries
  <2> QED
    BY <1>2, <2>1 DEF Move, ProcessedIntentRan, TypeOK
<1>3. CASE PlanEnd
  <2>1. tasks' = tasks /\ writer \in Intents
    BY <1>3 DEF PlanEnd, TypeOK
  <2>2. ASSUME NEW i \in Intents, processed'[i] # NoFile
        PROVE  processed[i] # NoFile
    <3>1. CASE i = writer /\ writerAt = "processed"
      BY <1>3, <3>1, ContentsAssumption DEF PlanEnd, WriterHoldsTornFile
    <3>2. CASE i # writer \/ writerAt = "pending"
      BY <1>3, <2>1, <2>2, <3>2 DEF PlanEnd, TypeOK
    <3> QED
      BY <3>1, <3>2 DEF TypeOK
  <2> QED
    BY <2>1, <2>2 DEF ProcessedIntentRan
<1>4. CASE UNCHANGED <<processed, tasks>>
  BY <1>4 DEF ProcessedIntentRan
<1> QED
  BY <1>1, <1>2, <1>3, <1>4
     DEF Next, PlannerNext, SidecarStep, SidecarFault, vars, PlanBegin,
         PlanNotQueued, PlanCutOff, Wake, Scan, Capacity, AbortPass, Parse,
         ParseFails, CreateFails, MoveFails, Crash, Tick

\* An intent planned once keeps its one file.
LEMMA OneFileStep ==
    ASSUME TypeOK, FilesAreQueued, WriterHoldsTornFile, SidecarCarries, OneFile,
           ProcessedIntentRan, TasksCarryWholePlans, [Next]_vars
    PROVE  OneFile'
<1> SUFFICES ASSUME NEW i \in Intents, plans'[i] = 1, 1 \in queued'[i]
             PROVE  \/ pending'[i] = 1 /\ processed'[i] = NoFile
                    \/ pending'[i] = NoFile /\ processed'[i] = 1
  BY DEF OneFile
<1>1. ASSUME NEW j \in Intents, PlanBegin(j) PROVE i # j /\ plans[i] = 1
  <2>1. CASE i = j
    BY <1>1, <2>1 DEF PlanBegin, FilesAreQueued, TypeOK, Versions
  <2> QED
    BY <1>1, <2>1 DEF PlanBegin, TypeOK
<1>2. ASSUME NEW j \in Intents, PlanNotQueued(j) PROVE i # j
  BY <1>2 DEF PlanNotQueued, FilesAreQueued, TypeOK, Versions
<1>3. CASE PlanEnd
  <2>1. CASE i = writer
    <3>1. plans[i] = 1 /\ 1 \notin queued[i]
      BY <1>3, <2>1 DEF PlanEnd, WriterHoldsTornFile
    <3>2. processed[i] = NoFile
      <4>1. \A w \in Versions : ~(tasks[i][w] > 0)
        <5>1. ASSUME NEW w \in Versions, tasks[i][w] > 0 PROVE FALSE
          <6>1. w \in queued[i] /\ w <= 1
            BY <3>1, <5>1, NoTaskAbovePlans
          <6> QED
            BY <3>1, <6>1 DEF Versions
        <5> QED
          BY <5>1
      <4> QED
        BY <4>1 DEF ProcessedIntentRan
    <3>3. writerAt = "pending"
      BY <1>3, <2>1, <3>2, ContentsAssumption DEF PlanEnd, WriterHoldsTornFile, TypeOK
    <3> QED
      BY <1>3, <2>1, <3>1, <3>2, <3>3 DEF PlanEnd, TypeOK
  <2>2. CASE i # writer
    <3>1. /\ plans[i] = 1 /\ 1 \in queued[i]
          /\ pending'[i] = pending[i] /\ processed'[i] = processed[i]
      BY <1>3, <2>2 DEF PlanEnd, TypeOK
    <3> QED
      BY <3>1 DEF OneFile
  <2> QED
    BY <2>1, <2>2
<1>4. CASE Move
  <2>1. Head(todo) \in Intents /\ pending[Head(todo)] # NoFile
    BY <1>4, TodoHasHead DEF Move, SidecarCarries
  <2>2. plans[i] = 1 /\ 1 \in queued[i]
    BY <1>4 DEF Move, plannerVars
  <2> QED
    BY <1>4, <2>1, <2>2 DEF Move, OneFile, TypeOK
<1>5. CASE UNCHANGED <<plans, queued, pending, processed>>
  BY <1>5 DEF OneFile
<1>6. ASSUME NEW j \in Intents, PlanBegin(j) \/ PlanNotQueued(j)
      PROVE  \/ pending'[i] = 1 /\ processed'[i] = NoFile
             \/ pending'[i] = NoFile /\ processed'[i] = 1
  <2>1. /\ plans[i] = 1 /\ 1 \in queued[i]
        /\ pending'[i] = pending[i] /\ processed'[i] = processed[i]
    BY <1>1, <1>2, <1>6 DEF PlanBegin, PlanNotQueued, TypeOK
  <2> QED
    BY <2>1 DEF OneFile
<1> QED
  BY <1>3, <1>4, <1>5, <1>6
     DEF Next, PlannerNext, SidecarStep, SidecarFault, vars, plannerVars,
         PlanCutOff, Wake, Scan, Capacity, AbortPass, Parse, ParseFails, Create,
         CreateFails, CreateReplyLost, MoveFails, Crash, Tick

\* Steps that create no task keep a fresh version fresh.
LEMMA FreshStays ==
    ASSUME TypeOK, [Next]_vars, tasks' = tasks,
           NEW i \in Intents, NEW v \in Versions, Fresh(i, v)
    PROVE  Fresh(i, v)'
<1>1. faults <= faults' /\ faults \in Nat /\ faults' \in Nat /\ tasks[i][v] \in Nat
  BY FaultsGrow DEF TypeOK
<1> QED
  BY <1>1 DEF Fresh

\* What is pending and not yet being moved may be dispatched next.
LEMMA PendingIsFresh ==
    ASSUME NextDispatchIsFresh, NEW i \in Intents, pending[i] \in Versions,
           pc # "move" \/ i # Head(todo)
    PROVE  Fresh(i, pending[i])
BY DEF NextDispatchIsFresh

\* No task of an intent is newer than its pending file.
LEMMA PendingIsNewest ==
    ASSUME NextDispatchIsFresh, NEW i \in Intents, pending[i] \in Versions,
           NEW w \in Versions, tasks[i][w] > 0
    PROVE  w <= pending[i]
BY DEF NextDispatchIsFresh, Fresh

\* The sidecar goes on dispatching fresh versions only.
LEMMA FreshStep ==
    ASSUME TypeOK, DispatchInvariant, TasksCarryWholePlans, DuplicatesNeedFaults,
           TypeOK', [Next]_vars
    PROVE  NextDispatchIsFresh'
<1> DEFINE Goal(i) == \/ Fresh(i, pending[i])'
                      \/ /\ pc' = "move" /\ i = Head(todo)'
                         /\ \A w \in Versions : tasks'[i][w] > 0 => w <= pending'[i]
<1> USE DEF DispatchInvariant
<1>1. ASSUME NEW i \in Intents, pending'[i] \in Versions PROVE Goal(i)
  <2>1. CASE PlanEnd /\ i = writer /\ writerAt = "pending"
    <3>1. /\ pending'[i] = plans[i] /\ plans[i] \in Versions /\ plans[i] \notin queued[i]
          /\ tasks' = tasks /\ faults' = faults
      BY <1>1, <2>1 DEF PlanEnd, WriterHoldsTornFile, TypeOK
    <3>2. \A w \in Versions : tasks[i][w] > 0 => w \in queued[i] /\ w <= plans[i]
      BY NoTaskAbovePlans
    <3>3. tasks[i][plans[i]] = 0 /\ faults \in Nat
      BY <3>1, <3>2 DEF TypeOK
    <3>4. Fresh(i, pending[i])'
      BY <3>1, <3>2, <3>3 DEF Fresh
    <3> QED
      BY <3>4
  <2>2. CASE Create
    <3>1. pc = "create" /\ pc' = "move" /\ UNCHANGED <<pending, todo, faults>>
      BY <2>2 DEF Create
    <3>2. Fresh(i, pending[i])
      BY <1>1, <3>1, PendingIsFresh
    <3>3. CASE i = Head(todo)
      <4>1. held <= pending[i]
        BY <1>1, <3>1, <3>3 DEF SidecarCarries
      <4>2. \A w \in Versions : tasks'[i][w] > 0 => w <= pending'[i]
        BY <2>2, <3>1, <3>2, <3>3, <4>1, StoreEffect DEF Fresh
      <4> QED
        BY <3>1, <3>3, <4>2
    <3>4. CASE i # Head(todo)
      <4>1. Fresh(i, pending[i])'
        BY <1>1, <2>2, <3>1, <3>2, <3>4, StoreEffect DEF Fresh
      <4> QED
        BY <4>1
    <3> QED
      BY <3>3, <3>4
  <2>3. CASE CreateReplyLost
    <3>1. pc = "create" /\ pending' = pending /\ faults' = faults + 1 /\ faults \in Nat
      BY <2>3 DEF CreateReplyLost, Fault, TypeOK
    <3>2. Fresh(i, pending[i]) /\ Fresh(Head(todo), held)
      BY <1>1, <3>1, PendingIsFresh DEF NextDispatchIsFresh
    <3>3. CASE i = Head(todo)
      <4>1. held <= pending[i]
        BY <1>1, <3>1, <3>3 DEF SidecarCarries
      <4>2. \A w \in Versions : tasks'[i][w] > 0 => w <= pending'[i]
        BY <2>3, <3>1, <3>2, <3>3, <4>1, StoreEffect DEF Fresh
      <4>3. tasks'[i][pending'[i]] <= faults'
        <5>1. tasks[i][held] \in Nat /\ tasks[i][pending[i]] \in Nat
          BY <1>1, <2>3, <3>1, StoreEffect DEF TypeOK
        <5> QED
          BY <1>1, <2>3, <3>1, <3>2, <3>3, <5>1, StoreEffect DEF Fresh
      <4>4. Fresh(i, pending[i])'
        BY <4>2, <4>3 DEF Fresh
      <4> QED
        BY <4>4
    <3>4. CASE i # Head(todo)
      <4>1. tasks[i][pending[i]] \in Nat
        BY <1>1, <3>1 DEF TypeOK
      <4>2. Fresh(i, pending[i])'
        BY <1>1, <2>3, <3>1, <3>2, <3>4, <4>1, StoreEffect DEF Fresh
      <4> QED
        BY <4>2
    <3> QED
      BY <3>3, <3>4
  <2>4. CASE MoveFails \/ Crash
    <3>1. UNCHANGED <<pending, tasks>> /\ faults' = faults + 1
      BY <2>4 DEF MoveFails, Crash, Fault
    <3>2. \A w \in Versions : tasks[i][w] > 0 => w <= pending[i]
      BY <1>1, <3>1, PendingIsNewest
    <3>3. tasks[i][pending[i]] <= 1 + faults /\ faults \in Nat
      BY <1>1, <3>1 DEF DuplicatesNeedFaults, TypeOK
    <3>4. Fresh(i, pending[i])'
      BY <3>1, <3>2, <3>3 DEF Fresh
    <3> QED
      BY <3>4
  <2>5. CASE Move
    <3>1. pc = "move" /\ Head(todo) \in Intents /\ tasks' = tasks
      BY <2>5, TodoHasHead DEF Move
    <3>2. i # Head(todo) /\ pending'[i] = pending[i]
      BY <1>1, <2>5, <3>1, ContentsAssumption DEF Move, TypeOK, Versions
    <3>3. Fresh(i, pending[i])
      BY <1>1, <3>2, PendingIsFresh
    <3>4. Fresh(i, pending[i])'
      BY <1>1, <3>1, <3>2, <3>3, FreshStays DEF Fresh
    <3> QED
      BY <3>4
  <2>6. CASE /\ tasks' = tasks /\ pending'[i] = pending[i]
             /\ UNCHANGED sidecarVars \/ pc # "move"
    <3>1. CASE Fresh(i, pending[i])
      <4>1. Fresh(i, pending[i])'
        BY <1>1, <2>6, <3>1, FreshStays DEF Fresh
      <4> QED
        BY <4>1
    <3>2. CASE ~Fresh(i, pending[i])
      BY <1>1, <2>6, <3>2 DEF NextDispatchIsFresh, sidecarVars
    <3> QED
      BY <3>1, <3>2
  <2>7. ASSUME NEW j \in Intents, PlanBegin(j)
        PROVE  /\ tasks' = tasks /\ pending'[i] = pending[i]
               /\ UNCHANGED sidecarVars
    BY <1>1, <2>7, ContentsAssumption DEF PlanBegin, TypeOK, Versions
  <2>8. CASE PlanEnd /\ ~(i = writer /\ writerAt = "pending")
    <3>1. tasks' = tasks /\ pending'[i] = pending[i] /\ UNCHANGED sidecarVars
      BY <2>8 DEF PlanEnd, TypeOK
    <3> QED
      BY <2>6, <3>1
  <2> QED
    BY <2>1, <2>2, <2>3, <2>4, <2>5, <2>6, <2>7, <2>8
       DEF Next, PlannerNext, SidecarStep, SidecarFault, vars, sidecarVars,
           PlanNotQueued, PlanCutOff, Wake, Scan, Capacity, AbortPass, Parse,
           ParseFails, CreateFails, Tick
<1>2. ASSUME pc' = "create" PROVE Fresh(Head(todo), held)'
  <2>1. CASE Parse
    <3>1. /\ pc = "parse" /\ pending[Head(todo)] \in Versions
          /\ held' = pending[Head(todo)] /\ UNCHANGED <<todo, tasks>>
      BY <2>1 DEF Parse
    <3>2. Head(todo) \in Intents
      BY <3>1, TodoHasHead
    <3>3. Fresh(Head(todo), pending[Head(todo)])
      BY <3>1, <3>2, PendingIsFresh
    <3> QED
      BY <3>1, <3>2, <3>3, FreshStays DEF Fresh
  <2>2. CASE ~Parse
    <3>1. UNCHANGED sidecarVars /\ tasks' = tasks
      BY <1>2, <2>2
         DEF Next, PlannerNext, SidecarStep, SidecarFault, vars, sidecarVars,
             PlanBegin, PlanNotQueued, PlanEnd, PlanCutOff, Wake, Scan, Capacity,
             AbortPass, NextFile, ParseFails, Create, CreateFails,
             CreateReplyLost, Move, MoveFails, Crash, Tick
    <3>2. Head(todo) \in Intents /\ held \in Versions /\ Fresh(Head(todo), held)
      BY <1>2, <3>1, TodoHasHead, HoldsVersion DEF sidecarVars, NextDispatchIsFresh
    <3> QED
      BY <3>1, <3>2, FreshStays DEF Fresh, sidecarVars
  <2> QED
    BY <2>1, <2>2
<1> QED
  BY <1>1, <1>2 DEF NextDispatchIsFresh

\* The invariant is kept by every step.
LEMMA NextInv == Inv /\ [Next]_vars => Inv'
<1> SUFFICES ASSUME Inv, [Next]_vars PROVE Inv'
  OBVIOUS
<1> USE DEF Inv, DispatchInvariant
<1>1. TypeOK'
  BY NextType
<1>2. FilesAreQueued' /\ WriterHoldsTornFile' /\ SidecarCarries' /\ OneFile'
  BY FilesStep, WriterStep, SidecarStepKeeps, OneFileStep
<1>3. ProcessedIntentRan' /\ TasksCarryWholePlans' /\ DuplicatesNeedFaults'
  BY ProcessedStep, WholePlansStep, DuplicatesStep
<1>4. NextDispatchIsFresh'
  BY <1>1, FreshStep
<1> QED
  BY <1>1, <1>2, <1>3, <1>4

\* The inductive invariant holds in every behaviour.
LEMMA InvariantHolds == Spec => []Inv
BY InitInv, NextInv, PTL DEF Spec

--------------------------------------------------------------------------------
(* The theorems.                                                            *)

\* Every variable keeps its type.
THEOREM TypeCorrect == Spec => []TypeOK
<1>1. Inv => TypeOK
  BY DEF Inv
<1> QED
  BY <1>1, InvariantHolds, PTL

\* The strengthening itself: what the sidecar carries between its steps agrees
\* with the volume, and what it may dispatch next is fresh.
THEOREM DispatchInvariantHolds == Spec => []DispatchInvariant
<1>1. Inv => DispatchInvariant
  BY DEF Inv
<1> QED
  BY <1>1, InvariantHolds, PTL

\* A plan is dispatched at most once more than there were faults.
THEOREM DuplicatesNeedFaultsHolds == Spec => []DuplicatesNeedFaults
<1>1. Inv => DuplicatesNeedFaults
  BY DEF Inv
<1> QED
  BY <1>1, InvariantHolds, PTL

\* AgentTasks are created from completely written plans only.
THEOREM TasksCarryWholePlansHolds == Spec => []TasksCarryWholePlans
<1>1. Inv => TasksCarryWholePlans
  BY DEF Inv
<1> QED
  BY <1>1, InvariantHolds, PTL

\* A processed file belongs to an intent that has an AgentTask.
THEOREM ProcessedIntentRanHolds == Spec => []ProcessedIntentRan
<1>1. Inv => ProcessedIntentRan
  BY DEF Inv
<1> QED
  BY <1>1, InvariantHolds, PTL

\* An intent planned once is in exactly one directory, and processed only after
\* its plan became an AgentTask.
THEOREM PlannedOnceIsKeptHolds == Spec => []PlannedOnceIsKept
<1>1. Inv => PlannedOnceIsKept
  <2> SUFFICES ASSUME Inv, NEW i \in Intents, plans[i] = 1
               PROVE  /\ 1 \in queued[i] => (pending[i] = 1 <=> processed[i] # 1)
                      /\ processed[i] # NoFile => tasks[i][1] > 0
    BY DEF PlannedOnceIsKept
  <2>1. 1 \in queued[i] => (pending[i] = 1 <=> processed[i] # 1)
    BY ContentsAssumption DEF Inv, DispatchInvariant, OneFile
  <2>2. ASSUME processed[i] # NoFile PROVE tasks[i][1] > 0
    <3>1. PICK v \in Versions : tasks[i][v] > 0
      BY <2>2 DEF Inv, ProcessedIntentRan
    <3>2. v <= 1
      BY <3>1, NoTaskAbovePlans DEF Inv, DispatchInvariant
    <3> QED
      BY <3>1, <3>2 DEF Versions
  <2> QED
    BY <2>1, <2>2
<1> QED
  BY <1>1, InvariantHolds, PTL

\* No step dispatches a plan older than one that was dispatched.
THEOREM NeverDispatchOlderHolds == Spec => NeverDispatchOlder
<1>1. ASSUME Inv, [Next]_vars
      PROVE  [\A i \in Intents, v, w \in Versions :
                tasks'[i][v] > tasks[i][v] /\ w > v => tasks[i][w] = 0]_vars
  <2> SUFFICES ASSUME NEW i \in Intents, NEW v \in Versions, NEW w \in Versions,
                      tasks'[i][v] > tasks[i][v], w > v
               PROVE  tasks[i][w] = 0
    OBVIOUS
  <2>1. tasks[i][v] \in Nat /\ tasks[i][w] \in Nat
    BY <1>1 DEF Inv, TypeOK
  <2>2. Create \/ CreateReplyLost
    BY <1>1, <2>1, TasksUnchanged
  <2>3. i = Head(todo) /\ v = held
    BY <1>1, <2>1, <2>2, StoreEffect DEF Inv, DispatchInvariant
  <2>4. Fresh(i, v)
    BY <1>1, <2>2, <2>3
       DEF Create, CreateReplyLost, Inv, DispatchInvariant, NextDispatchIsFresh
  <2> QED
    BY <2>1, <2>4 DEF Fresh, Versions
<1> QED
  BY <1>1, InvariantHolds, PTL DEF Spec, NeverDispatchOlder

--------------------------------------------------------------------------------
(* The refinement: when intents are planned once, every step of the bridge is *)
(* a step of AtLeastOnceDispatch or changes nothing that it promises about.  *)

\* With one plan per intent the only version is the first.
LEMMA OneVersion ==
    ASSUME MaxPlans = 1, TypeOK
    PROVE  /\ Versions = {1}
           /\ \A i \in Intents : plans[i] \in {0, 1}
BY DEF Versions, TypeOK

\* A queued plan is made, so its file is where OneFile says.
LEMMA QueuedHasOneFile ==
    ASSUME MaxPlans = 1, Inv, NEW i \in Intents, 1 \in queued[i]
    PROVE  \/ pending[i] = 1 /\ processed[i] = NoFile
           \/ pending[i] = NoFile /\ processed[i] = 1
<1>1. plans[i] = 1
  BY OneVersion DEF Inv, DispatchInvariant, FilesAreQueued
<1> QED
  BY <1>1 DEF Inv, DispatchInvariant, OneFile

\* A processed file was queued.
LEMMA ProcessedWasQueued ==
    ASSUME MaxPlans = 1, Inv, NEW i \in Intents, processed[i] # NoFile
    PROVE  1 \in queued[i]
<1>1. PICK v \in Versions : tasks[i][v] > 0
  BY DEF Inv, ProcessedIntentRan
<1> QED
  BY <1>1, OneVersion DEF Inv, TasksCarryWholePlans

\* The initial states agree.
LEMMA InitKeepsPromise ==
    ASSUME MaxPlans = 1, Init
    PROVE  Promise!Init
BY DEF Init, Promise!Init, QueuedOnce, Versions

\* Every step of the bridge is allowed by the promise.
LEMMA StepKeepsPromise ==
    ASSUME MaxPlans = 1, Inv, [Next]_vars
    PROVE  [Promise!Next]_(Promise!promised)
<1> DEFINE W == {i \in QueuedOnce : processed[i] = NoFile}
           R == {i \in QueuedOnce : processed[i] # NoFile}
           runs == [i \in Intents |-> tasks[i][1]]
<1>1. TypeOK /\ Versions = {1} /\ \A i \in Intents : plans[i] \in {0, 1}
  BY OneVersion DEF Inv
<1>2. CASE PlanEnd
  <2> PICK i \in Intents : i = writer
    BY <1>1, <1>2 DEF PlanEnd, TypeOK
  <2>1. plans[i] = 1 /\ 1 \notin queued[i]
    BY <1>1, <1>2 DEF PlanEnd, TypeOK, Inv, DispatchInvariant, WriterHoldsTornFile
  <2>2. processed[i] = NoFile
    BY <2>1, ProcessedWasQueued
  <2>3. writerAt = "pending"
    BY <1>1, <1>2, <2>2, ContentsAssumption
       DEF PlanEnd, TypeOK, Inv, DispatchInvariant, WriterHoldsTornFile
  <2>4. /\ queued' = [queued EXCEPT ![i] = @ \cup {1}]
        /\ UNCHANGED <<processed, tasks>>
    BY <1>2, <2>1, <2>3 DEF PlanEnd
  <2>5. QueuedOnce' = QueuedOnce \cup {i} /\ i \notin QueuedOnce
    BY <1>1, <2>1, <2>4 DEF QueuedOnce, TypeOK
  <2>6. W' = W \cup {i} /\ R' = R /\ runs' = runs /\ i \notin W \cup R
    BY <2>2, <2>4, <2>5
  <2>7. Promise!Submit(i)
    BY <2>6 DEF Promise!Submit
  <2> QED
    BY <2>1, <2>7 DEF Promise!Next
<1>3. CASE Create \/ CreateReplyLost
  <2> PICK i \in Intents : i = Head(todo)
    BY <1>1, <1>3, StoreEffect DEF Inv, DispatchInvariant
  <2>1. /\ held \in Versions /\ tasks'[i][held] = tasks[i][held] + 1
        /\ \A j \in Intents, v \in Versions :
              j # i \/ v # held => tasks'[j][v] = tasks[j][v]
    BY <1>3, StoreEffect DEF Inv, DispatchInvariant
  <2>2. held = 1 /\ 1 \in queued[i] /\ pending[i] # NoFile
    BY <1>1, <1>3, <2>1
       DEF Create, CreateReplyLost, Inv, DispatchInvariant, SidecarCarries
  <2>3. i \in W /\ i \in Intents \ Rejected
    BY <1>3, <2>1, <2>2, QueuedHasOneFile
       DEF QueuedOnce, Create, CreateReplyLost, Accepts
  <2>4. W' = W /\ R' = R
    BY <1>3 DEF Create, CreateReplyLost, plannerVars, QueuedOnce
  <2>5. runs' = [runs EXCEPT ![i] = @ + 1]
    BY <1>1, <2>1, <2>2
  <2>6. Promise!Run(i)
    BY <2>3, <2>4, <2>5 DEF Promise!Run
  <2> QED
    BY <2>1, <2>6 DEF Promise!Next
<1>4. CASE Move
  <2> PICK i \in Intents : i = Head(todo)
    BY <1>1, <1>4, TodoHasHead DEF Move, Inv, DispatchInvariant
  <2>1. held \in Versions
    BY <1>1, <1>4, HoldsVersion DEF Move, Inv, DispatchInvariant
  <2>2. /\ held = 1 /\ 1 \in queued[i] /\ pending[i] # NoFile
        /\ tasks[i][1] > 0
    BY <1>1, <1>4, <2>1 DEF Move, Inv, DispatchInvariant, SidecarCarries
  <2>3. pending[i] = 1 /\ processed[i] = NoFile
    BY <2>1, <2>2, QueuedHasOneFile
  <2>4. /\ processed' = [processed EXCEPT ![i] = 1]
        /\ UNCHANGED <<queued, tasks>>
    BY <1>4, <2>3 DEF Move, plannerVars
  <2>5. i \in W /\ W' = W \ {i} /\ R' = R \cup {i} /\ runs' = runs
    BY <1>1, <2>1, <2>2, <2>3, <2>4, ContentsAssumption DEF QueuedOnce, TypeOK
  <2>6. Promise!Retire(i)
    BY <2>1, <2>2, <2>5 DEF Promise!Retire
  <2> QED
    BY <2>1, <2>6 DEF Promise!Next
<1>5. CASE UNCHANGED <<queued, processed, tasks>>
  BY <1>5 DEF Promise!promised, QueuedOnce
<1> QED
  BY <1>2, <1>3, <1>4, <1>5
     DEF Next, PlannerNext, SidecarStep, SidecarFault, vars, plannerVars, PlanBegin,
         PlanNotQueued, PlanCutOff, Wake, Scan, Capacity, AbortPass, Parse,
         ParseFails, CreateFails, MoveFails, Crash, Tick

\* For every set of intents and every bound on faults, the bridge implements
\* the safety part of its promise when no intent is planned twice.
THEOREM BridgeImplementsPromise ==
    ASSUME MaxPlans = 1
    PROVE  Spec => Promise!Spec
<1>1. Init => Promise!Init
  BY InitKeepsPromise
<1>2. Inv /\ [Next]_vars => [Promise!Next]_(Promise!promised)
  BY StepKeepsPromise
<1> QED
  BY <1>1, <1>2, InvariantHolds, PTL DEF Spec, Promise!Spec
================================================================================
