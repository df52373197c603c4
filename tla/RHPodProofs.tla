------------------------------- MODULE RHPodProofs -------------------------------
(***************************************************************************)
(* Proofs about RHPod, for every volume size, number of plans and bounds:  *)
(* types, and that a plan answered is lost only for the causes named by    *)
(* LossHasACause.  What makes that inductive is the count of the files:    *)
(* an eviction shows how many handshakes its pod has taken.                *)
(***************************************************************************)
EXTENDS RHPod, FiniteSetTheorems, TLAPS

\* A pod that begins has written nothing, and the counts of the others stay.
LEMMA AppendedZero ==
    ASSUME NEW s \in Seq(Nat)
    PROVE  /\ Append(s, 0) \in Seq(Nat) /\ Len(Append(s, 0)) = Len(s) + 1
           /\ Append(s, 0)[Len(s) + 1] = 0
           /\ \A n \in 1 .. Len(s) : Append(s, 0)[n] = s[n]
OBVIOUS

\* What one more, or one less, does to the size of a finite set.
LEMMA SizeWithOne ==
    ASSUME NEW S, IsFiniteSet(S), NEW x
    PROVE  /\ Cardinality(S \cup {x}) \in Nat /\ Cardinality(S \ {x}) \in Nat
           /\ Cardinality(S \cup {x}) <= Cardinality(S) + 1
           /\ x \in S => Cardinality(S \ {x}) = Cardinality(S) - 1
<1>1. /\ IsFiniteSet(S \cup {x}) /\ IsFiniteSet(S \ {x}) /\ Cardinality(S) \in Nat
      /\ Cardinality(S \cup {x}) = Cardinality(S) \/ Cardinality(S \cup {x}) = Cardinality(S) + 1
      /\ x \in S => Cardinality(S \ {x}) = Cardinality(S) - 1
  BY FS_AddElement, FS_RemoveElement, FS_CardinalityType
<1> QED BY <1>1, FS_CardinalityType

\* The variables have their types at the start.
LEMMA TypeInit == Init => TypeOK
BY RHPodAssumption DEF Init, TypeOK

\* The steps of Next, for the proofs below.
LEMMA TypeNext == TypeOK /\ [Next]_vars => TypeOK'
<1> SUFFICES ASSUME TypeOK, [Next]_vars PROVE TypeOK'
  OBVIOUS
<1> USE RHPodAssumption DEF TypeOK
<1>1. ASSUME NEW p \in Plans, Write(p) PROVE TypeOK'
  <2>1. writes' \in Seq(Nat) /\ Len(writes') = Len(writes)
    BY <1>1 DEF Write
  <2> QED BY <1>1, <2>1 DEF Write, NoTrouble
<1>2. ASSUME NEW p \in Plans, WriteFails(p) PROVE TypeOK'
  BY <1>2 DEF WriteFails, Failure, volume, history
<1>3. ASSUME NEW p \in Plans, Answer(p) PROVE TypeOK'
  BY <1>3 DEF Answer, NoTrouble, volume, history
<1>4. ASSUME NEW p \in Plans, Dispatch(p) PROVE TypeOK'
  BY <1>4 DEF Dispatch, NoTrouble, history
<1>5. CASE PlannerEnds
  BY <1>5 DEF PlannerEnds, Unanswered, Stall, volume, history
<1>6. CASE ConfigLoads \/ CallReturns \/ RestartSidecar
  BY <1>6 DEF ConfigLoads, CallReturns, RestartSidecar, NoTrouble, volume, history
<1>7. CASE ConfigFails \/ CallHangs \/ SidecarEnds
  BY <1>7 DEF ConfigFails, CallHangs, SidecarEnds, Stall, volume, history
<1>8. CASE PodReplaced \/ PodEvicted
  <2>1. writes' \in Seq(Nat) /\ Len(writes') = Len(writes) + 1
    <3>1. writes' = Append(writes, 0)
      BY <1>8 DEF PodReplaced, PodEvicted, NewPod
    <3>2. writes \in Seq(Nat)
      OBVIOUS
    <3> HIDE DEF TypeOK
    <3> QED BY <3>1, <3>2, AppendedZero
  <2>2. born' \in [Plans -> 0 .. Len(writes')]
    BY <1>8, <2>1 DEF PodReplaced, PodEvicted, NewPod
  <2> QED
    BY <1>8, <2>1, <2>2 DEF PodReplaced, PodEvicted, NewPod, Unanswered, Failure, NoTrouble
<1>9. CASE UNCHANGED vars
  BY <1>9 DEF vars
<1> QED
  BY <1>1, <1>2, <1>3, <1>4, <1>5, <1>6, <1>7, <1>8, <1>9 DEF Next

\* Every variable of the pod's model keeps its type.
THEOREM TypeCorrect == Spec => []TypeOK
<1> QED BY TypeInit, TypeNext, PTL DEF Spec

--------------------------------------------------------------------------------
(* The inductive invariant.                                                  *)

\* No more files than this pod has taken handshakes.
FilesWereWritten == Files <= writes[Len(writes)]

\* What waits was written in this pod.
WaitingIsYoung == \A p \in pending : born[p] = Len(writes)

\* LossHasACause, for requests that are about to be answered too.
LossIsExplained ==
    \A p \in Plans : request[p] # "none" /\ p \notin pending \cup dispatched =>
        failures > 0 \/ (born[p] > 0 /\ writes[born[p]] > Room)

LossInvariant == TypeOK /\ FilesWereWritten /\ WaitingIsYoung /\ LossIsExplained

\* The sets of files are finite and their sizes numbers.
LEMMA FilesAreCounted ==
    ASSUME TypeOK
    PROVE  /\ IsFiniteSet(pending) /\ IsFiniteSet(processed)
           /\ Cardinality(pending) \in Nat /\ Cardinality(processed) \in Nat
BY RHPodAssumption, FS_Subset, FS_CardinalityType DEF TypeOK

\* Nothing is written, and nothing lost, at the start.
LEMMA LossInit == Init => LossInvariant
<1> SUFFICES ASSUME Init PROVE LossInvariant
  OBVIOUS
<1>1. FilesWereWritten
  BY FS_EmptySet DEF Init, FilesWereWritten, Files
<1> QED BY <1>1, TypeInit DEF Init, LossInvariant, WaitingIsYoung, LossIsExplained

\* A write makes at most one file more, and is counted.
LEMMA WriteKeeps ==
    ASSUME LossInvariant, NEW p \in Plans, Write(p)
    PROVE  (FilesWereWritten /\ WaitingIsYoung /\ LossIsExplained)'
<1> USE RHPodAssumption DEF LossInvariant, TypeOK
<1>1. Len(writes') = Len(writes) /\ writes'[Len(writes)] = writes[Len(writes)] + 1
  BY DEF Write
<1>2. Cardinality(pending') <= Cardinality(pending) + 1 /\ Cardinality(pending') \in Nat
  <2>1. pending' = pending \cup {p}
    BY DEF Write
  <2> HIDE DEF TypeOK
  <2> QED BY <2>1, FilesAreCounted, SizeWithOne
<1>3. FilesWereWritten'
  <2>1. writes[Len(writes)] \in Nat
    OBVIOUS
  <2> QED BY <1>1, <1>2, <2>1, FilesAreCounted DEF FilesWereWritten, Files, Write
<1>4. WaitingIsYoung'
  BY <1>1 DEF WaitingIsYoung, Write
<1>5. LossIsExplained'
  <2> SUFFICES ASSUME NEW q \in Plans, request'[q] # "none", q \notin pending' \cup dispatched'
               PROVE  failures' > 0 \/ (born'[q] > 0 /\ writes'[born'[q]] > Room)
    BY DEF LossIsExplained
  <2>1. q # p /\ request[q] # "none" /\ q \notin pending \cup dispatched
    BY DEF Write
  <2>2. born'[q] = born[q] /\ failures' = failures
    BY <2>1 DEF Write, NoTrouble
  <2>3. born[q] > 0 => writes'[born[q]] >= writes[born[q]]
    BY DEF Write
  <2>4. failures > 0 \/ (born[q] > 0 /\ writes[born[q]] > Room)
    BY <2>1 DEF LossIsExplained
  <2>5. CASE failures > 0
    BY <2>2, <2>5
  <2>6. CASE born[q] > 0 /\ writes[born[q]] > Room
    <3>1. born[q] \in 1 .. Len(writes) /\ writes[born[q]] \in Nat /\ writes'[born[q]] \in Nat
      BY <2>6 DEF Write
    <3>2. writes'[born[q]] > Room
      BY <2>3, <2>6, <3>1
    <3> QED BY <2>2, <2>6, <3>2
  <2> QED BY <2>4, <2>5, <2>6
<1> QED BY <1>3, <1>4, <1>5

\* A dispatch moves a file.
LEMMA DispatchKeeps ==
    ASSUME LossInvariant, NEW p \in Plans, Dispatch(p)
    PROVE  (FilesWereWritten /\ WaitingIsYoung /\ LossIsExplained)'
<1> USE RHPodAssumption DEF LossInvariant, TypeOK
<1>1. Cardinality(pending') = Cardinality(pending) - 1
  <2>1. p \in pending /\ pending' = pending \ {p}
    BY DEF Dispatch
  <2> HIDE DEF TypeOK
  <2> QED BY <2>1, FilesAreCounted, SizeWithOne
<1>2. /\ Cardinality(processed') <= Cardinality(processed) + 1
      /\ Cardinality(processed') \in Nat
  <2>1. processed' = processed \cup {p}
    BY DEF Dispatch
  <2> HIDE DEF TypeOK
  <2> QED BY <2>1, FilesAreCounted, SizeWithOne
<1>3. writes[Len(writes)] \in Nat
  OBVIOUS
<1>4. FilesWereWritten'
  BY <1>1, <1>2, <1>3, FilesAreCounted DEF FilesWereWritten, Files, Dispatch, history
<1>5. WaitingIsYoung'
  BY DEF WaitingIsYoung, Dispatch, history
<1>6. LossIsExplained'
  BY DEF LossIsExplained, Dispatch, history, NoTrouble
<1> QED BY <1>4, <1>5, <1>6

\* A new pod has no files.  An evicted one had more than fit, which it has taken.
LEMMA NewPodKeeps ==
    ASSUME LossInvariant, PodReplaced \/ PodEvicted
    PROVE  (FilesWereWritten /\ WaitingIsYoung /\ LossIsExplained)'
<1> USE RHPodAssumption DEF LossInvariant, TypeOK
<1> USE DEF PodReplaced, PodEvicted, NewPod
<1>1. /\ Len(writes') = Len(writes) + 1 /\ writes'[Len(writes')] = 0
      /\ \A n \in 1 .. Len(writes) : writes'[n] = writes[n]
  <2>1. writes' = Append(writes, 0) /\ writes \in Seq(Nat)
    OBVIOUS
  <2> HIDE DEF TypeOK
  <2> QED BY <2>1, AppendedZero
<1>2. FilesWereWritten'
  <2>1. pending' = {} /\ processed' = {}
    OBVIOUS
  <2> HIDE DEF TypeOK, PodReplaced, PodEvicted, NewPod
  <2> QED BY <1>1, <2>1, FS_EmptySet DEF FilesWereWritten, Files
<1>3. WaitingIsYoung'
  BY DEF WaitingIsYoung
<1>4. CASE PodReplaced
  <2>1. failures' > 0
    BY <1>4 DEF Failure
  <2> QED BY <1>2, <1>3, <2>1 DEF LossIsExplained
<1>5. CASE PodEvicted
  <2>1. writes[Len(writes)] > Room
    <3>1. writes[Len(writes)] \in Nat
      OBVIOUS
    <3> QED BY <1>5, <3>1, FilesAreCounted DEF TooFull, FilesWereWritten, Files
  <2> SUFFICES ASSUME NEW q \in Plans, request'[q] # "none", q \notin dispatched', failures = 0
               PROVE  born'[q] > 0 /\ writes'[born'[q]] > Room
    BY <1>2, <1>3, <1>5 DEF LossIsExplained, NoTrouble
  <2>2. request[q] # "none" /\ q \notin dispatched /\ born'[q] = born[q]
    BY <1>5 DEF Unanswered
  <2>3. CASE q \in pending
    BY <1>1, <2>1, <2>2, <2>3 DEF WaitingIsYoung
  <2>4. CASE q \notin pending
    <3>1. born[q] > 0 /\ writes[born[q]] > Room
      BY <2>2, <2>4 DEF LossIsExplained
    <3> QED BY <1>1, <2>2, <3>1
  <2> QED BY <2>3, <2>4
<1> QED BY <1>4, <1>5

\* Every step keeps the invariant.
LEMMA LossNext == LossInvariant /\ [Next]_vars => LossInvariant'
<1> SUFFICES ASSUME LossInvariant, [Next]_vars
             PROVE  (FilesWereWritten /\ WaitingIsYoung /\ LossIsExplained)'
  BY TypeNext DEF LossInvariant
<1> USE DEF LossInvariant, FilesWereWritten, Files, WaitingIsYoung, LossIsExplained
<1>1. ASSUME NEW p \in Plans, Write(p)
      PROVE  (FilesWereWritten /\ WaitingIsYoung /\ LossIsExplained)'
  BY <1>1, WriteKeeps
<1>2. ASSUME NEW p \in Plans, WriteFails(p)
      PROVE  (FilesWereWritten /\ WaitingIsYoung /\ LossIsExplained)'
  <2>1. failures' > 0
    BY <1>2 DEF TypeOK, WriteFails, Failure
  <2> QED BY <1>2, <2>1 DEF WriteFails, volume, history
<1>3. ASSUME NEW p \in Plans, Answer(p)
      PROVE  (FilesWereWritten /\ WaitingIsYoung /\ LossIsExplained)'
  BY <1>3 DEF TypeOK, Answer, NoTrouble, volume, history
<1>4. ASSUME NEW p \in Plans, Dispatch(p)
      PROVE  (FilesWereWritten /\ WaitingIsYoung /\ LossIsExplained)'
  BY <1>4, DispatchKeeps
<1>5. CASE PlannerEnds
  BY <1>5 DEF TypeOK, PlannerEnds, Unanswered, Stall, volume, history
<1>6. CASE ConfigLoads \/ CallReturns \/ RestartSidecar
  BY <1>6 DEF ConfigLoads, CallReturns, RestartSidecar, NoTrouble, volume, history
<1>7. CASE ConfigFails \/ CallHangs \/ SidecarEnds
  BY <1>7 DEF ConfigFails, CallHangs, SidecarEnds, Stall, volume, history
<1>8. CASE PodReplaced \/ PodEvicted
  BY <1>8, NewPodKeeps
<1>9. CASE UNCHANGED vars
  BY <1>9 DEF vars
<1> QED
  BY <1>1, <1>2, <1>3, <1>4, <1>5, <1>6, <1>7, <1>8, <1>9 DEF Next

\* The inductive invariant of the pod: its files were written in it, what waits is of
\* this pod, and every loss is explained.
THEOREM LossInvariantHolds == Spec => []LossInvariant
<1> QED BY LossInit, LossNext, PTL DEF Spec

\* For every room, number of plans and failures: a plan that was answered is lost only
\* by a failed write, a replaced pod, or in a pod that took more than its volume holds.
THEOREM LossHasACauseHolds == Spec => []LossHasACause
<1>1. LossInvariant => LossHasACause
  BY DEF LossInvariant, LossIsExplained, LossHasACause, Lost
<1> QED BY <1>1, LossInvariantHolds, PTL
================================================================================
