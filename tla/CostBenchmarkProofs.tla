--------------------------- MODULE CostBenchmarkProofs ---------------------------
(***************************************************************************)
(* Proofs about CostBenchmark, for every generator, any profiles, and any  *)
(* number of days; and the lemmas about sums, minima and flattened         *)
(* sequences that they need.                                               *)
(***************************************************************************)
EXTENDS CostBenchmark, FiniteSetTheorems, SequenceTheorems, WellFoundedInduction, TLAPS

Prices == PlannerModels \cup {Flash}

\* The five numbers that a price can be, each way.
LEMMA PricesAre ==
    ASSUME NEW price \in Prices
    PROVE  /\ price.input \in {500, 125, 200, 55, 100, 15}
           /\ price.output \in {2500, 1000, 800, 219, 500, 60}
BY DEF Prices, PlannerModels, Flash, Opus, Price

\* A cost is a number, grows with the tokens, and is not higher than with Opus.
LEMMA CostIsMonotone ==
    ASSUME NEW price \in Prices, NEW i \in Nat, NEW o \in Nat, NEW j \in Nat, NEW u \in Nat,
           i <= j, o <= u
    PROVE  /\ Cost(price, i, o) \in Nat
           /\ Cost(price, i, o) <= Cost(price, j, u)
           /\ Cost(price, i, o) <= Cost(Opus, j, u)
<1> DEFINE a == price.input
           b == price.output
<1>1. a \in {500, 125, 200, 55, 100, 15} /\ b \in {2500, 1000, 800, 219, 500, 60}
  BY PricesAre
<1>2. i * a \in Nat /\ i * a <= j * a /\ i * a <= j * 500
  BY <1>1
<1>3. o * b \in Nat /\ o * b <= u * b /\ o * b <= u * 2500
  BY <1>1
<1>4. j * a \in Nat /\ u * b \in Nat /\ j * 500 \in Nat /\ u * 2500 \in Nat
  BY <1>1
<1>5. /\ Cost(price, i, o) = i * a + o * b
      /\ Cost(price, j, u) = j * a + u * b
      /\ Cost(Opus, j, u) = j * 500 + u * 2500
  BY DEF Cost, Opus, Price
<1> HIDE DEF a, b
<1> QED BY <1>2, <1>3, <1>4, <1>5

\* Dividing by a count never makes more.
LEMMA DivisionIsLess ==
    ASSUME NEW a \in Nat, NEW n \in Nat, n > 0
    PROVE  a \div n \in Nat /\ a \div n <= a
<1>1. a \div n \in Int /\ a % n \in 0 .. n - 1 /\ a = n * (a \div n) + (a % n)
  BY SMT
<1> QED BY <1>1, SMT

\* Compression never makes more.
LEMMA CompressionIsLess ==
    ASSUME NEW a \in Nat
    PROVE  Compressed(a) \in Nat /\ Compressed(a) <= a
BY SMT DEF Compressed

--------------------------------------------------------------------------------
(* Sums, and the least of several numbers.                                   *)

\* The lemmas about sums are those of CostTrackerProofs.  They name none of its parameters:
\* a tracker that nobody uses stands for them.
Sums == INSTANCE CostTrackerProofs WITH
    Intents <- {}, Models <- {}, Usages <- {}, Infra <- {}, PodRate <- 0, Timers <- {},
    MaxPhases <- 0, MaxSecond <- 0, MaxRestarts <- 0, MaxFaults <- 0,
    records <- <<>>, open <- <<>>, second <- 0, files <- <<>>, spent <- <<>>, charged <- <<>>,
    touched <- {}, phases <- 0, restarts <- 0, faults <- 0

\* The instance brings its own names of the operators on sets and functions.
LEMMA SameOperators ==
    /\ \A S : Sums!IsFiniteSet(S) <=> IsFiniteSet(S)
    /\ \A S : Sums!Cardinality(S) = Cardinality(S)
    /\ \A f : Sums!SumFunction(f) = SumFunction(f)
<1>1. ASSUME NEW S PROVE Sums!IsFiniteSet(S) <=> IsFiniteSet(S)
  BY DEF Sums!IsFiniteSet, IsFiniteSet
<1>2. ASSUME NEW S PROVE Sums!Cardinality(S) = Cardinality(S)
  BY DEF Sums!Cardinality, Cardinality
<1>3. ASSUME NEW f PROVE Sums!SumFunction(f) = SumFunction(f)
  BY DEF Sums!SumFunction, SumFunction, Sums!SumFunctionOnSet, SumFunctionOnSet, 
   Sums!FoldFunctionOnSet, FoldFunctionOnSet, Sums!MapThenFoldSet, MapThenFoldSet
<1> QED BY <1>1, <1>2, <1>3

\* Among naturals there is a least.
LEMMA LeastNatural ==
    ASSUME NEW T \in SUBSET Nat, T # {}
    PROVE  \E n \in T : \A m \in T : n <= m
<1>1. PICK n \in T : \A m \in T : <<m, n>> \notin OpToRel(<, Nat)
  BY NatLessThanWellFounded, WFMin
<1>2. \A m \in T : ~(m < n)
  BY <1>1 DEF OpToRel
<1> QED BY <1>2

\* A sum lies between its number of points times the least and the largest value.
LEMMA SumIsBounded ==
    ASSUME NEW S, IsFiniteSet(S), NEW f \in [S -> Nat], NEW low \in Nat, NEW high \in Nat,
           \A x \in S : low <= f[x] /\ f[x] <= high
    PROVE  /\ Cardinality(S) * low <= SumFunction(f)
           /\ SumFunction(f) <= Cardinality(S) * high
BY SameOperators, Sums!SumIsBounded

\* A sum of naturals is one.
LEMMA SumIsNat ==
    ASSUME NEW S, IsFiniteSet(S), NEW f \in [S -> Nat]
    PROVE  SumFunction(f) \in Nat
BY SameOperators, Sums!SumIsNat

\* A finite set of naturals has a least and a largest member.
LEMMA ExtremesAre ==
    ASSUME NEW S \in SUBSET Nat, IsFiniteSet(S), S # {}
    PROVE  /\ Min(S) \in S /\ Max(S) \in S
           /\ \A x \in S : Min(S) <= x /\ x <= Max(S)
<1>1. Min(S) \in S /\ \A x \in S : Min(S) <= x
  BY LeastNatural DEF Min
<1> DEFINE above(x) == {y \in S : y > x}
           sizes == {Cardinality(above(x)) : x \in S}
<1>2. \A x \in S : IsFiniteSet(above(x)) /\ Cardinality(above(x)) \in Nat
  <2> SUFFICES ASSUME NEW x \in S PROVE IsFiniteSet(above(x)) /\ Cardinality(above(x)) \in Nat
    OBVIOUS
  <2>1. above(x) \subseteq S
    OBVIOUS
  <2> HIDE DEF above
  <2> QED BY <2>1, FS_Subset, FS_CardinalityType
<1>3. PICK x \in S : \A y \in S : Cardinality(above(x)) <= Cardinality(above(y))
  <2>1. sizes \in SUBSET Nat /\ sizes # {}
    BY <1>2
  <2>2. PICK size \in sizes : \A other \in sizes : size <= other
    <3> HIDE DEF sizes
    <3> QED BY <2>1, LeastNatural
  <2> QED BY <2>2
<1>4. \A y \in S : y <= x
  <2> SUFFICES ASSUME NEW y \in S, ~(y <= x) PROVE FALSE
    OBVIOUS
  <2>1. y \in above(x) /\ y \notin above(y) /\ above(y) \subseteq above(x)
    <3>1. x \in Nat /\ y \in Nat /\ y > x /\ ~(y > y) /\ \A z \in S : z > y => z > x
      OBVIOUS
    <3> QED BY <3>1
  <2>2. IsFiniteSet(above(x)) /\ Cardinality(above(x)) \in Nat /\ Cardinality(above(y)) \in Nat
    BY <1>2
  <2>3. Cardinality(above(x)) <= Cardinality(above(y))
    BY <1>3
  <2> HIDE DEF above
  <2>4. Cardinality(above(y)) < Cardinality(above(x))
    BY <2>1, <2>2, FS_Subset
  <2> QED BY <2>2, <2>3, <2>4
<1>5. Max(S) \in S /\ \A y \in S : Max(S) >= y
  BY <1>4 DEF Max
<1>6. \A y \in S : y <= Max(S)
  BY <1>5
<1> QED BY <1>1, <1>5, <1>6

--------------------------------------------------------------------------------
(* FlattenSeq, which is what the loops of run_cost_benchmark amount to.       *)

\* fl strings the first n of the sequences together, one after another.
Strings(ss, n, fl) ==
    fl = [i \in 1 .. n |-> IF i = 1 THEN ss[i] ELSE fl[i - 1] \o ss[i]]

\* Some function does so, and its values are sequences.
LEMMA StringsExist ==
    ASSUME NEW S, NEW ss \in Seq(Seq(S)), NEW n \in 1 .. Len(ss)
    PROVE  \E fl \in [1 .. n -> Seq(S)] : Strings(ss, n, fl)
<1> DEFINE good(m) == \E fl \in [1 .. m -> Seq(S)] : Strings(ss, m, fl)
           bad == {m \in 1 .. Len(ss) : ~good(m)}
<1>0. Len(ss) \in Nat /\ \A i \in 1 .. Len(ss) : ss[i] \in Seq(S)
  OBVIOUS
<1>1. bad = {}
  <2> SUFFICES ASSUME bad # {} PROVE FALSE
    OBVIOUS
  <2>1. PICK m \in bad : \A k \in bad : m <= k
    <3>1. bad \in SUBSET Nat
      BY <1>0
    <3> HIDE DEF bad
    <3> QED BY <3>1, LeastNatural
  <2>2. m \in 1 .. Len(ss) /\ ~good(m)
    OBVIOUS
  <2>3. CASE m = 1
    <3> DEFINE fl == [i \in 1 .. 1 |-> ss[1]]
    <3>1. fl \in [1 .. 1 -> Seq(S)]
      BY <1>0, <2>2, <2>3
    <3>2. fl = [i \in 1 .. 1 |-> IF i = 1 THEN ss[i] ELSE fl[i - 1] \o ss[i]]
      OBVIOUS
    <3> HIDE DEF fl
    <3> QED BY <2>2, <2>3, <3>1, <3>2 DEF Strings
  <2>4. CASE m # 1
    <3>1. m - 1 \in 1 .. Len(ss) /\ ~(m <= m - 1)
      BY <1>0, <2>2, <2>4
    <3>2. good(m - 1)
      BY <2>1, <3>1
    <3> HIDE DEF bad
    <3>3. PICK fl \in [1 .. m - 1 -> Seq(S)] : Strings(ss, m - 1, fl)
      BY <3>2
    <3> DEFINE gl == [i \in 1 .. m |-> IF i = m THEN fl[m - 1] \o ss[m] ELSE fl[i]]
    <3>4. fl[m - 1] \in Seq(S) /\ ss[m] \in Seq(S)
      BY <1>0, <2>2, <2>4
    <3>5. fl[m - 1] \o ss[m] \in Seq(S)
      BY <3>4
    <3>6. gl \in [1 .. m -> Seq(S)]
      <4> SUFFICES ASSUME NEW i \in 1 .. m PROVE gl[i] \in Seq(S)
        OBVIOUS
      <4>1. CASE i = m
        BY <3>5, <4>1
      <4>2. CASE i # m
        <5>1. i \in 1 .. m - 1
          BY <1>0, <2>2, <4>2
        <5> QED BY <4>2, <5>1
      <4> QED BY <4>1, <4>2
    <3>7. ASSUME NEW i \in 1 .. m
          PROVE  gl[i] = IF i = 1 THEN ss[i] ELSE gl[i - 1] \o ss[i]
      <4>1. CASE i = m
        <5>1. m - 1 \in 1 .. m /\ m - 1 # m
          BY <1>0, <2>2, <2>4
        <5> QED BY <2>4, <4>1, <5>1
      <4>2. CASE i # m
        <5>1. i \in 1 .. m - 1 /\ (i # 1 => i - 1 \in 1 .. m /\ i - 1 # m)
          BY <1>0, <2>2, <4>2
        <5>2. fl[i] = IF i = 1 THEN ss[i] ELSE fl[i - 1] \o ss[i]
          BY <3>3, <5>1 DEF Strings
        <5> QED BY <4>2, <5>1, <5>2
      <4> QED BY <4>1, <4>2
    <3>8. gl = [i \in 1 .. m |-> gl[i]]
      OBVIOUS
    <3> HIDE DEF gl
    <3>9. gl = [i \in 1 .. m |-> IF i = 1 THEN ss[i] ELSE gl[i - 1] \o ss[i]]
      BY <3>7, <3>8
    <3> QED BY <2>2, <3>6, <3>9 DEF Strings
  <2> QED BY <2>3, <2>4
<1> QED BY <1>1

\* FlattenSeq is the last value of a function that strings the sequences together.
LEMMA FlattenIs ==
    ASSUME NEW S, NEW ss \in Seq(Seq(S)), Len(ss) # 0
    PROVE  \E fl \in [1 .. Len(ss) -> Seq(S)] :
             /\ FlattenSeq(ss) = fl[Len(ss)]
             /\ fl[1] = ss[1]
             /\ \A i \in 2 .. Len(ss) : fl[i] = fl[i - 1] \o ss[i]
<1> DEFINE n == Len(ss)
<1>0. n \in Nat /\ n >= 1 /\ n \in 1 .. n /\ \A i \in 1 .. n : ss[i] \in Seq(S)
  OBVIOUS
<1>1. PICK gl \in [1 .. n -> Seq(S)] : Strings(ss, n, gl)
  BY <1>0, StringsExist
<1>2. FlattenSeq(ss) = (CHOOSE fl : Strings(ss, n, fl))[n]
  BY Zenon DEF FlattenSeq, Strings
<1> DEFINE fl == CHOOSE fl : Strings(ss, n, fl)
<1>3. Strings(ss, n, fl)
  BY <1>1, Zenon
<1> HIDE DEF fl
<1>4. DOMAIN fl = 1 .. n /\ fl = [i \in 1 .. n |-> fl[i]]
  BY <1>3 DEF Strings
<1>5. \A i \in 1 .. n : fl[i] = IF i = 1 THEN ss[i] ELSE fl[i - 1] \o ss[i]
  BY <1>3 DEF Strings
<1>6. \A i \in 1 .. n : fl[i] = gl[i]
  <2> DEFINE wrong == {i \in 1 .. n : fl[i] # gl[i]}
  <2> SUFFICES ASSUME wrong # {} PROVE FALSE
    OBVIOUS
  <2>1. PICK i \in wrong : \A k \in wrong : i <= k
    <3>1. wrong \in SUBSET Nat
      BY <1>0
    <3> HIDE DEF wrong
    <3> QED BY <3>1, LeastNatural
  <2>2. i \in 1 .. n /\ fl[i] # gl[i]
    OBVIOUS
  <2>3. gl[i] = IF i = 1 THEN ss[i] ELSE gl[i - 1] \o ss[i]
    BY <1>1, <2>2 DEF Strings
  <2>4. i # 1 => i - 1 \in 1 .. n /\ ~(i <= i - 1)
    BY <1>0, <2>2
  <2>5. i # 1 => fl[i - 1] = gl[i - 1]
    BY <2>1, <2>4
  <2> QED BY <1>5, <2>2, <2>3, <2>5
<1>7. fl \in [1 .. n -> Seq(S)]
  BY <1>4, <1>6
<1>8. ASSUME NEW i \in 2 .. n PROVE fl[i] = fl[i - 1] \o ss[i]
  <2>1. i \in 1 .. n /\ i # 1
    BY <1>0
  <2> QED BY <1>5, <2>1
<1>9. FlattenSeq(ss) = fl[n] /\ fl[1] = ss[1]
  BY <1>0, <1>2, <1>5 DEF fl
<1> QED BY <1>7, <1>8, <1>9, Zenon

\* Where p stands in s, and how often.
Places(s, p) == {k \in DOMAIN s : s[k] = p}

Count(s, p) == Cardinality(Places(s, p))

\* One profile is in as many places as one sequence and the other have together.
LEMMA CountAdds ==
    ASSUME NEW S, NEW s \in Seq(S), NEW t \in Seq(S), NEW p
    PROVE  /\ IsFiniteSet(Places(s, p)) /\ Count(s, p) \in Nat
           /\ Count(s \o t, p) = Count(s, p) + Count(t, p)
<1> DEFINE moved == {Len(s) + k : k \in Places(t, p)}
           move == [k \in Places(t, p) |-> Len(s) + k]
<1>1. \A u \in Seq(S) : IsFiniteSet(Places(u, p)) /\ Count(u, p) \in Nat
  <2> SUFFICES ASSUME NEW u \in Seq(S) PROVE IsFiniteSet(Places(u, p)) /\ Count(u, p) \in Nat
    OBVIOUS
  <2>1. Places(u, p) \subseteq 1 .. Len(u) /\ IsFiniteSet(1 .. Len(u))
    BY FS_Interval DEF Places
  <2>2. IsFiniteSet(Places(u, p))
    BY <2>1, FS_Subset
  <2> QED BY <2>2, FS_CardinalityType DEF Count
<1>2. Len(s) \in Nat /\ Len(t) \in Nat /\ DOMAIN s = 1 .. Len(s) /\ DOMAIN t = 1 .. Len(t)
  OBVIOUS
<1>3. /\ DOMAIN (s \o t) = 1 .. Len(s) + Len(t)
      /\ \A k \in 1 .. Len(s) : (s \o t)[k] = s[k]
      /\ \A k \in 1 .. Len(t) : (s \o t)[Len(s) + k] = t[k]
  OBVIOUS
<1>4. Places(s \o t, p) = Places(s, p) \cup moved
  <2>1. ASSUME NEW k \in Places(s \o t, p) PROVE k \in Places(s, p) \cup moved
    <3>1. k \in 1 .. Len(s) + Len(t) /\ (s \o t)[k] = p
      BY <1>3 DEF Places
    <3>2. CASE k \in 1 .. Len(s)
      BY <1>2, <1>3, <3>1, <3>2 DEF Places
    <3>3. CASE k \notin 1 .. Len(s)
      <4>1. k - Len(s) \in 1 .. Len(t) /\ k = Len(s) + (k - Len(s))
        BY <1>2, <3>1, <3>3
      <4>2. k - Len(s) \in Places(t, p)
        BY <1>2, <1>3, <3>1, <4>1 DEF Places
      <4> QED BY <4>1, <4>2
    <3> QED BY <3>2, <3>3
  <2>2. ASSUME NEW k \in Places(s, p) PROVE k \in Places(s \o t, p)
    BY <1>2, <1>3 DEF Places
  <2>3. ASSUME NEW k \in Places(t, p) PROVE Len(s) + k \in Places(s \o t, p)
    <3>1. k \in 1 .. Len(t) /\ t[k] = p
      BY <1>2 DEF Places
    <3>2. Len(s) + k \in 1 .. Len(s) + Len(t)
      BY <1>2, <3>1
    <3> QED BY <1>3, <3>1, <3>2 DEF Places
  <2> QED BY <2>1, <2>2, <2>3
<1>5. Places(s, p) \cap moved = {}
  BY <1>2 DEF Places
<1>6. IsFiniteSet(moved) /\ Cardinality(moved) = Count(t, p)
  <2>1. move \in [Places(t, p) -> moved]
    OBVIOUS
  <2>2. \A k, m \in Places(t, p) : move[k] = move[m] => k = m
    BY <1>2 DEF Places
  <2>3. \A x \in moved : \E k \in Places(t, p) : move[k] = x
    OBVIOUS
  <2>4. move \in Bijection(Places(t, p), moved)
    <3> HIDE DEF move, moved
    <3> QED BY <2>1, <2>2, <2>3, Zenon DEF Bijection, Injection, Surjection, IsInjective
  <2> HIDE DEF move, moved
  <2> QED BY <1>1, <2>4, FS_Bijection DEF ExistsBijection, Count
<1> HIDE DEF moved
<1>7. Cardinality(Places(s, p) \cup moved)
        = Cardinality(Places(s, p)) + Cardinality(moved) - Cardinality(Places(s, p) \cap moved)
  BY <1>1, <1>6, FS_Union
<1>8. Cardinality(Places(s, p) \cap moved) = 0
  BY <1>5, FS_EmptySet
<1> QED BY <1>1, <1>4, <1>6, <1>7, <1>8 DEF Count

\* The flattened sequence has an element as often as the sequences have it one by one.
LEMMA FlattenCounts ==
    ASSUME NEW S, NEW ss \in Seq(Seq(S)), NEW p, NEW count \in [0 .. Len(ss) -> Nat],
           count[0] = 0,
           \A i \in 1 .. Len(ss) : count[i] = count[i - 1] + Count(ss[i], p)
    PROVE  FlattenSeq(ss) \in Seq(S) /\ Count(FlattenSeq(ss), p) = count[Len(ss)]
<1> DEFINE n == Len(ss)
<1>0. n \in Nat /\ \A i \in 1 .. n : ss[i] \in Seq(S)
  OBVIOUS
<1>1. CASE n = 0
  <2>1. FlattenSeq(ss) = ss /\ ss = <<>>
    BY <1>1 DEF FlattenSeq
  <2>2. Places(<<>>, p) = {}
    BY DEF Places
  <2>3. Count(<<>>, p) = 0
    BY <2>2, FS_EmptySet DEF Count
  <2> QED BY <1>1, <2>1, <2>3
<1>2. CASE n # 0
  <2>1. PICK fl \in [1 .. n -> Seq(S)] :
          /\ FlattenSeq(ss) = fl[n] /\ fl[1] = ss[1]
          /\ \A i \in 2 .. n : fl[i] = fl[i - 1] \o ss[i]
    BY <1>2, FlattenIs
  <2> DEFINE wrong == {i \in 1 .. n : Count(fl[i], p) # count[i]}
  <2>2. wrong = {}
    <3> SUFFICES ASSUME wrong # {} PROVE FALSE
      OBVIOUS
    <3>1. PICK i \in wrong : \A k \in wrong : i <= k
      <4>1. wrong \in SUBSET Nat
        BY <1>0
      <4> HIDE DEF wrong
      <4> QED BY <4>1, LeastNatural
    <3>2. i \in 1 .. n /\ Count(fl[i], p) # count[i]
      OBVIOUS
    <3>3. count[i] = count[i - 1] + Count(ss[i], p) /\ Count(ss[i], p) \in Nat
      BY <1>0, <3>2, CountAdds
    <3>4. CASE i = 1
      BY <2>1, <3>2, <3>3, <3>4
    <3>5. CASE i # 1
      <4>1. i \in 2 .. n /\ i - 1 \in 1 .. n /\ ~(i <= i - 1)
        BY <1>0, <3>2, <3>5
      <4>2. Count(fl[i - 1], p) = count[i - 1]
        BY <3>1, <4>1
      <4>3. fl[i] = fl[i - 1] \o ss[i] /\ fl[i - 1] \in Seq(S) /\ ss[i] \in Seq(S)
        BY <1>0, <2>1, <3>2, <4>1
      <4>4. Count(fl[i], p) = Count(fl[i - 1], p) + Count(ss[i], p)
        <5> DEFINE s == fl[i - 1]  t == ss[i]
        <5>1. s \in Seq(S) /\ t \in Seq(S) /\ fl[i] = s \o t
          BY <4>3
        <5> HIDE DEF s, t
        <5>2. Count(s \o t, p) = Count(s, p) + Count(t, p)
          BY <5>1, CountAdds
        <5>3. Count(fl[i], p) = Count(s, p) + Count(t, p)
          BY <5>1, <5>2, Zenon
        <5> QED BY <5>3 DEF s, t
      <4> QED BY <3>2, <3>3, <4>2, <4>4
    <3> QED BY <3>4, <3>5
  <2>3. n \in 1 .. n
    BY <1>0, <1>2
  <2> QED BY <2>1, <2>2, <2>3
<1> QED BY <1>1, <1>2

\* A day has each task of a profile once, as often as its frequency says.
DayParts == [n \in DOMAIN Profiles |->
               [copy \in 1 .. Frequency[Profiles[n]] |-> Profiles[n]]]

\* A day has every profile as often as its frequency says.
LEMMA DayIs ==
    /\ FlattenSeq(DayParts) \in Seq(Kinds)
    /\ \A p \in Kinds : Count(FlattenSeq(DayParts), p) = Frequency[p]
<1> DEFINE n == Len(Profiles)
<1>1. /\ n \in Nat /\ DOMAIN Profiles = 1 .. n
      /\ \A i \in 1 .. n : Profiles[i] \in Kinds /\ Frequency[Profiles[i]] \in Nat
  BY ScheduleAssumption
<1>2. \A i \in 1 .. n : DayParts[i] = [copy \in 1 .. Frequency[Profiles[i]] |-> Profiles[i]]
  BY <1>1 DEF DayParts
<1>3. \A i \in 1 .. n : DayParts[i] \in Seq(Kinds)
  <2> SUFFICES ASSUME NEW i \in 1 .. n PROVE DayParts[i] \in Seq(Kinds)
    OBVIOUS
  <2> DEFINE f == Frequency[Profiles[i]]  q == Profiles[i]
  <2>1. f \in Nat /\ q \in Kinds /\ DayParts[i] = [copy \in 1 .. f |-> q]
    BY <1>1, <1>2
  <2> HIDE DEF f, q
  <2> QED BY <2>1
<1>4. DayParts \in Seq(Seq(Kinds)) /\ Len(DayParts) = n
  <2>1. DayParts = [i \in 1 .. n |-> DayParts[i]]
    BY <1>1 DEF DayParts
  <2> HIDE DEF n
  <2> QED BY <1>1, <1>3, <2>1
<1>5. ASSUME NEW p \in Kinds
      PROVE  FlattenSeq(DayParts) \in Seq(Kinds) /\ Count(FlattenSeq(DayParts), p) = Frequency[p]
  <2>1. PICK at \in 1 .. n : Profiles[at] = p
    BY <1>1 DEF Kinds, ToSet
  <2>2. \A i \in 1 .. n : Profiles[i] = p <=> i = at
    BY <1>1, <2>1, ScheduleAssumption DEF IsInjective
  <2> DEFINE count == [i \in 0 .. n |-> IF i < at THEN 0 ELSE Frequency[p]]
  <2>3. Frequency[p] \in Nat
    BY ScheduleAssumption
  <2>4. count \in [0 .. n -> Nat] /\ count[0] = 0 /\ count[n] = Frequency[p]
    BY <1>1, <2>1, <2>3
  <2>5. ASSUME NEW i \in 1 .. n
        PROVE  count[i] = count[i - 1] + Count(DayParts[i], p)
    <3>1. i - 1 \in 0 .. n /\ i \in 0 .. n
      BY <1>1
    <3>2. CASE i = at
      <4>1. Places(DayParts[i], p) = 1 .. Frequency[p]
        BY <1>2, <2>1, <3>2 DEF Places
      <4>2. Count(DayParts[i], p) = Frequency[p]
        BY <2>3, <4>1, FS_Interval, SMT DEF Count
      <4> QED BY <2>1, <2>3, <3>1, <3>2, <4>2
    <3>3. CASE i # at
      <4>1. Places(DayParts[i], p) = {}
        BY <1>2, <2>2, <3>3 DEF Places
      <4>2. Count(DayParts[i], p) = 0
        BY <4>1, FS_EmptySet DEF Count
      <4> QED BY <2>1, <2>3, <3>1, <3>3, <4>2
    <3> QED BY <3>2, <3>3
  <2> HIDE DEF count, n
  <2> QED BY <1>4, <2>4, <2>5, FlattenCounts
<1>6. CASE Kinds = {}
  <2>1. n = 0
    BY <1>1, <1>6
  <2> QED BY <1>4, <1>6, <2>1 DEF FlattenSeq
<1> QED BY <1>5, <1>6

\* A run has the tasks of every day, which is what _build_batch_counts counts.
LEMMA ScheduleIs ==
    /\ Schedule \in Seq(Kinds)
    /\ \A p \in Kinds : IsFiniteSet(Places(Schedule, p))
                        /\ Cardinality(Places(Schedule, p)) = BatchCount(p)
<1> DEFINE day == FlattenSeq(DayParts)
           days == [d \in 1 .. Days |-> day]
<1>1. Schedule = FlattenSeq(days)
  BY DEF Schedule, DayParts
<1>2. Days \in Nat /\ Days >= 1
  BY ScheduleAssumption
<1>3. day \in Seq(Kinds) /\ \A p \in Kinds : Count(day, p) = Frequency[p]
  BY DayIs
<1> HIDE DEF day
<1>4. days \in Seq(Seq(Kinds)) /\ Len(days) = Days /\ \A d \in 1 .. Days : days[d] = day
  BY <1>2, <1>3
<1> HIDE DEF days
<1>5. ASSUME NEW p, NEW f \in Nat, Count(day, p) = f
      PROVE  Schedule \in Seq(Kinds) /\ Count(Schedule, p) = f * Days
  <2> DEFINE count == [d \in 0 .. Days |-> f * d]
  <2>1. count \in [0 .. Days -> Nat] /\ count[0] = 0 /\ count[Days] = f * Days
    BY <1>2
  <2>2. ASSUME NEW d \in 1 .. Days PROVE count[d] = count[d - 1] + Count(days[d], p)
    <3>1. d \in 0 .. Days /\ d - 1 \in 0 .. Days /\ f * d = f * (d - 1) + f
      BY <1>2
    <3> QED BY <1>4, <1>5, <3>1
  <2> HIDE DEF count
  <2> QED BY <1>1, <1>4, <2>1, <2>2, FlattenCounts
<1>6. Schedule \in Seq(Kinds)
  <2>1. PICK p : TRUE
    OBVIOUS
  <2>2. Count(day, p) \in Nat
    BY <1>3, CountAdds
  <2> QED BY <1>5, <2>2
<1>7. ASSUME NEW p \in Kinds
      PROVE  IsFiniteSet(Places(Schedule, p)) /\ Cardinality(Places(Schedule, p)) = BatchCount(p)
  <2>1. Frequency[p] \in Nat
    BY ScheduleAssumption
  <2>2. Count(Schedule, p) = Frequency[p] * Days
    BY <1>3, <1>5, <2>1
  <2>3. IsFiniteSet(Places(Schedule, p))
    BY <1>6, CountAdds
  <2> QED BY <2>2, <2>3 DEF BatchCount, Count
<1> QED BY <1>6, <1>7

--------------------------------------------------------------------------------
(* One task.                                                                 *)

\* x has no more tokens than y.
Within(x, y) == x \in Usage /\ x.input <= y.input /\ x.output <= y.output

\* No optimization charges more tokens than were drawn.
LEMMA ChargedIsWithin ==
    ASSUME NEW opts, NEW p \in Kinds, NEW usage \in Usage
    PROVE  /\ Within(usage, usage) /\ Within(Free, usage)
           /\ Within(Prompt(opts, usage), usage)
           /\ Within(PlanCharged(opts, p, usage), usage)
           /\ Within(ReviewCharged(opts, p, usage), usage)
<1>1. Within(usage, usage) /\ Within(Free, usage)
  BY DEF Within, Usage, Free
<1>2. Within(Prompt(opts, usage), usage)
  BY CompressionIsLess DEF Within, Prompt, Usage
<1>3. Within(ReviewCharged(opts, p, usage), usage)
  BY <1>1, <1>2 DEF ReviewCharged
<1>4. Within(PlanCharged(opts, p, usage), usage)
  <2> DEFINE plan == Prompt(opts, usage)
             n == BatchCount(p)
  <2>1. n \in Nat
    BY ScheduleAssumption DEF BatchCount
  <2>2. plan \in Usage /\ plan.input \in Nat /\ plan.output \in Nat
    BY <1>2 DEF Within, Usage
  <2>3. CASE opts.batch /\ n > 1
    <3>1. PlanCharged(opts, p, usage) = [input |-> plan.input \div n, output |-> plan.output \div n]
      BY <2>3 DEF PlanCharged
    <3>2. /\ plan.input \div n \in Nat /\ plan.input \div n <= plan.input
          /\ plan.output \div n \in Nat /\ plan.output \div n <= plan.output
      <4> HIDE DEF plan, n
      <4> QED BY <2>1, <2>2, <2>3, DivisionIsLess
    <3>3. usage.input \in Nat /\ usage.output \in Nat
      BY DEF Usage
    <3> HIDE DEF plan, n
    <3> QED BY <1>2, <2>2, <3>1, <3>2, <3>3 DEF Within, Usage, plan
  <2>4. CASE ~(opts.batch /\ n > 1)
    BY <1>2, <2>4 DEF PlanCharged
  <2> QED BY <2>3, <2>4
<1> QED BY <1>1, <1>2, <1>3, <1>4

Drawn == [plan : Usage, implementation : Usage, review : Usage]

\* What is charged within other counts costs no more, on any planner model, and no more
\* than these counts do on Opus.
LEMMA WithinIsCheaper ==
    ASSUME rh \in PlannerModels, NEW drawn \in Drawn, NEW infra \in Nat,
           NEW plan, NEW implementation, NEW review,
           Within(plan, drawn.plan), Within(implementation, drawn.implementation),
           Within(review, drawn.review)
    PROVE  /\ BicameralCost(plan, implementation, review, infra) \in Nat
           /\ BicameralCost(plan, implementation, review, infra) <=
                BicameralCost(drawn.plan, drawn.implementation, drawn.review, infra)
           /\ MonolithicCost(drawn, infra) \in Nat
           /\ BicameralCost(plan, implementation, review, infra) <= MonolithicCost(drawn, infra)
<1>1. rh \in Prices /\ Flash \in Prices /\ Opus \in Prices
  BY DEF Prices, PlannerModels
<1>2. ASSUME NEW price \in Prices, NEW x, NEW y \in Usage, Within(x, y)
      PROVE  /\ UsageCost(price, x) \in Nat /\ UsageCost(price, y) \in Nat
             /\ UsageCost(price, x) <= UsageCost(price, y)
             /\ UsageCost(price, x) <= UsageCost(Opus, y) /\ UsageCost(Opus, y) \in Nat
  <2>1. /\ x.input \in Nat /\ x.output \in Nat /\ y.input \in Nat /\ y.output \in Nat
        /\ x.input <= y.input /\ x.output <= y.output
    BY <1>2 DEF Within, Usage
  <2>2. y.input <= y.input /\ y.output <= y.output
    BY <2>1
  <2> QED BY <1>1, <2>1, <2>2, CostIsMonotone DEF UsageCost
<1>3. drawn.plan \in Usage /\ drawn.implementation \in Usage /\ drawn.review \in Usage
  BY DEF Drawn
<1>4. MonolithicCost(drawn, infra) = infra + UsageCost(Opus, drawn.plan)
        + UsageCost(Opus, drawn.implementation) + UsageCost(Opus, drawn.review)
  BY <1>3, SMT DEF MonolithicCost, UsageCost, Cost, Opus, Price, Usage
<1>5. /\ UsageCost(rh, plan) \in Nat /\ UsageCost(rh, drawn.plan) \in Nat
      /\ UsageCost(rh, plan) <= UsageCost(rh, drawn.plan)
      /\ UsageCost(rh, plan) <= UsageCost(Opus, drawn.plan) /\ UsageCost(Opus, drawn.plan) \in Nat
  BY <1>1, <1>2, <1>3
<1>6. /\ UsageCost(Flash, implementation) \in Nat /\ UsageCost(Flash, drawn.implementation) \in Nat
      /\ UsageCost(Flash, implementation) <= UsageCost(Flash, drawn.implementation)
      /\ UsageCost(Flash, implementation) <= UsageCost(Opus, drawn.implementation)
      /\ UsageCost(Opus, drawn.implementation) \in Nat
  BY <1>1, <1>2, <1>3
<1>7. /\ UsageCost(rh, review) \in Nat /\ UsageCost(rh, drawn.review) \in Nat
      /\ UsageCost(rh, review) <= UsageCost(rh, drawn.review)
      /\ UsageCost(rh, review) <= UsageCost(Opus, drawn.review) /\ UsageCost(Opus, drawn.review) \in Nat
  BY <1>1, <1>2, <1>3
<1> QED BY <1>4, <1>5, <1>6, <1>7 DEF BicameralCost

\* What a task costs that is drawn in state g and does not find its plan in the cache.
Charge(opts, g, p) ==
    BicameralCost(PlanCharged(opts, p, Tokens[g, p].plan),
                  Prompt(opts, Tokens[g, p].implementation),
                  ReviewCharged(opts, p, Tokens[g, p].review), PodCost[AfterTokens[g, p], p])

Plain == Flags(FALSE, FALSE, FALSE, FALSE)

\* The tables of the generator, at one place.
LEMMA DrawsAre ==
    ASSUME NEW g \in States, NEW p \in Kinds
    PROVE  /\ Tokens[g, p] \in Drawn /\ AfterTokens[g, p] \in States
           /\ PodCost[g, p] \in Nat /\ AfterPod[g, p] \in States /\ AfterCoin[g] \in States
<1>1. <<g, p>> \in States \X Kinds
  OBVIOUS
<1> QED BY <1>1, GeneratorAssumption DEF Drawn

\* Without the cache no combination of optimizations makes a task dearer.
LEMMA OptionsChargeLess ==
    ASSUME rh \in PlannerModels, NEW opts, NEW g \in States, NEW p \in Kinds
    PROVE  Charge(opts, g, p) <= Charge(Plain, g, p)
<1> DEFINE drawn == Tokens[g, p]
           infra == PodCost[AfterTokens[g, p], p]
<1>1. drawn \in Drawn /\ infra \in Nat
  BY DrawsAre
<1>2. drawn.plan \in Usage /\ drawn.implementation \in Usage /\ drawn.review \in Usage
  BY <1>1 DEF Drawn
<1>3. /\ PlanCharged(Plain, p, drawn.plan) = drawn.plan
      /\ Prompt(Plain, drawn.implementation) = drawn.implementation
      /\ ReviewCharged(Plain, p, drawn.review) = drawn.review
  BY DEF PlanCharged, ReviewCharged, Prompt, Plain, Flags
<1>4. /\ Within(PlanCharged(opts, p, drawn.plan), drawn.plan)
      /\ Within(Prompt(opts, drawn.implementation), drawn.implementation)
      /\ Within(ReviewCharged(opts, p, drawn.review), drawn.review)
  BY <1>2, ChargedIsWithin
<1>5. /\ Charge(opts, g, p) = BicameralCost(PlanCharged(opts, p, drawn.plan),
                  Prompt(opts, drawn.implementation), ReviewCharged(opts, p, drawn.review), infra)
      /\ Charge(Plain, g, p) =
             BicameralCost(drawn.plan, drawn.implementation, drawn.review, infra)
  BY <1>3 DEF Charge
<1> HIDE DEF drawn, infra
<1> QED BY <1>1, <1>4, <1>5, WithinIsCheaper

--------------------------------------------------------------------------------
(* The inductive invariant.                                                  *)

\* The log of the plain run, as far as it has come.
First == IF table = <<>> THEN tasks ELSE table[1]

\* The state of the generator after a task that did not ask it about the cache.
After(g, p) == AfterPod[AfterTokens[g, p], p]

\* Each task was drawn where it started, costs no more than Opus and, without the
\* cache, what its draws and optimizations say.
Fits(r, log) ==
    \A k \in DOMAIN log :
        /\ log[k].drawn = Tokens[log[k].from, Schedule[k]]
        /\ log[k].bicameral <= log[k].monolithic
        /\ ~Combos[r].cache =>
             /\ log[k].bicameral = Charge(Combos[r], log[k].from, Schedule[k])
             /\ log[k].plan = PlanCharged(Combos[r], Schedule[k], log[k].drawn.plan)

\* Until the cache has asked, a run goes through the states of the plain run.
Agrees(r, log) ==
    \A k \in DOMAIN log :
        ~Shifted(r, k) => k \in DOMAIN First /\ log[k].from = First[k].from

LogsFit ==
    /\ \A r \in DOMAIN table : Len(table[r]) = Len(Schedule) /\ Fits(r, table[r]) /\ Agrees(r, table[r])
    /\ Run <= Len(Combos) => Fits(Run, tasks) /\ Agrees(Run, tasks)
    /\ Run > Len(Combos) => tasks = <<>>

\* Where the plain run started its k-th task.
Began(k) == IF k = 1 THEN seed ELSE After(First[k - 1].from, Schedule[k - 1])

Chained == \A k \in DOMAIN First : First[k].from = Began(k)

\* Where this run will start its next task.
Ahead ==
    Run <= Len(Combos) /\ ~Shifted(Run, Len(tasks) + 1) => gen = Began(Len(tasks) + 1)

CachedWasSeen == cached \subseteq {Schedule[j] : j \in 1 .. Len(tasks)}

BenchInvariant == TypeOK /\ LogsFit /\ Chained /\ Ahead /\ CachedWasSeen

\* The plain run comes first, and six in all.
LEMMA CombosAre ==
    /\ Len(Combos) = 6 /\ DOMAIN Combos = 1 .. 6
    /\ Combos[1] = Plain
    /\ ~Plain.cache
<1>1. PICK a, b, c, d, e : Combos = <<Plain, a, b, c, d, e>>
  BY DEF Combos, Plain
<1>2. ~Plain.cache
  BY DEF Plain, Flags
<1> QED BY <1>1, <1>2

\* The invariant holds before the first task.
LEMMA BenchInit == Init => BenchInvariant
<1> SUFFICES ASSUME Init PROVE BenchInvariant
  OBVIOUS
<1>1. table = <<>> /\ tasks = <<>> /\ Len(table) = 0 /\ Len(tasks) = 0 /\ DOMAIN tasks = {}
  BY DEF Init
<1>2. Len(Schedule) \in Nat
  BY ScheduleIs
<1>3. TypeOK
  BY <1>1, <1>2, CombosAre DEF Init, TypeOK
<1>4. LogsFit /\ Chained
  BY <1>1, CombosAre DEF LogsFit, Chained, Fits, Agrees, First, Run
<1>5. Ahead /\ CachedWasSeen
  BY <1>1 DEF Init, Ahead, Began, CachedWasSeen
<1> QED BY <1>3, <1>4, <1>5 DEF BenchInvariant

--------------------------------------------------------------------------------
(* A task is simulated.                                                      *)

NextKind == Schedule[Len(tasks) + 1]

\* The types of what a simulated task reads.
LEMMA AtTask ==
    ASSUME BenchInvariant, SimulateTask
    PROVE  /\ tasks \in Seq(Task) /\ Len(tasks) \in Nat
           /\ Len(tasks) + 1 \in 1 .. Len(Schedule) /\ Len(Schedule) \in Nat
           /\ table \in Seq(Seq(Task)) /\ Len(table) \in Nat /\ Run \in 1 .. 6
           /\ NextKind \in Kinds /\ gen \in States /\ rh \in PlannerModels
<1>1. /\ tasks \in Seq(Task) /\ table \in Seq(Seq(Task))
      /\ gen \in States /\ rh \in PlannerModels
  BY DEF BenchInvariant, TypeOK
<1>2. Run <= Len(Combos) /\ Len(tasks) < Len(Schedule)
  BY DEF SimulateTask
<1>3. Schedule \in Seq(Kinds)
  BY ScheduleIs
<1>4. Len(tasks) \in Nat /\ Len(Schedule) \in Nat /\ Len(table) \in Nat
  BY <1>1, <1>3
<1>5. Len(tasks) + 1 \in 1 .. Len(Schedule)
  BY <1>2, <1>4
<1>6. Run \in 1 .. 6
  BY <1>2, <1>4, CombosAre DEF Run
<1>7. NextKind \in Kinds
  BY <1>3, <1>5 DEF NextKind
<1> QED BY <1>1, <1>4, <1>5, <1>6, <1>7

\* What the step appends.
LEMMA NewTaskIs ==
    ASSUME BenchInvariant, SimulateTask
    PROVE  \E new \in Task :
             /\ tasks' = Append(tasks, new)
             /\ new.from = gen /\ new.drawn = Tokens[gen, NextKind]
             /\ new.bicameral <= new.monolithic
             /\ ~Combos[Run].cache =>
                  /\ new.bicameral = Charge(Combos[Run], gen, NextKind)
                  /\ new.plan = PlanCharged(Combos[Run], NextKind, new.drawn.plan)
<1> DEFINE p == NextKind
           opts == Combos[Run]
           drawn == Tokens[gen, p]
           drew == AfterTokens[gen, p]
           tossed == IF Coin(p) THEN AfterCoin[drew] ELSE drew
           hit == Coin(p) /\ Hit[drew, p]
           plan == PlanCharged(opts, p, IF hit THEN Free ELSE drawn.plan)
           implementation == Prompt(opts, drawn.implementation)
           review == ReviewCharged(opts, p, drawn.review)
           infra == PodCost[tossed, p]
           new == [from |-> gen, drawn |-> drawn, plan |-> plan,
                   bicameral |-> BicameralCost(plan, implementation, review, infra),
                   monolithic |-> MonolithicCost(drawn, infra)]
<1>1. tasks' = Append(tasks, new)
  BY DEF SimulateTask, NextKind, Opts
<1>2. p \in Kinds /\ gen \in States /\ rh \in PlannerModels
  BY AtTask
<1>3. drawn \in Drawn /\ drew \in States
  BY <1>2, DrawsAre
<1>4. tossed \in States /\ infra \in Nat
  BY <1>2, <1>3, DrawsAre
<1>5. drawn.plan \in Usage /\ drawn.implementation \in Usage /\ drawn.review \in Usage
  BY <1>3 DEF Drawn
<1>6. Within(plan, drawn.plan)
  <2>1. Free \in Usage
    BY DEF Free, Usage
  <2>2. CASE hit
    <3>1. Within(PlanCharged(opts, p, Free), Free)
      BY <1>2, <2>1, ChargedIsWithin
    <3>2. plan = PlanCharged(opts, p, Free)
      BY <2>2
    <3>3. /\ drawn.plan.input \in Nat /\ drawn.plan.output \in Nat
          /\ Free.input = 0 /\ Free.output = 0
      BY <1>5 DEF Free, Usage
    <3>4. plan \in Usage /\ plan.input <= 0 /\ plan.output <= 0
      BY <3>1, <3>2, <3>3 DEF Within
    <3>5. plan.input \in Nat /\ plan.output \in Nat
      BY <3>4 DEF Usage
    <3> HIDE DEF plan, drawn
    <3> QED BY <3>3, <3>4, <3>5 DEF Within
  <2>3. CASE ~hit
    BY <1>2, <1>5, <2>3, ChargedIsWithin
  <2> QED BY <2>2, <2>3
<1>7. Within(implementation, drawn.implementation) /\ Within(review, drawn.review)
  BY <1>2, <1>5, ChargedIsWithin
<1>8. /\ BicameralCost(plan, implementation, review, infra) \in Nat
      /\ MonolithicCost(drawn, infra) \in Nat
      /\ BicameralCost(plan, implementation, review, infra) <= MonolithicCost(drawn, infra)
  <2> HIDE DEF plan, implementation, review, infra, drawn
  <2> QED BY <1>2, <1>3, <1>4, <1>6, <1>7, WithinIsCheaper
<1>9. ~opts.cache => /\ new.bicameral = Charge(opts, gen, p)
                     /\ new.plan = PlanCharged(opts, p, drawn.plan)
  <2>1. ~opts.cache => ~hit /\ tossed = drew
    BY DEF Coin, Opts
  <2> QED BY <2>1 DEF Charge
<1>10. new \in Task
  BY <1>2, <1>3, <1>6, <1>8 DEF Task, Within, Drawn
<1>11. /\ new.from = gen /\ new.drawn = drawn
       /\ new.bicameral = BicameralCost(plan, implementation, review, infra)
       /\ new.monolithic = MonolithicCost(drawn, infra)
  OBVIOUS
<1> HIDE DEF new, plan, implementation, review, infra
<1> QED BY <1>1, <1>8, <1>9, <1>10, <1>11

\* What one more element changes in a log.
LEMMA Appended ==
    ASSUME NEW S, NEW s \in Seq(S), NEW x \in S
    PROVE  /\ Append(s, x) \in Seq(S) /\ Len(Append(s, x)) = Len(s) + 1
           /\ DOMAIN s = 1 .. Len(s) /\ DOMAIN Append(s, x) = 1 .. Len(s) + 1
           /\ Append(s, x)[Len(s) + 1] = x /\ Append(s, x) # <<>>
           /\ \A k \in 1 .. Len(s) : Append(s, x)[k] = s[k]
OBVIOUS

\* The plain run has no cache, and no later task of a run is free of the cache's
\* draws when an earlier one is not.
LEMMA ShiftedIs ==
    /\ \A k : ~Shifted(1, k)
    /\ \A r, k : k \in Nat /\ Shifted(r, k) => Shifted(r, k + 1)
<1>1. \A k : ~Shifted(1, k)
  BY CombosAre DEF Shifted
<1>2. ASSUME NEW r, NEW k \in Nat, Shifted(r, k) PROVE Shifted(r, k + 1)
  <2>1. 1 .. k - 1 \subseteq 1 .. (k + 1) - 1
    OBVIOUS
  <2> QED BY <1>2, <2>1 DEF Shifted
<1> QED BY <1>1, <1>2

\* Another task keeps the invariant.
LEMMA SimulateKeeps ==
    ASSUME BenchInvariant, SimulateTask
    PROVE  BenchInvariant'
<1>0. PICK n \in Nat : n = Len(tasks)
  BY AtTask
<1>k. PICK k \in Nat : k = n + 1
  OBVIOUS
<1>p. PICK p : p = NextKind
  OBVIOUS
<1>1. PICK new \in Task :
         /\ tasks' = Append(tasks, new)
         /\ new.from = gen /\ new.drawn = Tokens[gen, p]
         /\ new.bicameral <= new.monolithic
         /\ ~Combos[Run].cache =>
              /\ new.bicameral = Charge(Combos[Run], gen, p)
              /\ new.plan = PlanCharged(Combos[Run], p, new.drawn.plan)
  BY <1>p, NewTaskIs
<1>2. /\ tasks \in Seq(Task) /\ k \in 1 .. Len(Schedule) /\ Run \in 1 .. 6
      /\ table \in Seq(Seq(Task)) /\ Len(table) \in Nat /\ Len(Schedule) \in Nat
      /\ gen \in States /\ p \in Kinds /\ p = Schedule[k]
  BY <1>0, <1>k, <1>p, AtTask DEF NextKind
<1>3. /\ Len(tasks') = k /\ DOMAIN tasks' = 1 .. k /\ DOMAIN tasks = 1 .. n
      /\ tasks'[k] = new /\ \A j \in 1 .. n : tasks'[j] = tasks[j]
      /\ tasks' \in Seq(Task) /\ tasks' # <<>>
  <2>1. tasks' = Append(tasks, new)
    BY <1>1
  <2> QED BY <1>0, <1>k, <1>2, <2>1, Appended
<1>4. table' = table /\ seed' = seed /\ rh' = rh /\ Run' = Run
  BY DEF SimulateTask, Run
<1>5. 1 .. k = 1 .. n \cup {k} /\ k \in Nat /\ k # 0 /\ k - 1 = n /\ (k + 1) - 1 = k /\ k + 1 # 1
  BY <1>k
<1>6. TypeOK'
  <2>1. gen' \in States
    <3>1. gen' = AfterPod[IF Coin(p) THEN AfterCoin[AfterTokens[gen, p]] ELSE AfterTokens[gen, p], p]
      BY <1>p DEF SimulateTask, NextKind
    <3>2. (IF Coin(p) THEN AfterCoin[AfterTokens[gen, p]] ELSE AfterTokens[gen, p]) \in States
      BY <1>2, DrawsAre
    <3> QED BY <1>2, <3>1, <3>2, DrawsAre
  <2>2. cached' \subseteq Kinds
    <3>1. cached' \subseteq cached \cup {p}
      BY <1>p DEF SimulateTask, NextKind
    <3> QED BY <1>2, <3>1 DEF BenchInvariant, TypeOK
  <2>3. Len(tasks') <= Len(Schedule)
    BY <1>2, <1>3
  <2>4. /\ rh \in PlannerModels /\ seed \in States
        /\ table \in Seq(Seq(Task)) /\ Len(table) <= Len(Combos)
    BY DEF BenchInvariant, TypeOK
  <2> QED BY <1>3, <1>4, <2>1, <2>2, <2>3, <2>4 DEF TypeOK
<1>7. \A j \in DOMAIN First : First'[j] = First[j] /\ j \in DOMAIN First'
  <2>1. CASE table = <<>>
    BY <1>3, <1>4, <1>5, <2>1 DEF First
  <2>2. CASE table # <<>>
    BY <1>4, <2>2 DEF First
  <2> QED BY <2>1, <2>2
<1>8. ~Shifted(Run, k) => k \in DOMAIN First' /\ First'[k].from = gen
  <2> SUFFICES ASSUME ~Shifted(Run, k) PROVE k \in DOMAIN First' /\ First'[k].from = gen
    OBVIOUS
  <2>1. CASE table = <<>>
    BY <1>1, <1>3, <1>4, <1>5, <2>1 DEF First
  <2>2. CASE table # <<>>
    <3>1. 1 \in DOMAIN table /\ table[1] \in Seq(Task) /\ First = table[1] /\ First' = First
      BY <1>2, <1>4, <2>2 DEF First
    <3>2. Len(table[1]) = Len(Schedule)
      BY <3>1 DEF BenchInvariant, LogsFit
    <3>3. k \in DOMAIN First
      BY <1>2, <3>1, <3>2
    <3>4. First[k].from = Began(k)
      BY <3>3 DEF BenchInvariant, Chained
    <3>5. gen = Began(k)
      <4>1. Run <= Len(Combos)
        BY <1>2, CombosAre
      <4> QED BY <1>0, <1>k, <4>1 DEF BenchInvariant, Ahead
    <3> QED BY <3>1, <3>3, <3>4, <3>5
  <2> QED BY <2>1, <2>2
<1>9. LogsFit'
  <2>1. Fits(Run, tasks) /\ Agrees(Run, tasks)
    <3>1. Run <= Len(Combos)
      BY <1>2, CombosAre
    <3> QED BY <3>1 DEF BenchInvariant, LogsFit
  <2>2. \A opts, g, q : Charge(opts, g, q)' = Charge(opts, g, q)
    BY <1>4 DEF Charge, BicameralCost
  <2>3. Fits(Run, tasks)'
    <3> SUFFICES ASSUME NEW j \in 1 .. k
                 PROVE  /\ tasks'[j].drawn = Tokens[tasks'[j].from, Schedule[j]]
                        /\ tasks'[j].bicameral <= tasks'[j].monolithic
                        /\ ~Combos[Run].cache =>
                             /\ tasks'[j].bicameral =
                                  Charge(Combos[Run], tasks'[j].from, Schedule[j])
                             /\ tasks'[j].plan =
                                  PlanCharged(Combos[Run], Schedule[j], tasks'[j].drawn.plan)
      BY <1>3, <1>4, <2>2 DEF Fits
    <3>1. CASE j = k
      BY <1>1, <1>2, <1>3, <3>1
    <3>2. CASE j \in 1 .. n
      BY <1>3, <2>1, <3>2 DEF Fits
    <3> QED BY <1>5, <3>1, <3>2
  <2>4. Agrees(Run, tasks)'
    <3> SUFFICES ASSUME NEW j \in 1 .. k, ~Shifted(Run, j)
                 PROVE  j \in DOMAIN First' /\ tasks'[j].from = First'[j].from
      BY <1>3, <1>4 DEF Agrees, Shifted
    <3>1. CASE j = k
      BY <1>1, <1>3, <1>8, <3>1
    <3>2. CASE j \in 1 .. n
      BY <1>3, <1>7, <2>1, <3>2 DEF Agrees
    <3> QED BY <1>5, <3>1, <3>2
  <2>5. ASSUME NEW r \in DOMAIN table
        PROVE  Len(table[r]) = Len(Schedule) /\ Fits(r, table[r])' /\ Agrees(r, table[r])'
    <3>1. Len(table[r]) = Len(Schedule) /\ Fits(r, table[r]) /\ Agrees(r, table[r])
      BY DEF BenchInvariant, LogsFit
    <3>2. Fits(r, table[r])'
      BY <1>4, <2>2, <3>1 DEF Fits
    <3>3. Agrees(r, table[r])'
      BY <1>4, <1>7, <3>1 DEF Agrees, Shifted
    <3> QED BY <3>1, <3>2, <3>3
  <2>6. Run' <= Len(Combos) /\ Len(Combos) = 6
    BY <1>2, <1>4, CombosAre
  <2>7. \A r \in DOMAIN table' : Len(table'[r]) = Len(Schedule) /\ Fits(r, table[r])' /\ Agrees(r, table[r])'
    BY <1>4, <2>5
  <2>8. ~(Run' > Len(Combos))
    BY <1>2, <1>4, <2>6
  <2> QED BY <2>3, <2>4, <2>7, <2>8 DEF LogsFit
<1>10. Chained'
  <2>1. CASE table = <<>>
    <3>1. gen = Began(k)
      <4>1. Run = 1
        BY <2>1 DEF Run
      <4>2. ~Shifted(Run, k) /\ Run <= Len(Combos)
        BY <1>2, <4>1, ShiftedIs, CombosAre
      <4> QED BY <1>0, <1>k, <4>2 DEF BenchInvariant, Ahead
    <3>2. First' = tasks' /\ First = tasks
      BY <1>4, <2>1 DEF First
    <3> SUFFICES ASSUME NEW j \in 1 .. k PROVE tasks'[j].from = Began(j)'
      BY <1>3, <3>2 DEF Chained
    <3>3. Began(j)' = Began(j)
      <4>1. CASE j = 1
        BY <1>4, <4>1 DEF Began
      <4>2. CASE j # 1
        <5>1. j - 1 \in 1 .. n
          BY <1>5, <1>2, <4>2
        <5>2. First'[j - 1] = First[j - 1]
          BY <1>3, <3>2, <5>1
        <5> QED BY <4>2, <5>2 DEF Began, After
      <4> QED BY <4>1, <4>2
    <3>4. CASE j = k
      BY <1>1, <1>3, <3>1, <3>3, <3>4
    <3>5. CASE j \in 1 .. n
      <4>1. tasks[j].from = Began(j)
        BY <1>3, <3>2, <3>5 DEF BenchInvariant, Chained
      <4> QED BY <1>3, <3>3, <3>5, <4>1
    <3> QED BY <1>5, <3>4, <3>5
  <2>2. CASE table # <<>>
    <3>1. First' = First
      BY <1>4, <2>2 DEF First
    <3>2. \A j : Began(j)' = Began(j)
      BY <1>4, <3>1 DEF Began, After
    <3> QED BY <3>1, <3>2 DEF BenchInvariant, Chained
  <2> QED BY <2>1, <2>2
<1>11. CachedWasSeen'
  <2>1. cached' \subseteq cached \cup {p}
    BY <1>p DEF SimulateTask, NextKind
  <2>2. \A q \in cached : \E j \in 1 .. n : Schedule[j] = q
    BY <1>0 DEF BenchInvariant, CachedWasSeen
  <2>3. \A q \in cached' : \E j \in 1 .. k : Schedule[j] = q
    BY <1>2, <1>5, <2>1, <2>2
  <2> QED BY <1>3, <2>3 DEF CachedWasSeen
<1>12. Ahead'
  <2> SUFFICES ASSUME ~Shifted(Run, k + 1) PROVE gen' = Began(k + 1)'
    BY <1>3, <1>4 DEF Ahead, Shifted
  <2>1. ~Shifted(Run, k)
    BY <1>5, ShiftedIs
  <2>2. ~Coin(p)
    <3> SUFFICES ASSUME Combos[Run].cache, p \in cached PROVE FALSE
      BY DEF Coin, Opts
    <3>1. PICK i \in 1 .. n : Schedule[i] = p
      BY <1>0 DEF BenchInvariant, CachedWasSeen
    <3>2. k \in 1 .. (k + 1) - 1 /\ i \in 1 .. k - 1 /\ Schedule[i] = Schedule[k]
      BY <1>2, <1>5, <3>1
    <3> QED BY <3>2 DEF Shifted
  <2>3. gen' = After(gen, p)
    BY <1>p, <2>2 DEF SimulateTask, NextKind, After
  <2>4. Began(k + 1)' = After(First'[k].from, Schedule[k])
    BY <1>5 DEF Began, After
  <2> QED BY <1>2, <1>8, <2>1, <2>3, <2>4
<1> QED BY <1>6, <1>9, <1>10, <1>11, <1>12 DEF BenchInvariant

--------------------------------------------------------------------------------
(* A run is over.                                                            *)

\* The end of a run, and the new seed, keep the invariant.
LEMMA FinishKeeps ==
    ASSUME BenchInvariant, FinishRun
    PROVE  BenchInvariant'
<1>1. /\ Run <= Len(Combos) /\ Len(tasks) = Len(Schedule)
      /\ table' = Append(table, tasks) /\ tasks' = <<>> /\ cached' = {} /\ gen' = seed
      /\ rh' = rh /\ seed' = seed
  BY DEF FinishRun
<1>2. /\ tasks \in Seq(Task) /\ table \in Seq(Seq(Task)) /\ Len(Schedule) \in Nat
      /\ rh \in PlannerModels /\ seed \in States
  BY ScheduleIs DEF BenchInvariant, TypeOK
<1>3. PICK n \in Nat : n = Len(table)
  BY <1>2
<1>4. PICK run \in Nat : run = n + 1
  OBVIOUS
<1>5. Run = run /\ run \in 1 .. 6
  BY <1>1, <1>3, <1>4, CombosAre DEF Run
<1>6. /\ table' \in Seq(Seq(Task)) /\ Len(table') = run /\ DOMAIN table = 1 .. n
      /\ DOMAIN table' = 1 .. run /\ table'[run] = tasks /\ table' # <<>>
      /\ \A r \in 1 .. n : table'[r] = table[r]
  BY <1>1, <1>2, <1>3, <1>4, Appended
<1>7. 1 .. run = 1 .. n \cup {run}
  BY <1>4
<1>8. Len(tasks') = 0 /\ DOMAIN tasks' = {} /\ tasks' \in Seq(Task)
  BY <1>1
<1>9. TypeOK'
  BY <1>1, <1>2, <1>5, <1>6, <1>8, CombosAre DEF TypeOK
<1>10. First' = First
  <2>1. First' = table'[1]
    BY <1>6 DEF First
  <2>2. CASE table = <<>>
    <3>1. run = 1
      BY <1>3, <1>4, <2>2
    <3> QED BY <1>6, <2>1, <2>2, <3>1 DEF First
  <2>3. CASE table # <<>>
    <3>1. 1 \in 1 .. n
      BY <1>2, <1>3, <2>3
    <3> QED BY <1>6, <2>1, <2>3, <3>1 DEF First
  <2> QED BY <2>2, <2>3
<1>11. \A opts, g, q : Charge(opts, g, q)' = Charge(opts, g, q)
  BY <1>1 DEF Charge, BicameralCost
<1>12. ASSUME NEW r \in 1 .. run
       PROVE  Len(table'[r]) = Len(Schedule) /\ Fits(r, table[r])' /\ Agrees(r, table[r])'
  <2> SUFFICES ASSUME NEW log, log = table'[r]
               PROVE  /\ Len(log) = Len(Schedule) /\ Fits(r, log)
                      /\ \A k \in DOMAIN log :
                           ~Shifted(r, k) => k \in DOMAIN First /\ log[k].from = First[k].from
    BY <1>10, <1>11 DEF Fits, Agrees, Shifted
  <2>1. CASE r = run
    <3>1. Fits(run, tasks) /\ Agrees(run, tasks)
      BY <1>1, <1>5 DEF BenchInvariant, LogsFit
    <3> QED BY <1>1, <1>6, <2>1, <3>1 DEF Agrees
  <2>2. CASE r \in 1 .. n
    <3>1. Len(table[r]) = Len(Schedule) /\ Fits(r, table[r]) /\ Agrees(r, table[r])
      BY <1>6, <2>2 DEF BenchInvariant, LogsFit
    <3> QED BY <1>6, <2>2, <3>1 DEF Agrees
  <2> QED BY <1>7, <2>1, <2>2
<1>13. LogsFit'
  <2>1. Fits(Run, tasks)' /\ Agrees(Run, tasks)'
    BY <1>8 DEF Fits, Agrees
  <2> QED BY <1>1, <1>6, <1>12, <2>1 DEF LogsFit
<1>14. Chained'
  BY <1>1, <1>10 DEF BenchInvariant, Chained, Began, After
<1>15. Ahead' /\ CachedWasSeen'
  BY <1>1, <1>8 DEF Ahead, Began, CachedWasSeen
<1> QED BY <1>9, <1>13, <1>14, <1>15 DEF BenchInvariant

--------------------------------------------------------------------------------
(* The theorems.                                                             *)

\* Every step keeps the invariant.
LEMMA BenchNext == BenchInvariant /\ [Next]_vars => BenchInvariant'
<1> SUFFICES ASSUME BenchInvariant, [Next]_vars PROVE BenchInvariant'
  OBVIOUS
<1>1. CASE SimulateTask
  BY <1>1, SimulateKeeps
<1>2. CASE FinishRun
  BY <1>2, FinishKeeps
<1>3. CASE UNCHANGED vars
  <2>1. /\ rh' = rh /\ seed' = seed /\ table' = table /\ tasks' = tasks
        /\ cached' = cached /\ gen' = gen
    BY <1>3 DEF vars
  <2>2. First' = First /\ Run' = Run
    BY <2>1 DEF First, Run
  <2>3. \A opts, g, q : Charge(opts, g, q)' = Charge(opts, g, q)
    BY <2>1 DEF Charge, BicameralCost
  <2>4. TypeOK' /\ CachedWasSeen'
    BY <2>1 DEF BenchInvariant, TypeOK, CachedWasSeen
  <2>5. LogsFit'
    BY <2>1, <2>2, <2>3 DEF BenchInvariant, LogsFit, Fits, Agrees, Shifted
  <2>6. Chained' /\ Ahead'
    BY <2>1, <2>2 DEF BenchInvariant, Chained, Ahead, Began, After, Shifted
  <2> QED BY <2>4, <2>5, <2>6 DEF BenchInvariant
<1> QED BY <1>1, <1>2, <1>3 DEF Next

\* The inductive invariant of scripts/cost_benchmark.py --matrix: every task starts in the
\* state of the generator that the plain run was in, until the cache has asked, and costs
\* what its draws and optimizations say.
THEOREM BenchInvariantHolds == Spec => []BenchInvariant
BY BenchInit, BenchNext, PTL DEF Spec

\* Every task of the matrix keeps its fields, and there is one run per combination.
THEOREM TypeCorrect == Spec => []TypeOK
<1>1. BenchInvariant => TypeOK
  BY DEF BenchInvariant
<1> QED BY <1>1, BenchInvariantHolds, PTL

\* What the invariant says of every run, the unfinished one included.
LEMMA LogsAre ==
    ASSUME BenchInvariant, NEW r \in DOMAIN Logs
    PROVE  /\ r # Len(Combos) + 1 => Fits(r, Logs[r]) /\ Agrees(r, Logs[r])
           /\ r = Len(Combos) + 1 => Logs[r] = <<>>
           /\ Logs[1] = First
<1>1. tasks \in Seq(Task) /\ table \in Seq(Seq(Task)) /\ Len(table) <= 6 /\ Len(Combos) = 6
  BY CombosAre DEF BenchInvariant, TypeOK
<1>2. Len(table) \in Nat
  BY <1>1
<1>3. /\ DOMAIN Logs = 1 .. Len(table) + 1 /\ Logs[Len(table) + 1] = tasks
      /\ DOMAIN table = 1 .. Len(table) /\ \A i \in 1 .. Len(table) : Logs[i] = table[i]
  BY <1>1, Appended DEF Logs
<1>4. Logs[1] = First
  <2>1. CASE table = <<>>
    BY <1>3, <2>1 DEF First
  <2>2. CASE table # <<>>
    <3>1. 1 \in 1 .. Len(table)
      BY <1>1, <2>2
    <3> QED BY <1>3, <2>2, <3>1 DEF First
  <2> QED BY <2>1, <2>2
<1>5. CASE r = Len(table) + 1
  BY <1>1, <1>2, <1>3, <1>4, <1>5 DEF BenchInvariant, LogsFit, Run
<1>6. CASE r \in 1 .. Len(table)
  BY <1>1, <1>2, <1>3, <1>4, <1>6 DEF BenchInvariant, LogsFit
<1> QED BY <1>2, <1>3, <1>5, <1>6

\* The combinations that scripts/cost_benchmark.py compares are about the same tasks,
\* without the cache always, and with it until a plan is looked for there: whatever
\* the generator, the profiles and the number of days.
THEOREM WorkloadsAgreeHolds == Spec => []WorkloadsAgree
<1>1. BenchInvariant => WorkloadsAgree
  <2> SUFFICES ASSUME BenchInvariant, NEW r \in DOMAIN Logs \cap DOMAIN Combos,
                      NEW k \in DOMAIN Logs[r], ~Shifted(r, k)
               PROVE  k \in DOMAIN Logs[1] /\ Logs[r][k].drawn = Logs[1][k].drawn
    BY DEF WorkloadsAgree
  <2>1. Fits(r, Logs[r]) /\ Agrees(r, Logs[r]) /\ Logs[1] = First
    BY CombosAre, LogsAre
  <2>2. k \in DOMAIN First /\ Logs[r][k].from = First[k].from
    BY <2>1 DEF Agrees
  <2>3. 1 \in DOMAIN Logs /\ 1 # Len(Combos) + 1
    BY CombosAre DEF Logs, BenchInvariant, TypeOK
  <2>4. Fits(1, Logs[1])
    BY <2>3, LogsAre
  <2>5. /\ Logs[r][k].drawn = Tokens[Logs[r][k].from, Schedule[k]]
        /\ First[k].drawn = Tokens[First[k].from, Schedule[k]]
    BY <2>1, <2>2, <2>4 DEF Fits
  <2> QED BY <2>1, <2>2, <2>5
<1> QED BY <1>1, BenchInvariantHolds, PTL

\* No task of scripts/cost_benchmark.py is dearer with a planner and executors than on Opus
\* alone: for any draws, since no planner model is dearer than Opus either way and no
\* optimization charges more tokens than were drawn.
THEOREM NeverDearerThanOpusHolds == Spec => []NeverDearerThanOpus
<1>1. BenchInvariant => NeverDearerThanOpus
  <2> SUFFICES ASSUME BenchInvariant, NEW r \in DOMAIN Logs, NEW k \in DOMAIN Logs[r]
               PROVE  Logs[r][k].bicameral <= Logs[r][k].monolithic
    BY DEF NeverDearerThanOpus
  <2>1. CASE r = Len(Combos) + 1
    BY <2>1, LogsAre
  <2>2. CASE r # Len(Combos) + 1
    BY <2>2, LogsAre DEF Fits
  <2> QED BY <2>1, <2>2
<1> QED BY <1>1, BenchInvariantHolds, PTL

\* Compression, batching and skipped reviews never make a task dearer than it is in the
\* plain run of scripts/cost_benchmark.py, alone or (without the cache) together.
THEOREM OptionsNeverCostMoreHolds == Spec => []OptionsNeverCostMore
<1>1. BenchInvariant => OptionsNeverCostMore
  <2> SUFFICES ASSUME BenchInvariant, NEW r \in DOMAIN Logs \cap DOMAIN Combos,
                      NEW k \in DOMAIN Logs[r], ~Combos[r].cache
               PROVE  Logs[r][k].bicameral <= Logs[1][k].bicameral
    BY DEF OptionsNeverCostMore
  <2>1. Fits(r, Logs[r]) /\ Agrees(r, Logs[r]) /\ Logs[1] = First
    BY CombosAre, LogsAre
  <2>2. k \in DOMAIN First /\ Logs[r][k].from = First[k].from
    BY <2>1 DEF Agrees, Shifted
  <2>3. 1 \in DOMAIN Logs /\ 1 # Len(Combos) + 1
    BY CombosAre DEF Logs, BenchInvariant, TypeOK
  <2>4. Fits(1, Logs[1])
    BY <2>3, LogsAre
  <2>5. /\ Logs[r][k].bicameral = Charge(Combos[r], First[k].from, Schedule[k])
        /\ First[k].bicameral = Charge(Plain, First[k].from, Schedule[k])
    BY <2>1, <2>2, <2>4, CombosAre DEF Fits
  <2>6. First[k].from \in States /\ Schedule[k] \in Kinds /\ rh \in PlannerModels
    <3>1. First \in Seq(Task) /\ Len(First) <= Len(Schedule)
      BY DEF First, BenchInvariant, TypeOK, LogsFit
    <3>2. k \in 1 .. Len(First) /\ Len(First) \in Nat
      BY <2>2, <3>1
    <3>3. First[k] \in Task
      BY <3>1, <3>2
    <3>4. Schedule \in Seq(Kinds) /\ k \in 1 .. Len(Schedule)
      BY <3>1, <3>2, ScheduleIs
    <3>5. Schedule[k] \in Kinds
      BY <3>4
    <3> QED BY <3>3, <3>5 DEF Task, BenchInvariant, TypeOK
  <2>7. Charge(Combos[r], First[k].from, Schedule[k]) <= Charge(Plain, First[k].from, Schedule[k])
    BY <2>6, OptionsChargeLess
  <2> QED BY <2>1, <2>5, <2>7
<1> QED BY <1>1, BenchInvariantHolds, PTL

\* A division by a positive number: within one of the quotient, and monotone.
LEMMA QuotientIs ==
    ASSUME NEW a \in Nat, NEW b \in Nat, NEW n \in Nat, n > 0
    PROVE  /\ a \div n \in Nat /\ n * (a \div n) <= a /\ a < n * (a \div n) + n
           /\ a <= b => a \div n <= b \div n
<1> DEFINE x == a \div n  y == b \div n
<1>1. x \in Int /\ a % n \in 0 .. n - 1 /\ a = n * x + (a % n)
  BY SMT
<1>2. y \in Int /\ b % n \in 0 .. n - 1 /\ b = n * y + (b % n)
  BY SMT
<1>3. x \in Nat
  BY DivisionIsLess
<1>4. n * x <= a /\ a < n * x + n /\ b < n * y + n
  <2> HIDE DEF x, y
  <2> QED BY <1>1, <1>2, <1>3
<1>5. a <= b => x <= y
  <2> SUFFICES ASSUME a <= b, y + 1 <= x PROVE FALSE
    BY <1>1, <1>2
  <2> HIDE DEF x, y
  <2>1. n * (y + 1) <= n * x /\ n * (y + 1) = n * y + n
    BY <1>1, <1>2
  <2> QED BY <1>1, <1>2, <1>4, <2>1
<1> QED BY <1>3, <1>4, <1>5

\* What the tasks of a profile pay for their plans, without cache and compression: each
\* its share of what it drew.
LEMMA SharesAre ==
    ASSUME BenchInvariant, NEW r \in DOMAIN table, NEW p \in Kinds,
           Combos[r].batch, ~Combos[r].cache, BatchCount(p) > 0,
           NEW k \in Places(Schedule, p)
    PROVE  LET task == table[r][k] IN
           /\ task.drawn.plan.input \in Nat
           /\ task.plan.input = task.drawn.plan.input \div BatchCount(p)
<1> DEFINE n == BatchCount(p)
           usage == table[r][k].drawn.plan
<1>1. /\ table \in Seq(Seq(Task)) /\ Len(table) <= 6 /\ Len(table[r]) = Len(Schedule)
      /\ Fits(r, table[r])
  BY CombosAre DEF BenchInvariant, TypeOK, LogsFit
<1>2. r \in 1 .. 6 /\ table[r] \in Seq(Task)
  <2>1. Len(table) \in Nat /\ r \in 1 .. Len(table)
    BY <1>1
  <2>2. r \in 1 .. 6
    BY <1>1, <2>1
  <2> QED BY <1>1, <2>1, <2>2
<1>3. k \in DOMAIN table[r] /\ Schedule[k] = p
  BY <1>1, <1>2, ScheduleIs DEF Places
<1>4. usage \in Usage
  <2>1. table[r][k] \in Task
    BY <1>2, <1>3
  <2> QED BY <2>1 DEF Task
<1>5. table[r][k].plan = PlanCharged(Combos[r], p, usage)
  BY <1>1, <1>3 DEF Fits
<1>6. ~Combos[r].compress
  <2>1. r = 1 \/ r = 2 \/ r = 3 \/ r = 4 \/ r = 5 \/ r = 6
    BY <1>2
  <2> QED BY <2>1 DEF Combos, Flags
<1>7. Prompt(Combos[r], usage) = usage
  BY <1>6 DEF Prompt
<1>8. n \in Nat
  BY ScheduleAssumption DEF BatchCount
<1>9. usage.input \in Nat
  BY <1>4 DEF Usage
<1>10. CASE n > 1
  <2>1. PlanCharged(Combos[r], p, usage) = [input |-> usage.input \div n, output |-> usage.output \div n]
    BY <1>7, <1>10 DEF PlanCharged
  <2> HIDE DEF usage, n
  <2>2. PlanCharged(Combos[r], p, usage).input = usage.input \div n
    BY <2>1
  <2> QED BY <1>5, <1>9, <2>2 DEF usage, n
<1>11. CASE ~(n > 1)
  <2>1. PlanCharged(Combos[r], p, usage) = usage
    BY <1>7, <1>11 DEF PlanCharged
  <2>2. n = 1
    BY <1>8, <1>11
  <2>3. usage.input \div 1 = usage.input
    <3> HIDE DEF usage
    <3> QED BY <1>9
  <2> QED BY <1>5, <1>9, <2>1, <2>2, <2>3
<1> QED BY <1>10, <1>11

\* The tasks of a profile that share a plan in scripts/cost_benchmark.py pay in one run
\* together for one plan: however many they are, and on however many days.
THEOREM BatchPaysForOnePlanHolds == Spec => []BatchPaysForOnePlan
<1>1. ASSUME BenchInvariant PROVE BatchPaysForOnePlan
  <2> SUFFICES ASSUME NEW r \in DOMAIN table, NEW p \in Kinds,
                      Combos[r].batch, ~Combos[r].cache, Places(Schedule, p) # {}
               PROVE  LET members == Places(Schedule, p)
                          paid == SumFunction([k \in members |-> table[r][k].plan.input])
                          drawn == {table[r][k].drawn.plan.input : k \in members}
                      IN  Min(drawn) < paid + Cardinality(members) /\ paid <= Max(drawn)
    BY DEF BatchPaysForOnePlan, Places
  <2> DEFINE n == BatchCount(p)
             members == Places(Schedule, p)
             share == [k \in members |-> table[r][k].plan.input]
             paid == SumFunction(share)
             drawn == {table[r][k].drawn.plan.input : k \in members}
             low == Min(drawn) \div n
             high == Max(drawn) \div n
  <2>1. IsFiniteSet(members) /\ Cardinality(members) = n /\ n \in Nat /\ n > 0
    <3>1. IsFiniteSet(members) /\ Cardinality(members) = n
      BY ScheduleIs
    <3>2. Cardinality(members) \in Nat /\ Cardinality(members) # 0
      <4> HIDE DEF n
      <4> QED BY <3>1, FS_EmptySet, FS_CardinalityType
    <3> HIDE DEF members, n
    <3> QED BY <3>1, <3>2
  <2>2. \A k \in members : /\ table[r][k].drawn.plan.input \in Nat
                           /\ share[k] = table[r][k].drawn.plan.input \div n
    BY <1>1, <2>1, SharesAre
  <2>3. drawn \in SUBSET Nat /\ IsFiniteSet(drawn) /\ drawn # {}
    <3>1. drawn \in SUBSET Nat
      BY <2>2
    <3>2. members # {}
      BY <2>1, FS_EmptySet
    <3>3. IsFiniteSet(drawn)
      <4> DEFINE draw == [k \in members |-> table[r][k].drawn.plan.input]
      <4>1. draw \in Surjection(members, drawn)
        BY Zenon DEF Surjection
      <4> HIDE DEF draw, members, drawn
      <4> QED BY <2>1, <4>1, FS_Surjection
    <3> QED BY <3>1, <3>2, <3>3
  <2>4. /\ Min(drawn) \in Nat /\ Max(drawn) \in Nat
        /\ \A d \in drawn : Min(drawn) <= d /\ d <= Max(drawn)
    <3> HIDE DEF drawn
    <3> QED BY <2>3, ExtremesAre
  <2>5. /\ low \in Nat /\ high \in Nat
        /\ Min(drawn) < n * low + n /\ n * high <= Max(drawn)
    <3> HIDE DEF n, drawn
    <3> QED BY <2>1, <2>4, QuotientIs
  <2>6. ASSUME NEW k \in members
        PROVE  share[k] \in Nat /\ low <= share[k] /\ share[k] <= high
    <3> DEFINE d == table[r][k].drawn.plan.input
    <3>1. d \in Nat /\ share[k] = d \div n /\ Min(drawn) <= d /\ d <= Max(drawn)
      BY <2>2, <2>4
    <3> HIDE DEF d, share, n, drawn
    <3> QED BY <2>1, <2>4, <3>1, QuotientIs
  <2>7. share \in [members -> Nat]
    BY <2>6
  <2>8. n * low <= paid /\ paid <= n * high
    <3> HIDE DEF share, low, high, members, n
    <3> QED BY <2>1, <2>5, <2>6, <2>7, SumIsBounded
  <2>9. n * low \in Nat /\ n * high \in Nat /\ paid \in Int
    <3> HIDE DEF share, low, high, members, n
    <3> QED BY <2>1, <2>5, <2>7, SumIsNat
  <2> HIDE DEF n, low, high, paid, drawn
  <2>10. Min(drawn) < paid + n /\ paid <= Max(drawn)
    BY <2>1, <2>4, <2>5, <2>8, <2>9
  <2> QED BY <2>1, <2>10 DEF paid, drawn
<1> QED BY <1>1, BenchInvariantHolds, PTL
================================================================================
