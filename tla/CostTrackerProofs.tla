--------------------------- MODULE CostTrackerProofs ---------------------------
(***************************************************************************)
(* Proofs about CostTracker, for any intents, usages and timers and any    *)
(* number of phases, seconds, failures and restarts; and the lemmas about  *)
(* sums that they need.                                                    *)
(***************************************************************************)
EXTENDS CostTracker, FiniteSetTheorems, SequenceTheorems, TLAPS

--------------------------------------------------------------------------------
(* Sums.  SumFunction is a fold in an order that is not specified.  What it  *)
(* computes is the number of cells of a bar chart, which has no order.       *)

Pick(s) == CHOOSE x \in s : TRUE

AddsUp(f, it) ==
    it = [s \in SUBSET DOMAIN f |-> IF s = {} THEN 0 ELSE f[Pick(s)] + it[s \ {Pick(s)}]]

\* One cell for each unit of each value at the points in s.
Bar(f, x) == {x} \X (1 .. f[x])

Cells(f, s) == UNION {Bar(f, x) : x \in s}

\* The sum is the last value of some function that adds up point by point.
LEMMA SumIsAnyThatAddsUp ==
    ASSUME NEW f, \E it : AddsUp(f, it)
    PROVE  \E it : AddsUp(f, it) /\ SumFunction(f) = it[DOMAIN f]
<1>1. SumFunction(f) = (CHOOSE it : AddsUp(f, it))[DOMAIN f]
  BY Zenon DEF SumFunction, SumFunctionOnSet, FoldFunctionOnSet, MapThenFoldSet, AddsUp, Pick
<1> QED BY <1>1, Zenon

\* The bar of a point has as many cells as the value there.
LEMMA BarIsFinite ==
    ASSUME NEW S, NEW f \in [S -> Nat], NEW x \in S
    PROVE  IsFiniteSet(Bar(f, x)) /\ Cardinality(Bar(f, x)) = f[x]
<1>1. f[x] \in Nat /\ 1 \in Int
  OBVIOUS
<1>2. IsFiniteSet(1 .. f[x]) /\ Cardinality(1 .. f[x]) = f[x]
  BY <1>1, FS_Interval, SMT
<1>3. IsFiniteSet({x}) /\ Cardinality({x}) = 1
  BY FS_Singleton
<1>4. IsFiniteSet(Bar(f, x)) /\ Cardinality(Bar(f, x)) = 1 * f[x]
  BY <1>2, <1>3, FS_Product DEF Bar
<1> QED BY <1>1, <1>4

\* The cells under a function on a finite set can be counted.
LEMMA CellsAreFinite ==
    ASSUME NEW S, IsFiniteSet(S), NEW f \in [S -> Nat], NEW s \in SUBSET S
    PROVE  IsFiniteSet(Cells(f, s)) /\ Cardinality(Cells(f, s)) \in Nat
<1> DEFINE bars == {Bar(f, x) : x \in s}
           bar == [x \in s |-> Bar(f, x)]
<1>1. IsFiniteSet(s)
  BY FS_Subset
<1>2. bar \in Surjection(s, bars)
  BY Zenon DEF Surjection
<1>3. IsFiniteSet(bars)
  BY <1>1, <1>2, FS_Surjection
<1>4. \A b \in bars : IsFiniteSet(b)
  BY BarIsFinite
<1>5. IsFiniteSet(UNION bars)
  <2> HIDE DEF bars
  <2> QED BY <1>3, <1>4, FS_UNION
<1> QED BY <1>5, FS_CardinalityType DEF Cells

\* Without one of its points a set has that point's value of cells less.
LEMMA CellsAddUp ==
    ASSUME NEW S, IsFiniteSet(S), NEW f \in [S -> Nat], NEW s \in SUBSET S, NEW x \in s
    PROVE  Cardinality(Cells(f, s)) = f[x] + Cardinality(Cells(f, s \ {x}))
<1> DEFINE rest == s \ {x}
<1>1. Cells(f, s) = Bar(f, x) \cup Cells(f, rest)
  BY DEF Cells
<1>2. Bar(f, x) \cap Cells(f, rest) = {}
  BY DEF Cells, Bar
<1>3. /\ IsFiniteSet(Cells(f, rest)) /\ Cardinality(Cells(f, rest)) \in Nat
      /\ IsFiniteSet(Bar(f, x)) /\ Cardinality(Bar(f, x)) = f[x] /\ f[x] \in Nat
  BY CellsAreFinite, BarIsFinite
<1>4. Cardinality(Bar(f, x) \cup Cells(f, rest))
        = Cardinality(Bar(f, x)) + Cardinality(Cells(f, rest))
            - Cardinality(Bar(f, x) \cap Cells(f, rest))
  BY <1>3, FS_Union, Zenon
<1>5. Cardinality(Cells(f, s)) = f[x] + Cardinality(Cells(f, rest)) - Cardinality({})
  BY <1>1, <1>2, <1>3, <1>4, Zenon
<1> HIDE DEF rest
<1>6. Cardinality(Cells(f, s)) = f[x] + Cardinality(Cells(f, rest))
  BY <1>3, <1>5, FS_EmptySet
<1> QED BY <1>6 DEF rest

\* A sum counts cells. The count adds up, and so does the sum; among the finite subsets
\* where they differed there would be a smallest, which its picked point contradicts.
LEMMA SumIsCells ==
    ASSUME NEW S, IsFiniteSet(S), NEW f \in [S -> Nat]
    PROVE  SumFunction(f) = Cardinality(Cells(f, S))
<1> DEFINE count == [s \in SUBSET S |-> Cardinality(Cells(f, s))]
<1>0. DOMAIN f = S /\ Cells(f, {}) = {}
  BY DEF Cells
<1>1. AddsUp(f, count)
  <2> SUFFICES ASSUME NEW s \in SUBSET S
               PROVE  count[s] = IF s = {} THEN 0 ELSE f[Pick(s)] + count[s \ {Pick(s)}]
    BY <1>0, Zenon DEF AddsUp
  <2>1. CASE s = {}
    BY <1>0, <2>1, FS_EmptySet
  <2>2. CASE s # {}
    <3>1. Pick(s) \in s
      BY <2>2 DEF Pick
    <3>2. s \ {Pick(s)} \in SUBSET S
      OBVIOUS
    <3> QED BY <2>2, <3>1, <3>2, CellsAddUp
  <2> QED BY <2>1, <2>2
<1>2. PICK it : AddsUp(f, it) /\ SumFunction(f) = it[DOMAIN f]
  BY <1>1, SumIsAnyThatAddsUp
<1> DEFINE wrong == {s \in SUBSET S : it[s] # count[s]}
<1>3. wrong = {}
  <2> SUFFICES ASSUME wrong # {} PROVE FALSE
    OBVIOUS
  <2>1. IsWellFoundedOn(StrictSubsetOrdering(S), SUBSET S)
    BY FS_StrictSubsetOrderingWellFounded, FS_FiniteSubsetsOfFinite
  <2>2. PICK s \in wrong : \A t \in wrong : <<t, s>> \notin StrictSubsetOrdering(S)
    <3> wrong \subseteq SUBSET S
      OBVIOUS
    <3> HIDE DEF wrong
    <3> QED BY <2>1, WFMin
  <2>3. s \in SUBSET S /\ it[s] # count[s]
    OBVIOUS
  <2>4. it[s] = IF s = {} THEN 0 ELSE f[Pick(s)] + it[s \ {Pick(s)}]
    BY <1>0, <1>2, <2>3 DEF AddsUp
  <2>5. count[s] = IF s = {} THEN 0 ELSE f[Pick(s)] + count[s \ {Pick(s)}]
    BY <1>0, <1>1, <2>3 DEF AddsUp
  <2>6. s # {} /\ s \ {Pick(s)} \in wrong
    BY <2>3, <2>4, <2>5
  <2>7. Pick(s) \in s
    BY <2>6 DEF Pick
  <2> DEFINE rest == s \ {Pick(s)}
  <2>8. rest \in SUBSET S /\ rest \subseteq s /\ rest # s
    BY <2>3, <2>7
  <2>9. <<rest, s>> \in StrictSubsetOrdering(S)
    <3> HIDE DEF rest, wrong
    <3> QED BY <2>3, <2>8 DEF StrictSubsetOrdering
  <2> QED BY <2>2, <2>6, <2>9
<1> QED BY <1>0, <1>2, <1>3

\* A sum of numbers is a number.
LEMMA SumIsNat ==
    ASSUME NEW S, IsFiniteSet(S), NEW f \in [S -> Nat]
    PROVE  SumFunction(f) \in Nat
BY SumIsCells, CellsAreFinite

\* A sum grows with its values, and with the points it is taken over.
LEMMA SumIsMonotone ==
    ASSUME NEW S, IsFiniteSet(S), NEW T \in SUBSET S,
           NEW f \in [T -> Nat], NEW g \in [S -> Nat], \A x \in T : f[x] <= g[x]
    PROVE  SumFunction(f) <= SumFunction(g)
<1>1. IsFiniteSet(T) /\ T \subseteq S
  BY FS_Subset
<1>2. Cells(f, T) \subseteq Cells(g, S)
  <2> SUFFICES ASSUME NEW x \in T PROVE Bar(f, x) \subseteq Bar(g, x)
    BY <1>1 DEF Cells
  <2>1. f[x] \in Nat /\ g[x] \in Nat /\ f[x] <= g[x]
    OBVIOUS
  <2>2. 1 .. f[x] \subseteq 1 .. g[x]
    BY <2>1
  <2> QED BY <2>2 DEF Bar
<1>3. IsFiniteSet(Cells(g, S)) /\ S \in SUBSET S
  BY CellsAreFinite
<1>4. Cardinality(Cells(f, T)) <= Cardinality(Cells(g, S))
  BY <1>2, <1>3, FS_Subset
<1> QED BY <1>1, <1>4, SumIsCells

\* A sum does not depend on what its points are.
LEMMA SumOverBijection ==
    ASSUME NEW S, IsFiniteSet(S), NEW T, NEW b \in Bijection(S, T),
           NEW f \in [S -> Nat], NEW g \in [T -> Nat], \A x \in S : f[x] = g[b[x]]
    PROVE  SumFunction(f) = SumFunction(g)
<1> DEFINE move == [c \in Cells(f, S) |-> <<b[c[1]], c[2]>>]
<1>1. IsFiniteSet(T)
  BY FS_Bijection DEF ExistsBijection
<1>2. /\ b \in [S -> T] /\ \A x, y \in S : b[x] = b[y] => x = y
      /\ \A t \in T : \E x \in S : b[x] = t
  BY DEF Bijection, Injection, Surjection, IsInjective
<1>3. \A c : c \in Cells(f, S) <=> \E x \in S : \E k \in 1 .. f[x] : c = <<x, k>>
  BY DEF Cells, Bar
<1>4. \A c : c \in Cells(g, T) <=> \E t \in T : \E k \in 1 .. g[t] : c = <<t, k>>
  BY DEF Cells, Bar
<1>5. move \in [Cells(f, S) -> Cells(g, T)]
  BY <1>2, <1>3, <1>4
<1>6. \A c, d \in Cells(f, S) : move[c] = move[d] => c = d
  BY <1>2, <1>3
<1>7. \A d \in Cells(g, T) : \E c \in Cells(f, S) : move[c] = d
  <2> SUFFICES ASSUME NEW d, NEW t \in T, NEW k \in 1 .. g[t], d = <<t, k>>
               PROVE  \E c \in Cells(f, S) : move[c] = d
    <3> HIDE DEF move
    <3> QED BY <1>4
  <2>1. PICK x \in S : b[x] = t
    BY <1>2
  <2>2. <<x, k>> \in Cells(f, S)
    BY <1>3, <2>1
  <2>3. move[<<x, k>>] = <<t, k>>
    BY <2>1, <2>2
  <2> QED BY <2>2, <2>3
<1>8. ExistsBijection(Cells(f, S), Cells(g, T))
  <2> HIDE DEF move
  <2> QED BY <1>5, <1>6, <1>7 DEF ExistsBijection, Bijection, Injection, Surjection, IsInjective
<1>9. Cardinality(Cells(f, S)) = Cardinality(Cells(g, T))
  BY <1>8, CellsAreFinite, FS_Bijection
<1> QED BY <1>1, <1>9, SumIsCells

\* A sum lies between its number of points times the least and the largest value.
LEMMA SumIsBounded ==
    ASSUME NEW S, IsFiniteSet(S), NEW f \in [S -> Nat], NEW low \in Nat, NEW high \in Nat,
           \A x \in S : low <= f[x] /\ f[x] <= high
    PROVE  /\ Cardinality(S) * low <= SumFunction(f)
           /\ SumFunction(f) <= Cardinality(S) * high
<1>1. IsFiniteSet(Cells(f, S)) /\ SumFunction(f) = Cardinality(Cells(f, S))
  BY CellsAreFinite, SumIsCells
<1>2. \A c : c \in Cells(f, S) <=> \E x \in S : \E k \in 1 .. f[x] : c = <<x, k>>
  BY DEF Cells, Bar
<1>3. ASSUME NEW n \in Nat
      PROVE  IsFiniteSet(S \X (1 .. n)) /\ Cardinality(S \X (1 .. n)) = Cardinality(S) * n
  <2>1. IsFiniteSet(1 .. n) /\ Cardinality(1 .. n) = n
    BY FS_Interval, SMT
  <2> QED BY <2>1, FS_Product
<1>4. S \X (1 .. low) \subseteq Cells(f, S)
  <2> SUFFICES ASSUME NEW x \in S, NEW k \in 1 .. low PROVE k \in 1 .. f[x]
    BY <1>2
  <2>1. f[x] \in Nat /\ low <= f[x]
    OBVIOUS
  <2> QED BY <2>1
<1>5. Cells(f, S) \subseteq S \X (1 .. high)
  <2> SUFFICES ASSUME NEW x \in S, NEW k \in 1 .. f[x] PROVE k \in 1 .. high
    BY <1>2
  <2>1. f[x] \in Nat /\ f[x] <= high
    OBVIOUS
  <2> QED BY <2>1
<1>6. Cardinality(S \X (1 .. low)) <= Cardinality(Cells(f, S))
  BY <1>1, <1>4, FS_Subset
<1>7. Cardinality(Cells(f, S)) <= Cardinality(S \X (1 .. high))
  BY <1>3, <1>5, FS_Subset
<1> QED BY <1>1, <1>3, <1>6, <1>7

--------------------------------------------------------------------------------
(* Phases.                                                                   *)

\* A model's price is one of the catalog's, so not above that of Opus.
LEMMA PriceIsBounded ==
    ASSUME NEW model
    PROVE  /\ PriceOf(model).input \in 0 .. 500
           /\ PriceOf(model).output \in 0 .. 2500
<1>1. PriceOf(model) \in Catalog
  BY DEF PriceOf, Catalog
<1> QED
  BY <1>1 DEF Catalog, Opus, Flash, Price

\* A phase costs a number, and not more than its tokens on Opus.
LEMMA PhaseCost ==
    ASSUME NEW model, NEW usage \in Usage
    PROVE  LET cost == UsageCost(PriceOf(model), usage) IN
             cost \in Nat /\ cost <= usage.input * 500 + usage.output * 2500
<1> DEFINE a == PriceOf(model).input
           b == PriceOf(model).output
           cost == UsageCost(PriceOf(model), usage)
<1>1. a \in 0 .. 500 /\ b \in 0 .. 2500
  BY PriceIsBounded
<1>2. usage.input \in Nat /\ usage.output \in Nat
  BY DEF Usage
<1>3. cost = usage.input * a + usage.output * b
  BY DEF UsageCost, Cost
<1> HIDE DEF a, b, cost
<1>4. ASSUME NEW n \in Nat, NEW p \in Nat, NEW q \in Nat, p <= q
      PROVE  n * p \in Nat /\ n * q \in Nat /\ n * p <= n * q
  BY <1>4
<1>5. /\ usage.input * a \in Nat /\ usage.input * a <= usage.input * 500
      /\ usage.output * b \in Nat /\ usage.output * b <= usage.output * 2500
      /\ usage.input * 500 \in Nat /\ usage.output * 2500 \in Nat
  <2>1. a \in Nat /\ b \in Nat /\ a <= 500 /\ b <= 2500 /\ 500 \in Nat /\ 2500 \in Nat
    BY <1>1
  <2>2. usage.input * a \in Nat /\ usage.input * 500 \in Nat /\ usage.input * a <= usage.input * 500
    BY <1>2, <1>4, <2>1
  <2>3. usage.output * b \in Nat /\ usage.output * 2500 \in Nat /\ usage.output * b <= usage.output * 2500
    BY <1>2, <1>4, <2>1
  <2> QED BY <2>2, <2>3
<1>6. ASSUME NEW m \in Nat, NEW n \in Nat, NEW p \in Nat, NEW q \in Nat, m <= p, n <= q
      PROVE  m + n \in Nat /\ m + n <= p + q
  BY <1>6
<1>7. cost \in Nat /\ cost <= usage.input * 500 + usage.output * 2500
  BY <1>3, <1>5, <1>6
<1> QED BY <1>7 DEF cost

\* What a phase adds.
LEMMA AddedIs ==
    ASSUME NEW sum \in Amounts, NEW model, NEW usage \in Usage
    PROVE  LET added == Added(sum, model, usage) IN
           /\ added \in Amounts
           /\ sum.input <= added.input /\ sum.output <= added.output
           /\ sum.price <= Cost(Opus, sum.input, sum.output)
                => added.price <= Cost(Opus, added.input, added.output)
<1> DEFINE cost == UsageCost(PriceOf(model), usage)
           added == Added(sum, model, usage)
<1>1. cost \in Nat /\ cost <= usage.input * 500 + usage.output * 2500
  BY PhaseCost
<1>2. added = [input |-> sum.input + usage.input, output |-> sum.output + usage.output,
               price |-> sum.price + cost]
  BY DEF Added
<1>3. /\ sum.input \in Nat /\ sum.output \in Nat /\ sum.price \in Nat
      /\ usage.input \in Nat /\ usage.output \in Nat
  BY DEF Amounts, Usage
<1> HIDE DEF cost, added
<1>4. \A i, o : Cost(Opus, i, o) = i * 500 + o * 2500
  BY DEF Cost, Opus, Price
<1> QED BY <1>1, <1>2, <1>3, <1>4 DEF added, Amounts

--------------------------------------------------------------------------------
(* Records.                                                                  *)

TaskRecord == [intent : Intents, sum : Amounts, infra : Charges]

\* A record that is stored takes the place of the one of its intent, or is the last.
LEMMA StoreIs ==
    ASSUME TypeOK, OneRecordPerIntent,
           NEW i \in Intents, NEW record \in TaskRecord, record.intent = i,
           Store(i, record)
    PROVE  /\ records' \in Seq(TaskRecord)
           /\ DOMAIN records \subseteq DOMAIN records'
           /\ \E k \in DOMAIN records' :
                /\ records'[k] = record
                /\ k \in DOMAIN records => records[k].intent = i
                /\ \A n \in DOMAIN records' \ {k} :
                     n \in DOMAIN records /\ records'[n] = records[n] /\ records[n].intent # i
<1>1. records \in Seq(TaskRecord)
  BY DEF TypeOK, TaskRecord
<1>2. CASE Has(i)
  <2> DEFINE k == Position(i)
  <2>1. k \in DOMAIN records /\ records[k].intent = i
    <3>1. PICK n \in DOMAIN records : records[n].intent = i
      BY <1>2 DEF Has, Matches
    <3>2. \A m \in DOMAIN records : records[m].intent = i => n <= m
      <4> n \in Nat
        BY <1>1
      <4> QED BY <3>1 DEF OneRecordPerIntent
    <3> QED BY <3>1, <3>2, Zenon DEF Position, Matches
  <2> HIDE DEF k
  <2>2. records' = [records EXCEPT ![k] = record]
    BY <1>2 DEF Store, k
  <2>3. DOMAIN records' = DOMAIN records /\ records' \in Seq(TaskRecord)
    BY <1>1, <2>1, <2>2
  <2>4. records'[k] = record /\ \A n \in DOMAIN records \ {k} : records'[n] = records[n]
    BY <2>1, <2>2
  <2> QED BY <2>1, <2>3, <2>4 DEF OneRecordPerIntent
<1>3. CASE ~Has(i)
  <2> DEFINE k == Len(records) + 1
  <2>1. records' = Append(records, record)
    BY <1>3 DEF Store
  <2>2. /\ records' \in Seq(TaskRecord) /\ DOMAIN records' = DOMAIN records \cup {k}
        /\ k \notin DOMAIN records /\ records'[k] = record
        /\ \A n \in DOMAIN records : records'[n] = records[n]
    BY <1>1, <2>1
  <2>3. \A n \in DOMAIN records : records[n].intent # i
    BY <1>3 DEF Has, Matches
  <2> QED BY <2>2, <2>3
<1> QED BY <1>2, <1>3

\* The record of an intent, there or new, says what the ledger says.
LEMMA RecordIs ==
    ASSUME LedgerInvariant, NEW i \in Intents
    PROVE  Record(i) = [intent |-> i, sum |-> spent[i], infra |-> charged[i]]
<1>1. records \in Seq(TaskRecord)
  BY DEF LedgerInvariant, TypeOK, TaskRecord
<1>2. CASE Has(i)
  <2>1. PICK n \in DOMAIN records : records[n].intent = i
    BY <1>2 DEF Has, Matches
  <2>2. \A m \in DOMAIN records : records[m].intent = i => n <= m
    <3> n \in Nat
      BY <1>1
    <3> QED BY <2>1 DEF LedgerInvariant, OneRecordPerIntent
  <2>3. /\ Position(i) \in DOMAIN records
        /\ records[Position(i)].intent = i
    BY <2>1, <2>2, Zenon DEF Position, Matches
  <2> QED
    BY <1>2, <2>3 DEF Record, LedgerInvariant, RecordsMatchLedger
<1>3. CASE ~Has(i)
  <2>1. i \notin touched
    BY <1>3 DEF Has, Matches, LedgerInvariant, RecordedIsTouched
  <2> QED
    BY <1>3, <2>1 DEF Record, NewRecord, LedgerInvariant,
       RecordedIsTouched
<1> QED BY <1>2, <1>3

--------------------------------------------------------------------------------
(* Reports.                                                                  *)

\* A record costs a number.
LEMMA RecordCosts ==
    ASSUME PodRate \in Nat, NEW record \in TaskRecord
    PROVE  /\ record.sum.input \in Nat /\ record.sum.output \in Nat
           /\ InfraCost(record.infra) \in Nat
           /\ Bicameral(record) = record.sum.price + InfraCost(record.infra)
           /\ Bicameral(record) \in Nat /\ Monolithic(record) \in Nat
<1>1. record.sum \in Amounts /\ record.infra \in Charges
  BY DEF TaskRecord
<1>2. /\ record.sum.input \in Nat /\ record.sum.output \in Nat /\ record.sum.price \in Nat
      /\ record.infra.pod \in Nat /\ record.infra.vertex \in Nat
  BY <1>1 DEF Amounts, Charges
<1>3. \A p, q \in Nat : p * q \in Nat
  OBVIOUS
<1>4. InfraCost(record.infra) \in Nat
  BY <1>2, <1>3 DEF InfraCost
<1>5. Cost(Opus, record.sum.input, record.sum.output) \in Nat
  BY <1>2, <1>3 DEF Cost, Opus, Price
<1> QED BY <1>2, <1>4, <1>5 DEF Bicameral, Monolithic

\* A report has the number of records and the sums over them.
LEMMA ReportIs ==
    PodRate \in Nat /\ records \in Seq(TaskRecord) =>
        /\ restarts \in Nat => Report \in File
        /\ Report.process = restarts /\ Report.tasks = Len(records)
        /\ Report.input = SumFunction([n \in DOMAIN records |-> records[n].sum.input])
        /\ Report.output = SumFunction([n \in DOMAIN records |-> records[n].sum.output])
        /\ Report.bicameral =
             SumFunction([n \in DOMAIN records |-> Bicameral(records[n])])
<1> SUFFICES ASSUME PodRate \in Nat, records \in Seq(TaskRecord)
             PROVE  /\ restarts \in Nat => Report \in File
                    /\ Report.process = restarts /\ Report.tasks = Len(records)
                    /\ Report.input =
                         SumFunction([n \in DOMAIN records |-> records[n].sum.input])
                    /\ Report.output =
                         SumFunction([n \in DOMAIN records |-> records[n].sum.output])
                    /\ Report.bicameral =
                         SumFunction([n \in DOMAIN records |-> Bicameral(records[n])])
  OBVIOUS
<1> DEFINE input == [n \in DOMAIN records |-> records[n].sum.input]
           output == [n \in DOMAIN records |-> records[n].sum.output]
           bicameral == [n \in DOMAIN records |-> Bicameral(records[n])]
           monolithic == [n \in DOMAIN records |-> Monolithic(records[n])]
<1>1. Report =
        [process |-> restarts, tasks |-> Len(records), input |-> SumFunction(input),
         output |-> SumFunction(output), bicameral |-> SumFunction(bicameral),
         monolithic |-> SumFunction(monolithic)]
  BY Zenon DEF Report, Total
<1>2. \A n \in DOMAIN records : records[n] \in TaskRecord
  OBVIOUS
<1>3. IsFiniteSet(DOMAIN records) /\ Len(records) \in Nat
  BY FS_Interval
<1>4. /\ input \in [DOMAIN records -> Nat] /\ output \in [DOMAIN records -> Nat]
      /\ bicameral \in [DOMAIN records -> Nat] /\ monolithic \in [DOMAIN records -> Nat]
  BY <1>2, RecordCosts
<1> HIDE DEF input, output, bicameral, monolithic
<1>5. /\ SumFunction(input) \in Nat /\ SumFunction(output) \in Nat
      /\ SumFunction(bicameral) \in Nat /\ SumFunction(monolithic) \in Nat
  BY <1>3, <1>4, SumIsNat
<1> QED BY <1>1, <1>3, <1>5 DEF input, output, bicameral, File

\* A report never loses a task or a token while records are stored.
LEMMA ReportGrows ==
    ASSUME PodRate \in Nat, records \in Seq(TaskRecord), records' \in Seq(TaskRecord),
           DOMAIN records \subseteq DOMAIN records',
           \A n \in DOMAIN records : /\ records[n].sum.input <= records'[n].sum.input
                                     /\ records[n].sum.output <= records'[n].sum.output
    PROVE  Covers(Report', Report)
<1> DEFINE input == [n \in DOMAIN records |-> records[n].sum.input]
           output == [n \in DOMAIN records |-> records[n].sum.output]
<1>1. /\ Report.tasks = Len(records)
      /\ Report.input = SumFunction(input) /\ Report.output = SumFunction(output)
  BY ReportIs
<1>2. (PodRate \in Nat /\ records \in Seq(TaskRecord) =>
        /\ Report.tasks = Len(records)
        /\ Report.input = SumFunction(input)
        /\ Report.output = SumFunction(output))'
  BY ReportIs, PTL
<1>3. /\ IsFiniteSet(DOMAIN records') /\ Len(records) \in Nat /\ Len(records') \in Nat
      /\ DOMAIN records = 1 .. Len(records) /\ DOMAIN records' = 1 .. Len(records')
  BY FS_Interval
<1>4. /\ \A n \in DOMAIN records : records[n] \in TaskRecord
      /\ \A n \in DOMAIN records' : records'[n] \in TaskRecord
  OBVIOUS
<1>5. /\ input \in [DOMAIN records -> Nat] /\ output \in [DOMAIN records -> Nat]
      /\ input' \in [DOMAIN records' -> Nat] /\ output' \in [DOMAIN records' -> Nat]
  BY <1>4, RecordCosts
<1>6. \A n \in DOMAIN records : input[n] <= input'[n] /\ output[n] <= output'[n]
  OBVIOUS
<1> HIDE DEF input, output
<1>7. SumFunction(input) <= SumFunction(input') /\ SumFunction(output) <= SumFunction(output')
  BY <1>3, <1>5, <1>6, SumIsMonotone
<1>8. Len(records) <= Len(records')
  BY <1>3
<1>9. /\ SumFunction(input) \in Nat /\ SumFunction(input') \in Nat
      /\ SumFunction(output) \in Nat /\ SumFunction(output') \in Nat
  <2>1. IsFiniteSet(DOMAIN records)
    BY <1>3, FS_Subset
  <2> QED BY <1>3, <1>5, <2>1, SumIsNat
<1> HIDE DEF Report
<1> QED BY <1>1, <1>2, <1>3, <1>7, <1>8, <1>9 DEF Covers

\* What storing a record keeps of the invariant, when the ledger is kept in step.
LEMMA StoreKeeps ==
    ASSUME PodRate \in Nat, LedgerInvariant,
           NEW i \in Intents, NEW sum \in Amounts, NEW infra \in Charges,
           spent[i].input <= sum.input, spent[i].output <= sum.output,
           sum.price <= Cost(Opus, sum.input, sum.output),
           Store(i, [intent |-> i, sum |-> sum, infra |-> infra]),
           spent' = [spent EXCEPT ![i] = sum], charged' = [charged EXCEPT ![i] = infra],
           touched' = touched \cup {i}, files' = files, restarts' = restarts
    PROVE  /\ records' \in Seq(TaskRecord) /\ touched' \subseteq Intents
           /\ spent' \in [Intents -> Amounts] /\ charged' \in [Intents -> Charges]
           /\ OneRecordPerIntent' /\ RecordsMatchLedger'
           /\ RecordedIsTouched' /\ PhasesNeverDearer'
           /\ FilesAreCovered'
<1> DEFINE record == [intent |-> i, sum |-> sum, infra |-> infra]
<1>1. record \in TaskRecord /\ record.intent = i
  BY DEF TaskRecord
<1>2. /\ records \in Seq(TaskRecord) /\ touched \subseteq Intents
      /\ spent \in [Intents -> Amounts] /\ charged \in [Intents -> Charges]
      /\ TypeOK /\ OneRecordPerIntent /\ RecordsMatchLedger
      /\ RecordedIsTouched /\ PhasesNeverDearer /\ FilesAreCovered
  BY DEF LedgerInvariant, TypeOK, TaskRecord
<1>3. /\ records' \in Seq(TaskRecord) /\ DOMAIN records \subseteq DOMAIN records'
      /\ \E k \in DOMAIN records' :
           /\ records'[k] = record
           /\ k \in DOMAIN records => records[k].intent = i
           /\ \A n \in DOMAIN records' \ {k} :
                n \in DOMAIN records /\ records'[n] = records[n] /\ records[n].intent # i
  <2> HIDE DEF record
  <2> QED BY <1>1, <1>2, StoreIs DEF record
<1>4. PICK k \in DOMAIN records' :
        /\ records'[k] = record
        /\ k \in DOMAIN records => records[k].intent = i
        /\ \A n \in DOMAIN records' \ {k} :
             n \in DOMAIN records /\ records'[n] = records[n] /\ records[n].intent # i
  BY <1>3
<1>5. /\ spent'[i] = sum /\ charged'[i] = infra
      /\ \A j \in Intents \ {i} : spent'[j] = spent[j] /\ charged'[j] = charged[j]
      /\ touched' \subseteq Intents
      /\ spent' \in [Intents -> Amounts] /\ charged' \in [Intents -> Charges]
  BY <1>2
<1>6. \A n \in DOMAIN records :
        records[n].intent \in Intents /\ records[n].sum \in Amounts
  <2>1. \A n \in DOMAIN records : records[n] \in TaskRecord
    BY <1>2
  <2> QED BY <2>1 DEF TaskRecord
<1>7. record.intent = i /\ record.sum = sum /\ record.infra = infra
  OBVIOUS
<1> HIDE DEF record
<1>8. OneRecordPerIntent'
  BY <1>2, <1>4, <1>7 DEF OneRecordPerIntent
<1>9. RecordsMatchLedger'
  <2> SUFFICES ASSUME NEW n \in DOMAIN records', NEW j, j = records'[n].intent
               PROVE  records'[n] = [intent |-> j, sum |-> spent'[j], infra |-> charged'[j]]
    BY DEF RecordsMatchLedger
  <2>1. CASE n = k
    BY <1>4, <1>5, <1>7, <2>1 DEF record
  <2>2. CASE n # k
    BY <1>2, <1>4, <1>5, <1>6, <2>2 DEF RecordsMatchLedger
  <2> QED BY <2>1, <2>2
<1>10. RecordedIsTouched'
  <2>1. touched' = {records'[n].intent : n \in DOMAIN records'}
    <3>1. ASSUME NEW n \in DOMAIN records' PROVE records'[n].intent \in touched'
      BY <1>2, <1>4, <1>7 DEF RecordedIsTouched
    <3>2. ASSUME NEW j \in touched' PROVE \E n \in DOMAIN records' : records'[n].intent = j
      <4>1. CASE j = i
        BY <1>4, <1>7, <4>1
      <4>2. CASE j # i
        <5>1. PICK n \in DOMAIN records : records[n].intent = j
          BY <1>2, <4>2 DEF RecordedIsTouched
        <5> QED BY <1>3, <1>4, <4>2, <5>1
      <4> QED BY <4>1, <4>2
    <3> QED BY <3>1, <3>2
  <2>2. \A j \in Intents \ touched' : spent'[j] = Nothing /\ charged'[j] = NoInfra
    BY <1>2, <1>5 DEF RecordedIsTouched
  <2> QED BY <2>1, <2>2 DEF RecordedIsTouched, Nothing, NoInfra
<1>11. PhasesNeverDearer'
  <2> SUFFICES ASSUME NEW n \in DOMAIN records'
               PROVE  records'[n].sum.price <= Cost(Opus,
                        records'[n].sum.input, records'[n].sum.output)
    BY DEF PhasesNeverDearer, Cost, Opus, Price
  <2>1. CASE n = k
    BY <1>4, <1>7, <2>1
  <2>2. CASE n # k
    BY <1>2, <1>4, <2>2 DEF PhasesNeverDearer
  <2> QED BY <2>1, <2>2
<1>12. FilesAreCovered'
  <2>1. ASSUME NEW n \in DOMAIN records
        PROVE  /\ records[n].sum.input <= records'[n].sum.input
               /\ records[n].sum.output <= records'[n].sum.output
    <3>1. CASE n = k
      <4>1. records[n].sum = spent[i]
        BY <1>2, <1>4, <3>1 DEF RecordsMatchLedger
      <4> QED BY <1>4, <1>7, <3>1, <4>1
    <3>2. CASE n # k
      <4>1. records'[n] = records[n] /\ records[n].sum \in Amounts
        BY <1>3, <1>4, <1>6, <3>2
      <4> QED BY <4>1 DEF Amounts
    <3> QED BY <3>1, <3>2
  <2>2. Covers(Report', Report)
    BY <1>2, <1>3, <2>1, ReportGrows
  <2>3. Report \in File /\ Report' \in File
    <3>1. (PodRate \in Nat /\ records \in Seq(TaskRecord)
             => (restarts \in Nat => Report \in File))'
      BY ReportIs, PTL
    <3>2. restarts \in Nat
      BY <1>2 DEF TypeOK
    <3> QED BY <1>2, <1>3, <3>1, <3>2, ReportIs
  <2> SUFFICES ASSUME NEW s \in DOMAIN files, ~(files[s].process < restarts)
               PROVE  files[s].process = restarts /\ Covers(Report', files[s])
    BY DEF FilesAreCovered, Covers
  <2>4. files[s].process = restarts /\ Covers(Report, files[s])
    BY <1>2 DEF FilesAreCovered
  <2>5. files[s] \in File
    BY <1>2 DEF TypeOK
  <2> HIDE DEF Report
  <2> QED BY <2>2, <2>3, <2>4, <2>5 DEF Covers, File
<1> QED BY <1>3, <1>5, <1>8, <1>9, <1>10, <1>11, <1>12

--------------------------------------------------------------------------------
(* The steps.                                                                *)

\* A tracker without records has nothing to account for.
LEMMA LedgerInit ==
    ASSUME Init
    PROVE  LedgerInvariant
<1>1. /\ records = <<>> /\ open = [w \in Timers |-> Closed]
      /\ spent = [i \in Intents |-> Nothing]
      /\ charged = [i \in Intents |-> NoInfra]
      /\ touched = {} /\ second = 0 /\ files = <<>>
      /\ phases = 0 /\ restarts = 0 /\ faults = 0
  BY DEF Init
<1>2. Nothing \in Amounts /\ NoInfra \in Charges
  BY DEF Nothing, NoInfra, Amounts, Charges
<1>3. DOMAIN records = {} /\ DOMAIN files = {} /\ files \in [DOMAIN files -> File]
  BY <1>1
<1>4. records \in Seq(TaskRecord)
  BY <1>1
<1>5. TypeOK
  <2>1. MaxSecond \in Nat /\ MaxPhases \in Nat /\ MaxRestarts \in Nat /\ MaxFaults \in Nat
    BY TrackerAssumption
  <2> QED BY <1>1, <1>2, <1>3, <1>4, <2>1 DEF TypeOK, TaskRecord
<1>6. OneRecordPerIntent /\ RecordsMatchLedger /\ PhasesNeverDearer
  BY <1>3 DEF OneRecordPerIntent, RecordsMatchLedger, PhasesNeverDearer
<1>7. RecordedIsTouched /\ FilesAreCovered
  BY <1>1, <1>3 DEF RecordedIsTouched, FilesAreCovered
<1> QED BY <1>5, <1>6, <1>7 DEF LedgerInvariant

\* What was spent on an intent is no dearer than it would be on Opus.
LEMMA SpentNeverDearer ==
    ASSUME LedgerInvariant, NEW i \in Intents
    PROVE  spent[i].price <= Cost(Opus, spent[i].input, spent[i].output)
<1>1. CASE i \in touched
  <2>1. PICK n \in DOMAIN records : records[n].intent = i
    BY <1>1 DEF LedgerInvariant, RecordedIsTouched
  <2>2. records[n].sum = spent[i]
    BY <2>1 DEF LedgerInvariant, RecordsMatchLedger
  <2> QED BY <2>2 DEF LedgerInvariant, PhasesNeverDearer
<1>2. CASE i \notin touched
  <2>1. spent[i] = Nothing
    BY <1>2 DEF LedgerInvariant, RecordedIsTouched
  <2> QED
    BY <2>1 DEF Nothing, Cost, Opus, Price
<1> QED BY <1>1, <1>2

\* record_phase, directly or as a timer's block ends.
LEMMA RecordPhaseKeeps ==
    ASSUME LedgerInvariant,
           NEW i \in Intents, NEW model, NEW usage \in Usages,
           RecordPhase(i, model, usage),
           open' \in [Timers -> {Closed} \cup [intent : Intents, model : Models]]
    PROVE  LedgerInvariant'
<1> DEFINE sum == Added(spent[i], model, usage)
<1>0. Store(i, [Record(i) EXCEPT !.sum = Added(@, model, usage)])
  BY DEF RecordPhase
<1>1. /\ phases < MaxPhases /\ phases' = phases + 1
      /\ spent' = [spent EXCEPT ![i] = sum] /\ touched' = touched \cup {i}
      /\ second' = second /\ files' = files /\ charged' = charged
      /\ restarts' = restarts /\ faults' = faults
  BY DEF RecordPhase
<1>2. /\ spent \in [Intents -> Amounts] /\ charged \in [Intents -> Charges]
      /\ second \in 0 .. MaxSecond /\ phases \in 0 .. MaxPhases
      /\ DOMAIN files \subseteq 0 .. second /\ files \in [DOMAIN files -> File]
      /\ restarts \in 0 .. MaxRestarts /\ faults \in 0 .. MaxFaults
  BY DEF LedgerInvariant, TypeOK
<1>3. PodRate \in Nat /\ MaxPhases \in Nat /\ usage \in Usage
  BY TrackerAssumption
<1>4. spent[i] \in Amounts /\ charged[i] \in Charges
  BY <1>2
<1>5. spent[i].price <= Cost(Opus, spent[i].input, spent[i].output)
  BY SpentNeverDearer
<1>6. /\ sum \in Amounts /\ spent[i].input <= sum.input /\ spent[i].output <= sum.output
      /\ sum.price <= Cost(Opus, sum.input, sum.output)
  BY <1>3, <1>4, <1>5, AddedIs
<1>7. [Record(i) EXCEPT !.sum = Added(@, model, usage)]
        = [intent |-> i, sum |-> sum, infra |-> charged[i]]
  BY RecordIs
<1> HIDE DEF sum
<1>8. charged' = [charged EXCEPT ![i] = charged[i]]
  BY <1>1, <1>2
<1>9. Store(i, [intent |-> i, sum |-> sum, infra |-> charged[i]])
  BY <1>0, <1>7
<1>10. /\ records' \in Seq(TaskRecord) /\ touched' \subseteq Intents
       /\ spent' \in [Intents -> Amounts] /\ charged' \in [Intents -> Charges]
       /\ OneRecordPerIntent' /\ RecordsMatchLedger'
       /\ RecordedIsTouched' /\ PhasesNeverDearer'
       /\ FilesAreCovered'
  BY <1>1, <1>3, <1>4, <1>6, <1>8, <1>9, StoreKeeps
<1>11. TypeOK'
  <2>1. phases' \in 0 .. MaxPhases
    BY <1>1, <1>2, <1>3
  <2>2. /\ records' \in Seq([intent : Intents, sum : Amounts, infra : Charges])
        /\ DOMAIN files' \subseteq 0 .. second' /\ files' \in [DOMAIN files' -> File]
        /\ second' \in 0 .. MaxSecond /\ restarts' \in 0 .. MaxRestarts
        /\ faults' \in 0 .. MaxFaults
    BY <1>1, <1>2, <1>10 DEF TaskRecord
  <2> QED
    BY <1>10, <2>1, <2>2 DEF TypeOK, Closed, Amounts, Charges,
       File
<1> QED BY <1>10, <1>11 DEF LedgerInvariant

\* set_infra_cost changes the charge of one intent and its record alike.
LEMMA SetInfraCostKeeps ==
    ASSUME LedgerInvariant,
           NEW i \in Intents, SetInfraCost(i)
    PROVE  LedgerInvariant'
<1>1. PICK infra \in Infra :
        /\ Store(i, [Record(i) EXCEPT !.infra = infra])
        /\ charged' = [charged EXCEPT ![i] = infra]
  BY DEF SetInfraCost
<1>2. /\ touched' = touched \cup {i} /\ open' = open /\ second' = second /\ files' = files
      /\ spent' = spent /\ phases' = phases /\ restarts' = restarts /\ faults' = faults
  BY DEF SetInfraCost
<1>3. /\ spent \in [Intents -> Amounts] /\ PodRate \in Nat
      /\ infra \in Charges
  BY TrackerAssumption DEF LedgerInvariant, TypeOK, Charges
<1>4. spent[i] \in Amounts
  BY <1>3
<1>5. /\ spent[i].input <= spent[i].input /\ spent[i].output <= spent[i].output
      /\ spent[i].price <= Cost(Opus, spent[i].input, spent[i].output)
  BY <1>4, SpentNeverDearer DEF Amounts
<1>6. [Record(i) EXCEPT !.infra = infra]
        = [intent |-> i, sum |-> spent[i], infra |-> infra]
  BY RecordIs
<1>7. spent' = [spent EXCEPT ![i] = spent[i]]
  BY <1>2, <1>3
<1>8. Store(i, [intent |-> i, sum |-> spent[i], infra |-> infra])
  BY <1>1, <1>6
<1>9. /\ records' \in Seq(TaskRecord) /\ touched' \subseteq Intents
      /\ spent' \in [Intents -> Amounts] /\ charged' \in [Intents -> Charges]
      /\ OneRecordPerIntent' /\ RecordsMatchLedger'
      /\ RecordedIsTouched' /\ PhasesNeverDearer'
      /\ FilesAreCovered'
  BY <1>1, <1>2, <1>3, <1>4, <1>5, <1>7, <1>8, StoreKeeps
<1>10. TypeOK'
  BY <1>2, <1>9 DEF LedgerInvariant, TypeOK, TaskRecord, Closed,
     Amounts, Charges, File
<1> QED BY <1>9, <1>10 DEF LedgerInvariant

\* The steps that leave records and ledger alone.
LEMMA UnchangedLedgerKeeps ==
    ASSUME LedgerInvariant,
           records' = records, spent' = spent, charged' = charged, touched' = touched,
           TypeOK', FilesAreCovered'
    PROVE  LedgerInvariant'
<1>1. OneRecordPerIntent'
  BY DEF LedgerInvariant, OneRecordPerIntent
<1>2. RecordsMatchLedger' /\ RecordedIsTouched'
  BY DEF LedgerInvariant, RecordsMatchLedger, RecordedIsTouched,
     Nothing, NoInfra
<1>3. PhasesNeverDearer'
  BY DEF LedgerInvariant, PhasesNeverDearer, Cost, Opus,
     Price
<1> QED BY <1>1, <1>2, <1>3 DEF LedgerInvariant

\* A step that leaves ledger and files alone keeps everything that relates them.
LEMMA UnchangedFilesKeep ==
    ASSUME LedgerInvariant, records' = records, files' = files, restarts' = restarts
    PROVE  FilesAreCovered'
<1>1. Report' = Report
  BY DEF Report, Total, Bicameral, Monolithic,
     InfraCost, Cost, Opus, Price
<1>2. FilesAreCovered
  BY DEF LedgerInvariant
<1> HIDE DEF Report
<1> QED BY <1>1, <1>2 DEF FilesAreCovered, Covers

\* A report, or what is left of one, is written to the file of this second.
LEMMA WriteKeeps ==
    ASSUME LedgerInvariant,
           NEW content \in File, content.process = restarts,
           Covers(Report, content), Write(content),
           records' = records, open' = open, second' = second, spent' = spent,
           charged' = charged, touched' = touched, phases' = phases, restarts' = restarts,
           faults' \in 0 .. MaxFaults
    PROVE  LedgerInvariant'
<1>1. /\ DOMAIN files' = DOMAIN files \cup {second} /\ files'[second] = content
      /\ \A s \in DOMAIN files \ {second} : files'[s] = files[s]
      /\ files' = [s \in DOMAIN files' |-> files'[s]]
  BY DEF Write
<1>2. /\ second \in 0 .. MaxSecond /\ DOMAIN files \subseteq 0 .. second
      /\ files \in [DOMAIN files -> File]
  BY DEF LedgerInvariant, TypeOK
<1>3. second \in 0 .. second
  BY <1>2, TrackerAssumption
<1>4. DOMAIN files' \subseteq 0 .. second' /\ files' \in [DOMAIN files' -> File]
  BY <1>1, <1>2, <1>3
<1>5. TypeOK'
  BY <1>4 DEF LedgerInvariant, TypeOK, TaskRecord, Closed,
     Amounts, Charges, File
<1>6. Report' = Report
  BY DEF Report, Total, Bicameral, Monolithic,
     InfraCost, Cost, Opus, Price
<1>7. FilesAreCovered
  BY DEF LedgerInvariant
<1>8. FilesAreCovered'
  <2> HIDE DEF Report
  <2> QED BY <1>1, <1>6, <1>7 DEF FilesAreCovered, Covers
<1> QED BY <1>5, <1>8, UnchangedLedgerKeeps

\* A report made now, and what a failed write leaves of it, are files of this process.
LEMMA ReportCovers ==
    ASSUME LedgerInvariant
    PROVE  /\ Report \in File /\ Report.process = restarts
           /\ Covers(Report, Report)
           /\ Torn \in File /\ Torn.process = restarts
           /\ Covers(Report, Torn)
<1>1. PodRate \in Nat /\ records \in Seq(TaskRecord) /\ restarts \in Nat
  BY TrackerAssumption DEF LedgerInvariant, TypeOK, TaskRecord
<1>2. Report \in File /\ Report.process = restarts
  BY <1>1, ReportIs
<1>3. /\ Report.tasks \in Nat /\ Report.input \in Nat
      /\ Report.output \in Nat
  <2> HIDE DEF Report
  <2> QED BY <1>2 DEF File
<1>4. Torn \in File /\ Torn.process = restarts
  BY <1>1 DEF Torn, File
<1>5. Torn.tasks = 0 /\ Torn.input = 0 /\ Torn.output = 0
  BY DEF Torn
<1> HIDE DEF Report, Torn
<1> QED BY <1>2, <1>3, <1>4, <1>5 DEF Covers

\* A new process starts with an empty ledger; the files of earlier ones stay.
LEMMA RestartKeeps ==
    ASSUME LedgerInvariant, Restart
    PROVE  LedgerInvariant'
<1>1. /\ restarts < MaxRestarts /\ restarts' = restarts + 1 /\ records' = <<>>
      /\ open' = [w \in Timers |-> Closed]
      /\ spent' = [i \in Intents |-> Nothing]
      /\ charged' = [i \in Intents |-> NoInfra]
      /\ touched' = {} /\ second' = second /\ files' = files
      /\ phases' = phases /\ faults' = faults
  BY DEF Restart
<1>2. Nothing \in Amounts /\ NoInfra \in Charges
  BY DEF Nothing, NoInfra, Amounts, Charges
<1>3. DOMAIN records' = {} /\ records' \in Seq(TaskRecord)
  BY <1>1
<1>4. /\ restarts \in 0 .. MaxRestarts /\ MaxRestarts \in Nat
      /\ files \in [DOMAIN files -> File] /\ FilesAreCovered
  BY TrackerAssumption DEF LedgerInvariant, TypeOK
<1>5. TypeOK'
  BY <1>1, <1>2, <1>3, <1>4 DEF LedgerInvariant, TypeOK, TaskRecord,
     Closed, Nothing, NoInfra, Amounts, Charges, File
<1>6. /\ OneRecordPerIntent' /\ RecordsMatchLedger'
      /\ PhasesNeverDearer'
  BY <1>3 DEF OneRecordPerIntent, RecordsMatchLedger, PhasesNeverDearer
<1>7. RecordedIsTouched'
  BY <1>1, <1>3 DEF RecordedIsTouched, Nothing, NoInfra
<1>8. FilesAreCovered'
  <2> SUFFICES ASSUME NEW s \in DOMAIN files PROVE files[s].process < restarts + 1
    BY <1>1 DEF FilesAreCovered
  <2>1. files[s].process \in Nat
    BY <1>4 DEF File
  <2>2. files[s].process < restarts \/ files[s].process = restarts
    BY <1>4 DEF FilesAreCovered
  <2> QED BY <1>4, <2>1, <2>2
<1> QED BY <1>5, <1>6, <1>7, <1>8 DEF LedgerInvariant

\* Every step keeps the invariant.
LEMMA LedgerNext ==
    ASSUME LedgerInvariant, [Next]_(vars)
    PROVE  LedgerInvariant'
<1>0. /\ open \in [Timers -> {Closed} \cup [intent : Intents, model : Models]]
      /\ second \in 0 .. MaxSecond /\ faults \in 0 .. MaxFaults
      /\ DOMAIN files \subseteq 0 .. second
      /\ MaxSecond \in Nat /\ MaxFaults \in Nat
  BY TrackerAssumption DEF LedgerInvariant, TypeOK
<1>1. CASE RecordDirectly
  <2>1. open' = open
    BY <1>1 DEF RecordDirectly
  <2>2. open' \in [Timers -> {Closed} \cup [intent : Intents, model : Models]]
    BY <1>0, <2>1
  <2>3. PICK i \in Intents, model \in Models, usage \in Usages :
          RecordPhase(i, model, usage)
    BY <1>1 DEF RecordDirectly
  <2> QED BY <2>2, <2>3, RecordPhaseKeeps
<1>2. ASSUME NEW w \in Timers, StartPhase(w) PROVE LedgerInvariant'
  <2>1. PICK i \in Intents, model \in Models :
          open' = [open EXCEPT ![w] = [intent |-> i, model |-> model]]
    BY <1>2 DEF StartPhase
  <2>2. /\ records' = records /\ spent' = spent /\ charged' = charged /\ touched' = touched
        /\ second' = second /\ files' = files /\ phases' = phases /\ restarts' = restarts
        /\ faults' = faults
    BY <1>2 DEF StartPhase, ledger
  <2>3. open' \in [Timers -> {Closed} \cup [intent : Intents, model : Models]]
    BY <1>0, <2>1
  <2>4. TypeOK'
    BY <2>2, <2>3 DEF LedgerInvariant, TypeOK, Closed,
       Amounts, Charges, File
  <2> QED BY <2>2, <2>4, UnchangedLedgerKeeps, UnchangedFilesKeep
<1>3. ASSUME NEW w \in Timers, EndPhase(w) PROVE LedgerInvariant'
  <2>1. open[w] # Closed /\ open' = [open EXCEPT ![w] = Closed]
    BY <1>3 DEF EndPhase
  <2>2. open[w] \in [intent : Intents, model : Models]
    BY <1>0, <2>1
  <2>3. open' \in [Timers -> {Closed} \cup [intent : Intents, model : Models]]
    BY <1>0, <2>1
  <2>4. PICK usage \in Usages : RecordPhase(open[w].intent, open[w].model, usage)
    BY <1>3 DEF EndPhase
  <2>5. open[w].intent \in Intents
    BY <2>2
  <2> QED BY <2>3, <2>4, <2>5, RecordPhaseKeeps
<1>4. ASSUME NEW i \in Intents, SetInfraCost(i) PROVE LedgerInvariant'
  BY <1>4, SetInfraCostKeeps
<1>5. CASE GenerateReport
  <2>1. /\ records' = records /\ open' = open /\ second' = second /\ spent' = spent
        /\ charged' = charged /\ touched' = touched /\ phases' = phases
        /\ restarts' = restarts /\ faults' \in 0 .. MaxFaults
        /\ Write(Report)
    BY <1>0, <1>5 DEF GenerateReport, ledger
  <2> HIDE DEF Report, Write
  <2> QED BY <2>1, ReportCovers, WriteKeeps
<1>6. CASE ReportCutOff
  <2>1. /\ records' = records /\ open' = open /\ second' = second /\ spent' = spent
        /\ charged' = charged /\ touched' = touched /\ phases' = phases
        /\ restarts' = restarts /\ faults < MaxFaults /\ faults' = faults + 1
        /\ Write(Torn)
    BY <1>6 DEF ReportCutOff, ledger
  <2>2. faults' \in 0 .. MaxFaults
    BY <1>0, <2>1
  <2> HIDE DEF Torn, Write
  <2> QED BY <2>1, <2>2, ReportCovers, WriteKeeps
<1>7. CASE SecondPasses
  <2>1. /\ second < MaxSecond /\ second' = second + 1 /\ open' = open
        /\ records' = records /\ spent' = spent /\ charged' = charged /\ touched' = touched
        /\ files' = files /\ phases' = phases /\ restarts' = restarts /\ faults' = faults
    BY <1>7 DEF SecondPasses, ledger
  <2>2. second' \in 0 .. MaxSecond /\ DOMAIN files' \subseteq 0 .. second'
    BY <1>0, <2>1
  <2>3. TypeOK'
    BY <2>1, <2>2 DEF LedgerInvariant, TypeOK, Closed,
       Amounts, Charges, File
  <2> QED BY <2>1, <2>3, UnchangedLedgerKeeps, UnchangedFilesKeep
<1>8. CASE Restart
  BY <1>8, RestartKeeps
<1>9. CASE UNCHANGED vars
  <2>1. /\ records' = records /\ open' = open /\ second' = second /\ files' = files
        /\ spent' = spent /\ charged' = charged /\ touched' = touched
        /\ phases' = phases /\ restarts' = restarts /\ faults' = faults
    BY <1>9 DEF vars, ledger
  <2>2. TypeOK'
    BY <2>1 DEF LedgerInvariant, TypeOK, Closed,
       Amounts, Charges, File
  <2> QED BY <2>1, <2>2, UnchangedLedgerKeeps, UnchangedFilesKeep
<1> QED
  BY <1>1, <1>2, <1>3, <1>4, <1>5, <1>6, <1>7, <1>8, <1>9 DEF Next

--------------------------------------------------------------------------------

\* Under the invariant a report is about what was spent on the intents that were touched.
LEMMA ReportIsLedger ==
    ASSUME LedgerInvariant
    PROVE  ReportIsWhole
<1> DEFINE position == [n \in DOMAIN records |-> records[n].intent]
<1>1. /\ records \in Seq(TaskRecord) /\ touched \subseteq Intents /\ PodRate \in Nat
      /\ spent \in [Intents -> Amounts] /\ charged \in [Intents -> Charges]
      /\ OneRecordPerIntent /\ RecordsMatchLedger /\ RecordedIsTouched
  BY TrackerAssumption DEF LedgerInvariant, TypeOK, TaskRecord
<1>2. position \in Bijection(DOMAIN records, touched)
  BY <1>1 DEF Bijection, Injection, Surjection, IsInjective, OneRecordPerIntent,
     RecordedIsTouched
<1>3. /\ IsFiniteSet(DOMAIN records) /\ Cardinality(DOMAIN records) = Len(records)
  <2>1. Len(records) \in Nat /\ DOMAIN records = 1 .. Len(records)
    BY <1>1
  <2>2. ASSUME NEW n \in Nat PROVE IsFiniteSet(1 .. n) /\ Cardinality(1 .. n) = n
    BY FS_Interval, SMT
  <2> QED BY <2>1, <2>2
<1>4. Len(records) = Cardinality(touched)
  BY <1>2, <1>3, FS_Bijection DEF ExistsBijection
<1>5. ASSUME NEW n \in DOMAIN records
      PROVE  /\ records[n] \in TaskRecord /\ records[n].intent \in touched
             /\ records[n].sum = spent[records[n].intent]
             /\ records[n].infra = charged[records[n].intent]
  BY <1>1 DEF RecordsMatchLedger, RecordedIsTouched
<1>6. ASSUME NEW i \in touched
      PROVE  /\ spent[i].input \in Nat /\ spent[i].output \in Nat
             /\ spent[i].price + InfraCost(charged[i]) \in Nat
  <2>1. PICK n \in DOMAIN records : records[n].intent = i
    BY <1>1 DEF RecordedIsTouched
  <2> QED BY <1>1, <1>5, <2>1, RecordCosts
<1> DEFINE input == [n \in DOMAIN records |-> records[n].sum.input]
           output == [n \in DOMAIN records |-> records[n].sum.output]
           bicameral == [n \in DOMAIN records |-> Bicameral(records[n])]
           inputOf == [i \in touched |-> spent[i].input]
           outputOf == [i \in touched |-> spent[i].output]
           costOf == [i \in touched |-> spent[i].price + InfraCost(charged[i])]
<1>7. /\ input \in [DOMAIN records -> Nat] /\ output \in [DOMAIN records -> Nat]
      /\ bicameral \in [DOMAIN records -> Nat]
  BY <1>1, <1>5, RecordCosts
<1>8. /\ inputOf \in [touched -> Nat] /\ outputOf \in [touched -> Nat]
      /\ costOf \in [touched -> Nat]
  BY <1>6
<1>9. /\ \A n \in DOMAIN records : input[n] = inputOf[position[n]]
      /\ \A n \in DOMAIN records : output[n] = outputOf[position[n]]
      /\ \A n \in DOMAIN records : bicameral[n] = costOf[position[n]]
  BY <1>1, <1>5, RecordCosts
<1>10. /\ Report.tasks = Len(records) /\ Report.input = SumFunction(input)
       /\ Report.output = SumFunction(output)
       /\ Report.bicameral = SumFunction(bicameral)
  BY <1>1, ReportIs
<1>11. /\ SumFunction(input) = SumFunction(inputOf)
       /\ SumFunction(output) = SumFunction(outputOf)
       /\ SumFunction(bicameral) = SumFunction(costOf)
  <2> HIDE DEF position, input, output, bicameral, inputOf, outputOf, costOf
  <2>1. ASSUME NEW f \in [DOMAIN records -> Nat], NEW g \in [touched -> Nat],
               \A n \in DOMAIN records : f[n] = g[position[n]]
        PROVE  SumFunction(f) = SumFunction(g)
    <3>1. ASSUME NEW S, IsFiniteSet(S), NEW b \in Bijection(S, touched),
                 NEW u \in [S -> Nat], \A n \in S : u[n] = g[b[n]]
          PROVE  SumFunction(u) = SumFunction(g)
      BY <3>1, SumOverBijection
    <3>2. IsFiniteSet(DOMAIN records)
      BY <1>3
    <3> QED BY <1>2, <2>1, <3>1, <3>2, Zenon
  <2>2. SumFunction(input) = SumFunction(inputOf)
    BY <1>7, <1>8, <1>9, <2>1
  <2>3. SumFunction(output) = SumFunction(outputOf)
    BY <1>7, <1>8, <1>9, <2>1
  <2>4. SumFunction(bicameral) = SumFunction(costOf)
    BY <1>7, <1>8, <1>9, <2>1
  <2> QED BY <2>2, <2>3, <2>4
<1> QED BY <1>4, <1>10, <1>11 DEF ReportIsWhole

\* The inductive invariant of the tracker: there is one record for each intent that was
\* recorded, it says what the ledger says, and what is left of older reports is covered.
THEOREM LedgerInvariantHolds == Spec => []LedgerInvariant
<1>1. Init => LedgerInvariant
  BY LedgerInit
<1>2. LedgerInvariant /\ [Next]_(vars) => LedgerInvariant'
  BY LedgerNext
<1> QED BY <1>1, <1>2, PTL DEF Spec

\* Records, timers, files and ledger of the tracker keep their types.
THEOREM TrackerTypeCorrect == Spec => []TypeOK
<1>1. LedgerInvariant => TypeOK
  BY DEF LedgerInvariant
<1> QED BY <1>1, LedgerInvariantHolds, PTL

\* However the callers of CostTracker interleave, _get_or_create_record never makes a
\* second record for an intent.
THEOREM OneRecordPerIntentHolds == Spec => []OneRecordPerIntent
<1>1. LedgerInvariant => OneRecordPerIntent
  BY DEF LedgerInvariant
<1> QED BY <1>1, LedgerInvariantHolds, PTL

\* generate_report counts every task and token that was recorded, once: its totals, which
\* are sums over the records, are those of the ledger, which are sums over the intents.
THEOREM ReportIsWholeHolds == Spec => []ReportIsWhole
<1>1. LedgerInvariant => ReportIsWhole
  BY ReportIsLedger
<1> QED BY <1>1, LedgerInvariantHolds, PTL

\* The savings of a record are never negative, for any usage, model name and pod cost, as
\* no model of MODEL_PRICING_CATALOG is dearer than Opus either way.
THEOREM SavingsNeverNegativeHolds == Spec => []SavingsNeverNegative
<1>1. ASSUME LedgerInvariant PROVE SavingsNeverNegative
  <2> SUFFICES ASSUME NEW n \in DOMAIN records
               PROVE  Bicameral(records[n]) <= Monolithic(records[n])
    BY DEF SavingsNeverNegative
  <2>1. records[n] \in TaskRecord /\ PodRate \in Nat
    <3>1. records \in Seq(TaskRecord)
      BY <1>1 DEF LedgerInvariant, TypeOK, TaskRecord
    <3> QED BY <3>1, TrackerAssumption
  <2>2. records[n].sum.price
          <= Cost(Opus, records[n].sum.input, records[n].sum.output)
    BY <1>1 DEF LedgerInvariant, PhasesNeverDearer
  <2>3. /\ records[n].sum.price \in Nat /\ InfraCost(records[n].infra) \in Nat
        /\ Cost(Opus, records[n].sum.input, records[n].sum.output) \in Nat
    <3>1. records[n].sum \in Amounts
      BY <2>1 DEF TaskRecord
    <3>2. /\ records[n].sum.price \in Nat /\ records[n].sum.input \in Nat
          /\ records[n].sum.output \in Nat
      BY <3>1 DEF Amounts
    <3> QED BY <2>1, <3>2, RecordCosts DEF Cost, Opus, Price
  <2> QED BY <2>2, <2>3 DEF Bicameral, Monolithic
<1> QED BY <1>1, LedgerInvariantHolds, PTL

\* A report file is only overwritten in its own second, and then by a report with no task
\* and no token less, unless writing fails or another process took over.
THEOREM OverwrittenReportIsCoveredHolds == Spec => OverwrittenReportIsCovered
<1> DEFINE Covered ==
      \A s \in DOMAIN files :
        /\ s \in DOMAIN files'
        /\ files'[s] # files[s] =>
             /\ s = second
             /\ \/ faults' > faults
                \/ files'[s].process > files[s].process
                \/ Covers(files'[s], files[s])
<1>1. ASSUME LedgerInvariant, [Next]_(vars)
      PROVE  Covered
  <2>1. CASE files' = files
    BY <2>1
  <2>2. ASSUME NEW content, Write(content), NEW s \in DOMAIN files
        PROVE  /\ s \in DOMAIN files' /\ files'[second] = content
               /\ files'[s] # files[s] => s = second
    BY <2>2 DEF Write
  <2>3. CASE GenerateReport
    <3> SUFFICES ASSUME NEW s \in DOMAIN files, files'[s] # files[s]
                 PROVE  \/ files'[s].process > files[s].process
                        \/ Covers(files'[s], files[s])
      BY <2>2, <2>3 DEF GenerateReport
    <3>1. Write(Report)
      BY <2>3 DEF GenerateReport
    <3>2. files'[s] = Report
      BY <2>2, <3>1
    <3>3. Report.process = restarts
      BY <1>1, ReportCovers
    <3>4. files[s].process \in Nat /\ restarts \in Nat
      <4>1. files[s] \in File
        BY <1>1 DEF LedgerInvariant, TypeOK
      <4> QED BY <1>1, <4>1 DEF File, LedgerInvariant, TypeOK
    <3> HIDE DEF Report
    <3> QED
      BY <1>1, <3>2, <3>3, <3>4 DEF LedgerInvariant, FilesAreCovered
  <2>4. CASE ReportCutOff
    <3>1. Write(Torn) /\ faults' = faults + 1
      BY <2>4 DEF ReportCutOff
    <3>2. faults' > faults
      BY <1>1, <3>1 DEF LedgerInvariant, TypeOK
    <3> QED BY <2>2, <3>1, <3>2
  <2>5. CASE RecordDirectly \/ \E w \in Timers : StartPhase(w) \/ EndPhase(w)
    BY <2>1, <2>5 DEF RecordDirectly, RecordPhase, StartPhase,
       EndPhase
  <2>6. CASE \/ \E i \in Intents : SetInfraCost(i)
             \/ SecondPasses \/ Restart \/ UNCHANGED vars
    BY <2>1, <2>6 DEF SetInfraCost, SecondPasses, Restart, vars
  <2> QED BY <1>1, <2>3, <2>4, <2>5, <2>6 DEF Next
<1>2. Spec => [][Covered]_(vars)
  <2>1. LedgerInvariant /\ [Next]_(vars) => [Covered]_(vars)
    BY <1>1
  <2> HIDE DEF Covered
  <2> QED BY <2>1, LedgerInvariantHolds, PTL DEF Spec
<1> QED BY <1>2 DEF OverwrittenReportIsCovered
================================================================================
