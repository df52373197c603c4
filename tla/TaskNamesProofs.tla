---------------------------- MODULE TaskNamesProofs ----------------------------
(***************************************************************************)
(* Proofs about TaskNames, for all ids, alphabets and lengths that meet    *)
(* its assumptions and any number of handshakes and standby tasks.         *)
(***************************************************************************)
EXTENDS TaskNames, FiniteSetTheorems, SequenceTheorems, WellFoundedInduction, TLAPS

--------------------------------------------------------------------------------
(* Texts.                                                                    *)

\* The lengths that names are cut to are numbers, and leave room for a standby name.
LEMMA Lengths ==
    /\ FragmentMax \in Nat /\ LabelMax \in Nat /\ PodMax \in Nat
    /\ LabelMax = 3 + FragmentMax + 2 /\ PodMax < LabelMax
    /\ StandbyPrefix \in Seq(Plain \cup {Dash}) /\ Len(StandbyPrefix) \in Nat
    /\ 3 + Len(StandbyPrefix) + 3 <= PodMax
    /\ Seconds \in Nat /\ Seconds > 0
BY CharsAssumption, LengthsAssumption

\* A cut text is as long as allowed or as before, and begins like the text.
LEMMA CutIs ==
    ASSUME NEW S, NEW s \in Seq(S), NEW max \in Nat
    PROVE  /\ Cut(s, max) \in Seq(S)
           /\ Len(Cut(s, max)) = IF Len(s) < max THEN Len(s) ELSE max
           /\ \A k \in DOMAIN Cut(s, max) : k \in DOMAIN s /\ Cut(s, max)[k] = s[k]
           /\ Len(s) <= max => Cut(s, max) = s
<1> DEFINE n == IF Len(s) < max THEN Len(s) ELSE max
           t == SubSeq(s, 1, n)
<1>1. n \in Nat /\ n <= Len(s) /\ Len(s) \in Nat /\ n <= max
  OBVIOUS
<1>2. Cut(s, max) = t
  BY DEF Cut
<1> HIDE DEF n
<1>3. t \in Seq(S) /\ Len(t) = n /\ \A k \in 1 .. n : t[k] = s[k]
  <2>1. \A k \in 1 .. n : s[k] \in S
    BY <1>1
  <2>2. t \in Seq(S)
    BY <1>1, <2>1, SubSeqProperties
  <2>3. Len(t) = n
    BY <1>1, SubSeqProperties
  <2> QED BY <1>1, <2>2, <2>3
<1> HIDE DEF t
<1>4. DOMAIN t = 1 .. n /\ DOMAIN s = 1 .. Len(s)
  BY <1>3
<1>5. Len(s) <= max => t = s
  <2> SUFFICES ASSUME Len(s) <= max PROVE t = s
    OBVIOUS
  <2>1. n = Len(s)
    BY <1>1 DEF n
  <2> QED BY <1>1, <1>3, <1>4, <2>1, SeqEqual
<1> QED BY <1>1, <1>2, <1>3, <1>4, <1>5 DEF n

\* How many of the positions in K are not after k.
Rank(K, k) == Cardinality({j \in K : j <= k})

\* The rank of a position among those that are kept.
LEMMA RankIs ==
    ASSUME NEW K \in SUBSET Nat, IsFiniteSet(K), NEW k \in K
    PROVE  /\ IsFiniteSet({j \in K : j <= k}) /\ Rank(K, k) \in 1 .. Cardinality(K)
           /\ \A m \in K : m < k => Rank(K, m) < Rank(K, k)
<1>1. Cardinality(K) \in Nat
  BY FS_CardinalityType
<1>2. ASSUME NEW S \in SUBSET K, NEW T \in SUBSET S
      PROVE  /\ IsFiniteSet(S) /\ Cardinality(S) \in Nat /\ Cardinality(S) <= Cardinality(K)
             /\ Cardinality(T) <= Cardinality(S)
             /\ Cardinality(T) = Cardinality(S) => T = S
  <2>1. IsFiniteSet(S) /\ Cardinality(S) <= Cardinality(K)
    BY FS_Subset
  <2> QED BY <2>1, FS_Subset, FS_CardinalityType
<1>3. Rank(K, k) # 0
  <2>1. {j \in K : j <= k} # {}
    OBVIOUS
  <2> QED BY <1>2, <2>1, FS_EmptySet DEF Rank
<1>4. ASSUME NEW m \in K, m < k PROVE Rank(K, m) < Rank(K, k)
  <2> DEFINE S == {j \in K : j <= k}
             T == {j \in K : j <= m}
  <2>1. S \in SUBSET K /\ T \in SUBSET S /\ T # S
    <3>1. k \in S /\ k \notin T
      BY <1>4
    <3>2. \A j \in K : j <= m => j <= k
      BY <1>4
    <3> QED BY <3>1, <3>2
  <2>2. T \in SUBSET K
    OBVIOUS
  <2> HIDE DEF S, T
  <2>3. Cardinality(S) \in Nat /\ Cardinality(T) \in Nat /\ Cardinality(T) < Cardinality(S)
    BY <1>2, <2>1, <2>2
  <2> QED BY <2>3 DEF Rank, S, T
<1>5. Rank(K, k) \in Nat /\ Rank(K, k) <= Cardinality(K)
  BY <1>2 DEF Rank
<1> QED BY <1>1, <1>2, <1>3, <1>4, <1>5

\* Every rank is that of a position.
LEMMA RankIsOnto ==
    ASSUME NEW K \in SUBSET Nat, IsFiniteSet(K), NEW i \in 1 .. Cardinality(K)
    PROVE  \E k \in K : Rank(K, k) = i
<1> DEFINE c == Cardinality(K)
           rank == [k \in K |-> Rank(K, k)]
           others == (1 .. c) \ {i}
<1>1. c \in Nat
  BY FS_CardinalityType
<1>2. IsFiniteSet(others) /\ Cardinality(others) = c - 1
  <2>1. IsFiniteSet(1 .. c) /\ Cardinality(1 .. c) = c
    <3>1. 1 \in Int /\ c \in Int
      BY <1>1
    <3> HIDE DEF c
    <3> QED BY <1>1, <3>1, FS_Interval
  <2>2. i \in 1 .. c
    OBVIOUS
  <2> HIDE DEF c
  <2>3. /\ IsFiniteSet((1 .. c) \ {i})
        /\ Cardinality((1 .. c) \ {i}) = Cardinality(1 .. c) - 1
    BY <2>1, <2>2, FS_RemoveElement, Zenon
  <2> QED BY <2>1, <2>3
<1> SUFFICES ASSUME \A k \in K : Rank(K, k) # i PROVE FALSE
  OBVIOUS
<1>3. rank \in [K -> others]
  BY RankIs
<1>4. Cardinality(K) > Cardinality(others)
  <2> HIDE DEF others
  <2> QED BY <1>1, <1>2
<1>5. \E x, y \in K : x # y /\ rank[x] = rank[y]
  <2> HIDE DEF others, rank
  <2> QED BY <1>2, <1>3, <1>4, FS_PigeonHole
<1>6. \A x, y \in K : x < y => rank[x] < rank[y]
  BY RankIs
<1>7. ASSUME NEW x \in K PROVE rank[x] \in Nat
  <2>1. Rank(K, x) \in 1 .. Cardinality(K)
    BY RankIs
  <2> QED BY <1>1, <2>1
<1> HIDE DEF rank
<1> QED BY <1>5, <1>6, <1>7

\* The first rank is that of the least position, the last that of the greatest.
LEMMA RankAtEnds ==
    ASSUME NEW K \in SUBSET Nat, IsFiniteSet(K), NEW k \in K
    PROVE  /\ Rank(K, k) = 1 => \A j \in K : k <= j
           /\ Rank(K, k) = Cardinality(K) => \A j \in K : j <= k
<1>1. Cardinality(K) \in Nat
  BY FS_CardinalityType
<1>2. ASSUME NEW j \in K, j < k PROVE Rank(K, k) # 1
  <2>1. Rank(K, j) \in 1 .. Cardinality(K) /\ Rank(K, k) \in 1 .. Cardinality(K)
    BY RankIs
  <2>2. Rank(K, j) < Rank(K, k)
    BY <1>2, RankIs
  <2> QED BY <1>1, <2>1, <2>2
<1>3. ASSUME NEW j \in K, k < j PROVE Rank(K, k) # Cardinality(K)
  <2>1. Rank(K, j) \in 1 .. Cardinality(K) /\ Rank(K, k) \in 1 .. Cardinality(K)
    BY RankIs
  <2>2. Rank(K, k) < Rank(K, j)
    BY <1>3, RankIs
  <2> QED BY <1>1, <2>1, <2>2
<1> QED BY <1>2, <1>3

\* What is kept of a text are its characters at the positions that stay, from the least
\* to the greatest.
LEMMA KeptIs ==
    ASSUME NEW S, NEW s \in Seq(S), NEW K \in SUBSET DOMAIN s
    PROVE  /\ Kept(s, K) \in Seq(S) /\ Len(Kept(s, K)) <= Len(s)
           /\ \A i \in DOMAIN Kept(s, K) : \E k \in K :
                /\ Kept(s, K)[i] = s[k]
                /\ i = 1 => \A j \in K : k <= j
                /\ i = Len(Kept(s, K)) => \A j \in K : j <= k
<1> DEFINE c == Cardinality(K)
           at(i) == CHOOSE k \in K : Rank(K, k) = i
           t == Kept(s, K)
<1>1. Len(s) \in Nat /\ DOMAIN s = 1 .. Len(s) /\ K \in SUBSET Nat
  OBVIOUS
<1>2. IsFiniteSet(K) /\ c \in Nat /\ c <= Len(s)
  <2>1. IsFiniteSet(1 .. Len(s)) /\ Cardinality(1 .. Len(s)) = Len(s)
    <3>1. ASSUME NEW n \in Nat PROVE IsFiniteSet(1 .. n) /\ Cardinality(1 .. n) = n
      BY FS_Interval, SMT
    <3> QED BY <1>1, <3>1
  <2>2. K \in SUBSET (1 .. Len(s))
    BY <1>1
  <2>3. IsFiniteSet(K) /\ Cardinality(K) <= Cardinality(1 .. Len(s))
    BY <2>1, <2>2, FS_Subset
  <2> QED BY <2>1, <2>3, FS_CardinalityType
<1>3. t = [i \in 1 .. c |-> s[at(i)]]
  BY Zenon DEF Kept, Rank
<1>4. ASSUME NEW i \in 1 .. c PROVE at(i) \in K /\ Rank(K, at(i)) = i
  <2>1. \E k \in K : Rank(K, k) = i
    BY <1>1, <1>2, RankIsOnto
  <2> QED BY <2>1, Zenon
<1> HIDE DEF at, c, t
<1>5. \A i \in 1 .. c : t[i] = s[at(i)] /\ s[at(i)] \in S
  BY <1>1, <1>3, <1>4
<1>6. t \in Seq(S) /\ Len(t) = c /\ DOMAIN t = 1 .. c
  BY <1>2, <1>3, <1>5
<1>7. ASSUME NEW i \in 1 .. c
      PROVE  /\ i = 1 => \A j \in K : at(i) <= j
             /\ i = c => \A j \in K : j <= at(i)
  BY <1>1, <1>2, <1>4, RankAtEnds DEF c
<1> QED BY <1>2, <1>4, <1>5, <1>6, <1>7 DEF t

--------------------------------------------------------------------------------
(* FlattenSeq, which puts the lower cases of the characters together.         *)

\* Among naturals there is a least.
LEMMA LeastNatural ==
    ASSUME NEW T \in SUBSET Nat, T # {}
    PROVE  \E n \in T : \A m \in T : n <= m
<1>1. PICK n \in T : \A m \in T : <<m, n>> \notin OpToRel(<, Nat)
  BY NatLessThanWellFounded, WFMin
<1>2. \A m \in T : ~(m < n)
  BY <1>1 DEF OpToRel
<1> QED BY <1>2

\* fl strings the first n of the sequences together, one after another.
Strings(ss, n, fl) ==
    fl = [i \in 1 .. n |-> IF i = 1 THEN ss[i] ELSE fl[i - 1] \o ss[i]]

\* Some function does so, and its values are sequences.
LEMMA StringsExist ==
    ASSUME NEW S, NEW ss \in Seq(Seq(S)), NEW n \in 1 .. Len(ss)
    PROVE  \E fl \in [1 .. n -> Seq(S)] : Strings(ss, n, fl)
<1> DEFINE good(m) == \E fl \in [1 .. m -> Seq(S)] : Strings(ss, m, fl)
           bad == {m \in 1 .. Len(ss) : ~good(m)}
<1>0. Len(ss) \in Nat /\ \A i \in 1 .. Len(ss) : ss[i] \in Seq(S)
  OBVIOUS
<1>1. bad = {}
  <2> SUFFICES ASSUME bad # {} PROVE FALSE
    OBVIOUS
  <2>1. PICK m \in bad : \A k \in bad : m <= k
    <3>1. bad \in SUBSET Nat
      BY <1>0
    <3> HIDE DEF bad
    <3> QED BY <3>1, LeastNatural
  <2>2. m \in 1 .. Len(ss) /\ ~good(m)
    OBVIOUS
  <2>3. CASE m = 1
    <3> DEFINE fl == [i \in 1 .. 1 |-> ss[1]]
    <3>1. fl \in [1 .. 1 -> Seq(S)]
      BY <1>0, <2>2, <2>3
    <3>2. fl = [i \in 1 .. 1 |-> IF i = 1 THEN ss[i] ELSE fl[i - 1] \o ss[i]]
      OBVIOUS
    <3> HIDE DEF fl
    <3> QED BY <2>2, <2>3, <3>1, <3>2 DEF Strings
  <2>4. CASE m # 1
    <3>1. m - 1 \in 1 .. Len(ss) /\ ~(m <= m - 1)
      BY <1>0, <2>2, <2>4
    <3>2. good(m - 1)
      BY <2>1, <3>1
    <3> HIDE DEF bad
    <3>3. PICK fl \in [1 .. m - 1 -> Seq(S)] : Strings(ss, m - 1, fl)
      BY <3>2
    <3> DEFINE gl == [i \in 1 .. m |-> IF i = m THEN fl[m - 1] \o ss[m] ELSE fl[i]]
    <3>4. fl[m - 1] \in Seq(S) /\ ss[m] \in Seq(S)
      BY <1>0, <2>2, <2>4
    <3>5. fl[m - 1] \o ss[m] \in Seq(S)
      BY <3>4
    <3>6. gl \in [1 .. m -> Seq(S)]
      <4> SUFFICES ASSUME NEW i \in 1 .. m PROVE gl[i] \in Seq(S)
        OBVIOUS
      <4>1. CASE i = m
        BY <3>5, <4>1
      <4>2. CASE i # m
        <5>1. i \in 1 .. m - 1
          BY <1>0, <2>2, <4>2
        <5> QED BY <4>2, <5>1
      <4> QED BY <4>1, <4>2
    <3>7. ASSUME NEW i \in 1 .. m
          PROVE  gl[i] = IF i = 1 THEN ss[i] ELSE gl[i - 1] \o ss[i]
      <4>1. CASE i = m
        <5>1. m - 1 \in 1 .. m /\ m - 1 # m
          BY <1>0, <2>2, <2>4
        <5> QED BY <2>4, <4>1, <5>1
      <4>2. CASE i # m
        <5>1. i \in 1 .. m - 1 /\ (i # 1 => i - 1 \in 1 .. m /\ i - 1 # m)
          BY <1>0, <2>2, <4>2
        <5>2. fl[i] = IF i = 1 THEN ss[i] ELSE fl[i - 1] \o ss[i]
          BY <3>3, <5>1 DEF Strings
        <5> QED BY <4>2, <5>1, <5>2
      <4> QED BY <4>1, <4>2
    <3>8. gl = [i \in 1 .. m |-> gl[i]]
      OBVIOUS
    <3> HIDE DEF gl
    <3>9. gl = [i \in 1 .. m |-> IF i = 1 THEN ss[i] ELSE gl[i - 1] \o ss[i]]
      BY <3>7, <3>8
    <3> QED BY <2>2, <3>6, <3>9 DEF Strings
  <2> QED BY <2>3, <2>4
<1> QED BY <1>1

\* What FlattenSeq puts together is a sequence over the same set.
LEMMA FlattenIs ==
    ASSUME NEW S, NEW ss \in Seq(Seq(S))
    PROVE  FlattenSeq(ss) \in Seq(S)
<1> DEFINE n == Len(ss)
<1>0. n \in Nat /\ \A i \in 1 .. n : ss[i] \in Seq(S)
  OBVIOUS
<1>1. CASE n = 0
  <2>1. FlattenSeq(ss) = ss
    BY <1>1 DEF FlattenSeq
  <2>2. ss \in Seq(S)
    BY <1>1
  <2> HIDE DEF n
  <2> QED BY <2>1, <2>2, Zenon
<1>2. CASE n # 0
  <2> DEFINE fl == CHOOSE fl : Strings(ss, n, fl)
  <2>1. n \in 1 .. n
    BY <1>0, <1>2
  <2>2. PICK gl \in [1 .. n -> Seq(S)] : Strings(ss, n, gl)
    BY <2>1, StringsExist
  <2>3. FlattenSeq(ss) = fl[n]
    BY <1>2, Zenon DEF FlattenSeq, Strings
  <2>4. Strings(ss, n, fl)
    BY <2>2, Zenon
  <2> HIDE DEF fl
  <2>5. \A i \in 1 .. n : fl[i] = IF i = 1 THEN ss[i] ELSE fl[i - 1] \o ss[i]
    BY <2>4 DEF Strings
  <2> DEFINE wrong == {i \in 1 .. n : fl[i] \notin Seq(S)}
  <2>6. wrong = {}
    <3> SUFFICES ASSUME wrong # {} PROVE FALSE
      OBVIOUS
    <3>1. PICK i \in wrong : \A k \in wrong : i <= k
      <4>1. wrong \in SUBSET Nat
        BY <1>0
      <4> HIDE DEF wrong
      <4> QED BY <4>1, LeastNatural
    <3>2. i \in 1 .. n /\ fl[i] \notin Seq(S)
      OBVIOUS
    <3>3. i # 1 => i - 1 \in 1 .. n /\ ~(i <= i - 1)
      BY <1>0, <3>2
    <3>4. i # 1 => fl[i - 1] \in Seq(S)
      BY <3>1, <3>3
    <3>5. ss[i] \in Seq(S) /\ (i = 1 => fl[i] = ss[i]) /\ (i # 1 => fl[i] = fl[i - 1] \o ss[i])
      BY <1>0, <2>5, <3>2
    <3>6. i # 1 => fl[i - 1] \o ss[i] \in Seq(S)
      <4> HIDE DEF wrong
      <4> QED BY <3>4, <3>5, ConcatProperties
    <3> HIDE DEF wrong
    <3> QED BY <3>2, <3>5, <3>6
  <2>7. fl[n] \in Seq(S)
    BY <2>1, <2>6
  <2> QED BY <2>3, <2>7
<1> QED BY <1>1, <1>2

--------------------------------------------------------------------------------
(* Ids.                                                                      *)

\* Lower case is made of characters too.
LEMMA LoweredIs ==
    ASSUME NEW raw \in Seq(Chars)
    PROVE  Lowered(raw) \in Seq(Chars)
<1> DEFINE ss == [k \in DOMAIN raw |->
                   IF raw[k] \in DOMAIN LowerOf THEN LowerOf[raw[k]] ELSE <<raw[k]>>]
<1>1. Len(raw) \in Nat /\ DOMAIN raw = 1 .. Len(raw) /\ \A k \in DOMAIN raw : raw[k] \in Chars
  OBVIOUS
<1>2. ASSUME NEW k \in DOMAIN raw PROVE ss[k] \in Seq(Chars)
  <2>1. CASE raw[k] \in DOMAIN LowerOf
    BY <2>1, CharsAssumption
  <2>2. CASE raw[k] \notin DOMAIN LowerOf
    BY <1>1, <2>2
  <2> QED BY <2>1, <2>2
<1>3. ss \in Seq(Seq(Chars))
  <2>1. ss = [k \in 1 .. Len(raw) |-> ss[k]]
    BY <1>1
  <2>2. \A k \in 1 .. Len(raw) : ss[k] \in Seq(Chars)
    BY <1>1, <1>2
  <2> HIDE DEF ss
  <2> QED BY <1>1, <2>1, <2>2
<1>4. Lowered(raw) = FlattenSeq(ss)
  BY DEF Lowered
<1> HIDE DEF ss
<1> QED BY <1>3, <1>4, FlattenIs

\* A character of a name for each of the lower case, whatever it was before.
LEMMA ReplacedIs ==
    ASSUME NEW raw \in Seq(Chars)
    PROVE  /\ Replaced(raw) \in Seq(Plain \cup {Dash})
           /\ Len(Replaced(raw)) = Len(Lowered(raw))
<1> DEFINE s == Lowered(raw)
<1>1. s \in Seq(Chars) /\ Len(s) \in Nat /\ DOMAIN s = 1 .. Len(s)
  BY LoweredIs
<1> HIDE DEF s
<1>2. Replaced(raw) = [k \in 1 .. Len(s) |-> IF s[k] \in Plain THEN s[k] ELSE Dash]
  BY <1>1 DEF Replaced, s
<1> QED BY <1>1, <1>2 DEF s

\* What _sanitize_k8s_name returns is short enough, has the characters of a name, and is
\* a word from end to end unless it was cut.
LEMMA SanitizeIs ==
    ASSUME NEW raw \in Seq(Chars), NEW max \in Nat
    PROVE  LET t == Sanitize(raw, max) IN
           /\ t \in Seq(Plain \cup {Dash}) /\ Len(t) <= max
           /\ Len(Lowered(raw)) <= max /\ t # <<>> => t[1] \in Plain /\ t[Len(t)] \in Plain
<1> DEFINE s == Replaced(raw)
           K == Stays(s)
           kept == Kept(s, K)
           t == Sanitize(raw, max)
<1>1. s \in Seq(Plain \cup {Dash}) /\ Len(s) = Len(Lowered(raw)) /\ Len(s) \in Nat
  BY ReplacedIs
<1>2. t = Cut(kept, max)
  BY DEF Sanitize
<1> HIDE DEF s
<1>3. K \in SUBSET DOMAIN s
  BY DEF Stays
<1>4. \A k \in K : /\ (\A j \in K : k <= j) => s[k] \in Plain
                   /\ (\A j \in K : j <= k) => s[k] \in Plain
  <2> SUFFICES ASSUME NEW k \in K, s[k] \notin Plain
               PROVE  (\E j \in K : j < k) /\ (\E j \in K : k < j)
    BY <1>1, <1>3
  <2>1. k \in 1 .. Len(s) /\ s[k] = Dash
    BY <1>1, <1>3
  <2>2. k > 1 /\ s[k - 1] # Dash /\ \E j \in k + 1 .. Len(s) : s[j] # Dash
    BY <2>1 DEF Stays
  <2>3. k - 1 \in K /\ k - 1 < k
    BY <1>1, <2>1, <2>2 DEF Stays
  <2>4. PICK j \in k + 1 .. Len(s) : s[j] # Dash
    BY <2>2
  <2>5. j \in K /\ k < j
    BY <1>1, <2>1, <2>4 DEF Stays
  <2> QED BY <2>3, <2>5
<1>5. /\ kept \in Seq(Plain \cup {Dash}) /\ Len(kept) <= Len(s) /\ Len(kept) \in Nat
      /\ \A i \in DOMAIN kept : \E k \in K :
           /\ kept[i] = s[k]
           /\ i = 1 => \A j \in K : k <= j
           /\ i = Len(kept) => \A j \in K : j <= k
  <2> HIDE DEF K
  <2> QED BY <1>1, <1>3, KeptIs
<1> HIDE DEF K, kept
<1>6. t \in Seq(Plain \cup {Dash}) /\ Len(t) <= max /\ (Len(kept) <= max => t = kept)
  BY <1>2, <1>5, CutIs
<1>7. ASSUME Len(Lowered(raw)) <= max, t # <<>> PROVE t[1] \in Plain /\ t[Len(t)] \in Plain
  <2>1. t = kept
    BY <1>1, <1>5, <1>6, <1>7
  <2>2. 1 \in DOMAIN kept /\ Len(kept) \in DOMAIN kept
    BY <1>5, <1>7, <2>1
  <2> QED BY <1>4, <1>5, <2>1, <2>2
<1> HIDE DEF t
<1> QED BY <1>6, <1>7 DEF t

--------------------------------------------------------------------------------
(* Names and labels.                                                         *)

\* A text between three characters and two.
LEMMA Framed ==
    ASSUME NEW S, NEW a \in S, NEW b \in S, NEW c \in S, NEW s \in Seq(S), NEW d \in S,
           NEW e \in S
    PROVE  LET x == <<a, b, c>> \o s \o <<d>> \o <<e>> IN
           /\ x \in Seq(S) /\ Len(x) = Len(s) + 5
           /\ x[1] = a /\ x[Len(x)] = e
           /\ \A k \in 1 .. Len(s) : x[k + 3] = s[k]
<1> DEFINE lead == <<a, b, c>>
           y == lead \o s
           z == y \o <<d>>
           x == z \o <<e>>
<1>1. lead \in Seq(S) /\ Len(lead) = 3 /\ lead[1] = a
  OBVIOUS
<1>2. Len(s) \in Nat
  OBVIOUS
<1> HIDE DEF lead
<1>3. /\ y \in Seq(S) /\ Len(y) = Len(s) + 3 /\ y[1] = a
      /\ \A k \in 1 .. Len(s) : y[k + 3] = s[k]
  <2>1. /\ y \in Seq(S) /\ Len(y) = Len(lead) + Len(s)
        /\ \A m \in 1 .. Len(lead) + Len(s) :
              y[m] = IF m <= Len(lead) THEN lead[m] ELSE s[m - Len(lead)]
    BY <1>1, <1>2, ConcatProperties, Zenon
  <2>2. y[1] = a /\ Len(y) = Len(s) + 3
    <3> HIDE DEF y
    <3> QED BY <1>1, <1>2, <2>1
  <2>3. ASSUME NEW k \in 1 .. Len(s) PROVE y[k + 3] = s[k]
    <3>1. k + 3 \in 1 .. Len(lead) + Len(s) /\ ~(k + 3 <= Len(lead)) /\ (k + 3) - Len(lead) = k
      BY <1>1, <1>2
    <3> HIDE DEF y
    <3> QED BY <2>1, <3>1
  <2> QED BY <2>1, <2>2, <2>3
<1> HIDE DEF y
<1>4. /\ z \in Seq(S) /\ Len(z) = Len(s) + 4 /\ \A k \in 1 .. Len(s) + 3 : z[k] = y[k]
  BY <1>2, <1>3
<1> HIDE DEF z
<1>5. /\ x \in Seq(S) /\ Len(x) = Len(s) + 5 /\ x[Len(s) + 5] = e
      /\ \A k \in 1 .. Len(s) + 4 : x[k] = z[k]
  BY <1>2, <1>4
<1> HIDE DEF x
<1>6. x[1] = a /\ x[Len(x)] = e /\ \A k \in 1 .. Len(s) : x[k + 3] = s[k]
  <2>1. 1 \in 1 .. Len(s) + 3 /\ 1 \in 1 .. Len(s) + 4
    BY <1>2
  <2>2. \A k \in 1 .. Len(s) : k + 3 \in 1 .. Len(s) + 3 /\ k + 3 \in 1 .. Len(s) + 4
    BY <1>2
  <2> QED BY <1>3, <1>4, <1>5, <2>1, <2>2
<1> QED BY <1>5, <1>6 DEF x, z, y, lead

\* The characters of a name may stand in any text.
LEMMA NamesAreTexts ==
    /\ Names \subseteq Seq(Chars)
    /\ {"a", "t", "l", "h", Dash} \subseteq Plain \cup {Dash}
    /\ \A n \in 0 .. Seconds - 1 : DigitOf[n] \in Plain
    /\ Dash \notin Plain /\ Plain \cap Foreign = {} /\ Dash \notin Foreign
    /\ Ids \subseteq Seq(Chars)
<1>1. Plain \cup {Dash} \subseteq Chars
  BY DEF Chars
<1>2. Names \subseteq Seq(Chars)
  BY <1>1 DEF Names
<1> QED BY <1>2, CharsAssumption

\* No cut reaches the time: the name of a task is a valid one and ends in its time.
LEMMA TaskNameIs ==
    ASSUME NEW text \in Names, Len(text) <= FragmentMax, second \in 0 .. Seconds - 1
    PROVE  LET name == Cut(<<"a", "t", Dash>> \o text \o <<Dash>> \o Time, LabelMax) IN
           /\ name \in Names /\ name # <<>> /\ name[Len(name)] = DigitOf[second]
           /\ ValidName(name)
<1> DEFINE x == <<"a", "t", Dash>> \o text \o <<Dash>> \o <<DigitOf[second]>>
           S == Plain \cup {Dash}
<1>1. /\ {"a", "t", Dash, DigitOf[second]} \subseteq S /\ text \in Seq(S)
      /\ {"a", DigitOf[second]} \subseteq Plain /\ Dash \notin Plain
  BY NamesAreTexts, CharsAssumption DEF Names
<1>2. /\ x \in Seq(S) /\ Len(x) = Len(text) + 5 /\ x[1] = "a"
      /\ x[Len(x)] = DigitOf[second]
  <2> HIDE DEF S
  <2> QED BY <1>1, Framed
<1>3. Cut(<<"a", "t", Dash>> \o text \o <<Dash>> \o Time, LabelMax) = Cut(x, LabelMax)
  BY DEF Time
<1>4. Len(text) \in Nat
  BY <1>1
<1> HIDE DEF x
<1>5. Cut(x, LabelMax) = x
  BY <1>2, <1>4, Lengths, CutIs
<1>6. x # <<>> /\ \A k \in DOMAIN x : x[k] \in S
  BY <1>2, <1>4
<1> QED BY <1>1, <1>2, <1>3, <1>5, <1>6 DEF ValidName, Names

\* The text in the middle of each kind of name.
LEMMA MiddlesAre ==
    /\ \A id \in Ids : Sanitize(id, FragmentMax) \in Names /\ Len(Sanitize(id, FragmentMax)) <= FragmentMax
    /\ \A id \in Ids : Sanitize(id, LabelMax) \in Names /\ Len(Sanitize(id, LabelMax)) <= LabelMax
    /\ \A n \in Indexes : /\ StandbyPrefix \o <<DigitOf[n]>> \in Names
                          /\ Len(StandbyPrefix \o <<DigitOf[n]>>) <= FragmentMax
<1>1. Ids \subseteq Seq(Chars) /\ FragmentMax \in Nat /\ LabelMax \in Nat
  BY NamesAreTexts, Lengths
<1>2. ASSUME NEW n \in Indexes
      PROVE  /\ StandbyPrefix \o <<DigitOf[n]>> \in Names
             /\ Len(StandbyPrefix \o <<DigitOf[n]>>) <= FragmentMax
  <2>1. DigitOf[n] \in Plain \cup {Dash}
    BY CharsAssumption, NamesAreTexts
  <2> QED BY <2>1, Lengths DEF Names
<1> QED BY <1>1, <1>2, SanitizeIs DEF Names

\* An id whose lower case is no longer than a label gives a label that the API server takes.
LEMMA ShortIdsAreTaken ==
    ASSUME NEW id \in Ids, Len(Lowered(id)) <= LabelMax, second \in 0 .. Seconds - 1
    PROVE  ValidName(TaskName(id)) /\ ValidLabel(Sanitize(id, LabelMax))
<1> DEFINE t == Sanitize(id, LabelMax)
<1>1. ValidName(TaskName(id))
  BY MiddlesAre, TaskNameIs DEF TaskName
<1>2. /\ t \in Seq(Plain \cup {Dash}) /\ Len(t) <= LabelMax
      /\ t # <<>> => t[1] \in Plain /\ t[Len(t)] \in Plain
  BY NamesAreTexts, Lengths, SanitizeIs
<1> HIDE DEF t
<1>3. \A k \in DOMAIN t : t[k] \notin Foreign
  BY <1>2, NamesAreTexts
<1>4. ValidLabel(t)
  BY <1>2, <1>3 DEF ValidLabel
<1> QED BY <1>1, <1>4 DEF t

\* An id begins like those of standby tasks if it does so in the pod's label.
LEMMA LabelsKeepPrefix ==
    ASSUME NEW id \in Seq(Chars)
    PROVE  /\ Cut(id, LabelMax) \in Seq(Chars)
           /\ StartsWith(Cut(id, LabelMax), StandbyPrefix) <=> StartsWith(id, StandbyPrefix)
<1> DEFINE n == Len(StandbyPrefix)
           label == Cut(id, LabelMax)
           x == Cut(label, n)
           y == Cut(id, n)
<1>1. n \in Nat /\ LabelMax \in Nat /\ n <= LabelMax /\ Len(id) \in Nat
  BY Lengths
<1>2. /\ label \in Seq(Chars) /\ Len(label) = IF Len(id) < LabelMax THEN Len(id) ELSE LabelMax
      /\ \A k \in DOMAIN label : label[k] = id[k]
  BY <1>1, CutIs
<1> HIDE DEF n, label
<1>3. /\ x \in Seq(Chars) /\ Len(x) = (IF Len(label) < n THEN Len(label) ELSE n)
      /\ \A k \in DOMAIN x : k \in DOMAIN label /\ x[k] = label[k]
  BY <1>1, <1>2, CutIs
<1>4. /\ y \in Seq(Chars) /\ Len(y) = (IF Len(id) < n THEN Len(id) ELSE n)
      /\ \A k \in DOMAIN y : y[k] = id[k]
  BY <1>1, CutIs
<1> HIDE DEF x, y
<1>5. Len(x) = Len(y)
  BY <1>1, <1>2, <1>3, <1>4
<1>6. \A k \in 1 .. Len(x) : x[k] = y[k]
  BY <1>2, <1>3, <1>4, <1>5
<1>7. x = y
  BY <1>3, <1>4, <1>5, <1>6, SeqEqual
<1> QED BY <1>2, <1>7 DEF StartsWith, x, y, label, n

\* The ids of standby tasks do.
LEMMA StandbyIdsAre ==
    ASSUME NEW n \in Indexes
    PROVE  StandbyId(n) \in Seq(Chars) /\ StartsWith(StandbyId(n), StandbyPrefix)
<1> DEFINE m == Len(StandbyPrefix)
           x == Cut(StandbyId(n), m)
<1>1. StandbyId(n) \in Names /\ Names \subseteq Seq(Chars)
  BY MiddlesAre, NamesAreTexts DEF StandbyId
<1>2. DigitOf[n] \in Plain \cup {Dash} /\ m \in Nat /\ StandbyPrefix \in Seq(Plain \cup {Dash})
  BY CharsAssumption, NamesAreTexts, Lengths
<1>3. Len(StandbyId(n)) = m + 1 /\ \A k \in 1 .. m : StandbyId(n)[k] = StandbyPrefix[k]
  BY <1>2 DEF StandbyId
<1>4. /\ x \in Seq(Plain \cup {Dash}) /\ Len(x) = (IF Len(StandbyId(n)) < m THEN Len(StandbyId(n)) ELSE m)
      /\ \A k \in DOMAIN x : x[k] = StandbyId(n)[k]
  <2> HIDE DEF m
  <2> QED BY <1>1, <1>2, CutIs DEF Names
<1> HIDE DEF x
<1>5. Len(x) = m /\ \A k \in 1 .. m : x[k] = StandbyPrefix[k]
  BY <1>2, <1>3, <1>4
<1>6. x = StandbyPrefix
  BY <1>2, <1>4, <1>5, SeqEqual
<1> QED BY <1>1, <1>6 DEF StartsWith, x

--------------------------------------------------------------------------------
(* Steps.                                                                    *)

\* Nothing is there in the beginning.
LEMMA NamesInit == Init => NamesInvariant
<1>1. Seconds \in Nat /\ Seconds > 0
  BY Lengths
<1> QED
  BY <1>1 DEF Init, NamesInvariant, TypeOK, OneTaskPerName, NamesEndInTime, TwoOrigins, PodsFit,
     OnlyCutIdsAreRefused, FailedTaskHasAReason

\* Pods fit the tasks as long as both stay, and so do the reasons of failed tasks.
LEMMA SameTasksKeep ==
    ASSUME NamesInvariant, UNCHANGED <<tasks, pods>>
    PROVE  /\ OneTaskPerName' /\ NamesEndInTime' /\ TwoOrigins' /\ PodsFit'
           /\ FailedTaskHasAReason'
BY DEF NamesInvariant, OneTaskPerName, NamesEndInTime, TwoOrigins, PodsFit, PodLabel,
   FailedTaskHasAReason

\* A task that is made now takes nothing from those there are.
LEMMA SubmitKeeps ==
    ASSUME NamesInvariant, NEW name \in Names, name # <<>>, name[Len(name)] = DigitOf[second],
           NEW id \in Seq(Chars), NEW label \in Seq(Chars), NEW type \in {"execute", "standby"},
           \/ id \in Ids /\ type = "execute"
           \/ StartsWith(id, StandbyPrefix) /\ type = "standby",
           Submit(Task(name, id, label, type)),
           pending' \subseteq Ids, UNCHANGED <<refused, plans, pods, second>>
    PROVE  NamesInvariant'
<1> DEFINE task == Task(name, id, label, type)
<1>1. /\ tasks \subseteq TaskType /\ second \in 0 .. Seconds - 1
      /\ OneTaskPerName /\ NamesEndInTime /\ TwoOrigins /\ PodsFit /\ FailedTaskHasAReason
  BY DEF NamesInvariant, TypeOK
<1>2. /\ task \in TaskType /\ task.name = name /\ task.id = id /\ task.type = type
      /\ task.phase = "new" /\ task.made = second /\ ~task.activated
  BY <1>1 DEF Task, TaskType
<1>3. tasks' = tasks \cup {task} /\ \A other \in tasks : other.name # name
  BY DEF Submit, Task
<1> HIDE DEF task
<1>4. TypeOK'
  BY <1>2, <1>3 DEF NamesInvariant, TypeOK, TaskType, PodType
<1>5. OneTaskPerName'
  BY <1>1, <1>2, <1>3 DEF OneTaskPerName
<1>6. NamesEndInTime'
  BY <1>1, <1>2, <1>3 DEF NamesEndInTime
<1>7. TwoOrigins'
  BY <1>1, <1>2, <1>3 DEF TwoOrigins, StartsWith
<1>8. PodsFit'
  <2> SUFFICES ASSUME NEW pod \in pods
               PROVE  \E t \in tasks' :
                        /\ pod.task = t.name /\ t.phase = "spawned" /\ t.pod = pod.name
                        /\ pod.label = PodLabel(t)
                        /\ pod.sleeps <=> t.type = "standby"
                        /\ \E n \in 0 .. Seconds - 1 :
                              pod.name = <<"l", "h", Dash>> \o Cut(t.name, PodMax)
                                           \o <<Dash>> \o <<DigitOf[n]>>
    BY Zenon DEF PodsFit, PodLabel
  <2> QED BY <1>1, <1>3 DEF PodsFit
<1>9. FailedTaskHasAReason'
  <2> SUFFICES ASSUME NEW t \in tasks', t.phase = "Failed", ValidLabel(Cut(t.id, LabelMax))
               PROVE  \E other \in tasks' \ {t} : Cut(other.name, PodMax) = Cut(t.name, PodMax)
    BY DEF FailedTaskHasAReason
  <2>1. t \in tasks
    BY <1>2, <1>3
  <2>2. PICK other \in tasks \ {t} : Cut(other.name, PodMax) = Cut(t.name, PodMax)
    BY <1>1, <2>1 DEF FailedTaskHasAReason
  <2> QED BY <1>3, <2>2
<1>10. OnlyCutIdsAreRefused'
  BY DEF NamesInvariant, OnlyCutIdsAreRefused
<1> QED BY <1>4, <1>5, <1>6, <1>7, <1>8, <1>9, <1>10 DEF NamesInvariant

\* The task a pod belongs to is spawned, and names the pod.
LEMMA PodIsOfTask ==
    ASSUME NamesInvariant, NEW pod \in pods, NEW task \in tasks, pod.task = task.name
    PROVE  /\ task.phase = "spawned" /\ task.pod = pod.name /\ pod.label = PodLabel(task)
           /\ pod.sleeps <=> task.type = "standby"
<1>1. PICK owner \in tasks :
         /\ pod.task = owner.name /\ owner.phase = "spawned" /\ owner.pod = pod.name
         /\ pod.label = PodLabel(owner)
         /\ pod.sleeps <=> owner.type = "standby"
  BY DEF NamesInvariant, PodsFit
<1>2. owner = task
  BY <1>1 DEF NamesInvariant, OneTaskPerName
<1> QED BY <1>1, <1>2

\* The name of a pod: a task's name cut and framed, with the digit of its second.
PodText(s, n) == <<"l", "h", Dash>> \o s \o <<Dash>> \o <<DigitOf[n]>>

\* Two pods of one name carry the same cut of their tasks' names.
LEMMA PodNamesAgree ==
    ASSUME NEW s \in Seq(Plain \cup {Dash}), NEW t \in Seq(Plain \cup {Dash}),
           NEW n \in 0 .. Seconds - 1, NEW k \in 0 .. Seconds - 1,
           PodText(s, n) = PodText(t, k)
    PROVE  s = t
<1> DEFINE S == Plain \cup {Dash}  e == DigitOf[n]  f == DigitOf[k]
           x == <<"l", "h", Dash>> \o s \o <<Dash>> \o <<e>>
           y == <<"l", "h", Dash>> \o t \o <<Dash>> \o <<f>>
<1>1. {"l", "h", Dash, e, f} \subseteq S /\ s \in Seq(S) /\ t \in Seq(S)
  BY NamesAreTexts
<1>2. Len(x) = Len(s) + 5 /\ \A i \in 1 .. Len(s) : x[i + 3] = s[i]
  <2> HIDE DEF S, e
  <2> QED BY <1>1, Framed
<1>3. Len(y) = Len(t) + 5 /\ \A i \in 1 .. Len(t) : y[i + 3] = t[i]
  <2> HIDE DEF S, f
  <2> QED BY <1>1, Framed
<1>4. x = y
  BY DEF PodText
<1> HIDE DEF x, y
<1>5. Len(s) = Len(t) /\ \A i \in 1 .. Len(s) : s[i] = t[i]
  BY <1>1, <1>2, <1>3, <1>4
<1> HIDE DEF S
<1> QED BY <1>1, <1>5, SeqEqual

\* A task that is given a pod, or refused one, and that had no other.
LEMMA SpawnKeeps ==
    ASSUME NamesInvariant, NEW old \in tasks, NEW task \in TaskType,
           task.name = old.name, task.id = old.id, task.made = old.made,
           \/ task.id \in Ids /\ task.type = "execute" /\ ~task.activated
           \/ StartsWith(task.id, StandbyPrefix) /\ (task.activated <=> task.type = "execute"),
           NEW others \in SUBSET pods, \A p \in others : p.task # old.name,
           Spawn(task, others), UNCHANGED <<pending, plans, refused, second>>
    PROVE  NamesInvariant'
<1> DEFINE pod == [name |-> PodName(task), label |-> PodLabel(task), task |-> task.name,
                   sleeps |-> task.type = "standby", running |-> TRUE]
           admitted == ValidLabel(pod.label) /\ \A other \in others : other.name # pod.name
           new == [task EXCEPT !.pod = IF admitted THEN pod.name ELSE NoPod,
                               !.phase = IF admitted THEN "spawned" ELSE "Failed"]
<1>1. /\ tasks \subseteq TaskType /\ pods \subseteq PodType /\ second \in 0 .. Seconds - 1
      /\ OneTaskPerName /\ NamesEndInTime /\ TwoOrigins /\ PodsFit /\ FailedTaskHasAReason
  BY DEF NamesInvariant, TypeOK
<1>2. /\ pods' = IF admitted THEN others \cup {pod} ELSE others
      /\ tasks' = (tasks \ {t \in tasks : t.name = task.name}) \cup {new}
  BY Zenon DEF Spawn
<1>3. /\ task.name \in Names /\ task.id \in Seq(Chars) /\ old.name \in Names
      /\ task.name # <<>> /\ task.name[Len(task.name)] = DigitOf[task.made]
  BY <1>1 DEF TaskType, NamesEndInTime
<1>4. /\ pod.name = <<"l", "h", Dash>> \o Cut(task.name, PodMax) \o <<Dash>> \o <<DigitOf[second]>>
      /\ pod.name \in Names
  <2>1. Cut(task.name, PodMax) \in Seq(Plain \cup {Dash})
    BY <1>3, Lengths, CutIs DEF Names
  <2>2. {"l", "h", Dash, DigitOf[second]} \subseteq Plain \cup {Dash}
    BY <1>1, NamesAreTexts
  <2>3. pod.name = <<"l", "h", Dash>> \o Cut(task.name, PodMax) \o <<Dash>> \o <<DigitOf[second]>>
    BY DEF PodName, Time
  <2> HIDE DEF pod
  <2> QED BY <2>1, <2>2, <2>3, Framed DEF Names
<1>5. /\ pod \in PodType /\ pod.task = task.name /\ pod.label = Cut(task.id, LabelMax)
      /\ pod.sleeps <=> task.type = "standby"
  <2>1. Cut(task.id, LabelMax) \in Seq(Chars)
    BY <1>3, LabelsKeepPrefix
  <2> QED BY <1>3, <1>4, <2>1 DEF PodType, PodLabel
<1> HIDE DEF pod, admitted
<1>6. /\ new \in TaskType /\ new.name = task.name /\ new.id = task.id /\ new.made = task.made
      /\ new.type = task.type /\ new.activated = task.activated
      /\ admitted => new.phase = "spawned" /\ new.pod = pod.name
      /\ new.phase = "Failed" => ~admitted
  BY <1>4 DEF TaskType
<1> HIDE DEF new
<1>7. \A t : t \in tasks' <=> t = new \/ (t \in tasks /\ t.name # old.name)
  BY <1>2
<1>8. TypeOK'
  <2>1. tasks' \subseteq TaskType /\ pods' \subseteq PodType
    BY <1>1, <1>2, <1>5, <1>6
  <2> QED BY <2>1 DEF NamesInvariant, TypeOK, TaskType, PodType
<1>9. OneTaskPerName'
  BY <1>1, <1>6, <1>7 DEF OneTaskPerName
<1>10. NamesEndInTime'
  BY <1>1, <1>3, <1>6, <1>7 DEF NamesEndInTime
<1>11. TwoOrigins'
  BY <1>1, <1>6, <1>7 DEF TwoOrigins, StartsWith
<1>12. PodsFit'
  <2> DEFINE Owns(t, p) ==
               /\ p.task = t.name /\ t.phase = "spawned" /\ t.pod = p.name
               /\ p.label = PodLabel(t)
               /\ p.sleeps <=> t.type = "standby"
               /\ \E n \in 0 .. Seconds - 1 :
                    p.name = <<"l", "h", Dash>> \o Cut(t.name, PodMax) \o <<Dash>> \o <<DigitOf[n]>>
  <2> SUFFICES ASSUME NEW p \in pods' PROVE \E t \in tasks' : Owns(t, p)
    BY DEF PodsFit, PodLabel
  <2>1. CASE p \in others
    <3>1. PICK t \in tasks : Owns(t, p)
      BY <1>1, <2>1 DEF PodsFit
    <3>2. t \in tasks'
      BY <1>7, <2>1, <3>1
    <3> QED BY <3>1, <3>2
  <2>2. CASE admitted /\ p = pod
    <3>1. new.phase = "spawned" /\ new.pod = pod.name /\ new \in tasks'
      BY <1>6, <1>7, <2>2
    <3>2. Cut(new.name, PodMax) = Cut(task.name, PodMax)
      BY <1>6
    <3>3. Owns(new, pod)
      BY <1>1, <1>4, <1>5, <1>6, <3>1, <3>2 DEF PodLabel
    <3> QED BY <2>2, <3>1, <3>3
  <2> QED BY <1>2, <2>1, <2>2
<1>13. FailedTaskHasAReason'
  <2> SUFFICES ASSUME NEW t \in tasks', t.phase = "Failed", ValidLabel(Cut(t.id, LabelMax))
               PROVE  \E other \in tasks' \ {t} : Cut(other.name, PodMax) = Cut(t.name, PodMax)
    BY DEF FailedTaskHasAReason
  <2>1. CASE t = new
    <3>1. PICK p \in others : p.name = pod.name
      BY <1>5, <1>6, <2>1 DEF admitted
    <3>2. PICK u \in tasks, n \in 0 .. Seconds - 1 :
            /\ p.task = u.name
            /\ p.name = <<"l", "h", Dash>> \o Cut(u.name, PodMax) \o <<Dash>> \o <<DigitOf[n]>>
      BY <1>1, <3>1 DEF PodsFit
    <3>3. u.name # old.name /\ u \in tasks' /\ u # new
      BY <1>6, <1>7, <3>1, <3>2
    <3>4. Cut(u.name, PodMax) = Cut(task.name, PodMax)
      <4> DEFINE r == Cut(u.name, PodMax)  q == Cut(task.name, PodMax)
      <4>1. u.name \in Names
        BY <1>1 DEF TaskType
      <4>2. r \in Seq(Plain \cup {Dash}) /\ q \in Seq(Plain \cup {Dash})
        BY <1>3, <4>1, Lengths, CutIs DEF Names
      <4>3. PodText(r, n) = PodText(q, second)
        BY <1>4, <3>1, <3>2 DEF PodText
      <4>4. second \in 0 .. Seconds - 1
        BY <1>1 DEF TypeOK
      <4> HIDE DEF r, q
      <4>5. r = q
        BY <4>2, <4>3, <4>4, PodNamesAgree
      <4> QED BY <4>5 DEF r, q
    <3> QED BY <1>6, <2>1, <3>3, <3>4
  <2>2. CASE t # new
    <3>1. t \in tasks /\ t.name # old.name
      BY <1>7, <2>2
    <3>2. PICK other \in tasks \ {t} : Cut(other.name, PodMax) = Cut(t.name, PodMax)
      BY <1>1, <3>1 DEF FailedTaskHasAReason
    <3>3. CASE other.name = old.name
      BY <1>6, <1>7, <2>2, <3>2, <3>3
    <3>4. CASE other.name # old.name
      BY <1>7, <3>2, <3>4
    <3> QED BY <3>3, <3>4
  <2> QED BY <2>1, <2>2
<1>14. OnlyCutIdsAreRefused'
  BY DEF NamesInvariant, OnlyCutIdsAreRefused
<1> QED BY <1>8, <1>9, <1>10, <1>11, <1>12, <1>13, <1>14 DEF NamesInvariant

\* A pod that ends changes nothing else.
LEMMA PodEndsKeeps ==
    ASSUME NamesInvariant, NEW pod \in pods, PodEnds(pod)
    PROVE  NamesInvariant'
<1> DEFINE ended == [pod EXCEPT !.running = FALSE]
<1>1. /\ pods' = (pods \ {pod}) \cup {ended} /\ tasks' = tasks
      /\ UNCHANGED <<pending, plans, refused, second>>
  BY DEF PodEnds
<1>2. pod \in PodType
  BY DEF NamesInvariant, TypeOK
<1>3. /\ ended \in PodType /\ ended.name = pod.name /\ ended.label = pod.label
      /\ ended.task = pod.task /\ ended.sleeps = pod.sleeps
  BY <1>2 DEF PodType
<1> HIDE DEF ended
<1>4. TypeOK'
  BY <1>1, <1>3 DEF NamesInvariant, TypeOK, TaskType, PodType
<1>5. PodsFit'
  <2> SUFFICES ASSUME NEW p \in pods'
               PROVE  \E t \in tasks :
                        /\ p.task = t.name /\ t.phase = "spawned" /\ t.pod = p.name
                        /\ p.label = PodLabel(t)
                        /\ p.sleeps <=> t.type = "standby"
                        /\ \E n \in 0 .. Seconds - 1 :
                              p.name = <<"l", "h", Dash>> \o Cut(t.name, PodMax)
                                         \o <<Dash>> \o <<DigitOf[n]>>
    BY <1>1, Zenon DEF PodsFit, PodLabel
  <2>1. PICK q \in pods : /\ p.name = q.name /\ p.label = q.label /\ p.task = q.task
                          /\ p.sleeps = q.sleeps
    BY <1>1, <1>3
  <2> QED BY <2>1 DEF NamesInvariant, PodsFit
<1>6. OneTaskPerName' /\ NamesEndInTime' /\ TwoOrigins' /\ FailedTaskHasAReason'
  BY <1>1 DEF NamesInvariant, OneTaskPerName, NamesEndInTime, TwoOrigins, StartsWith,
     FailedTaskHasAReason
<1>7. OnlyCutIdsAreRefused'
  BY <1>1 DEF NamesInvariant, OnlyCutIdsAreRefused
<1> QED BY <1>4, <1>5, <1>6, <1>7 DEF NamesInvariant

\* A handshake becomes a task, or its id is one that is too long.
LEMMA DispatchKeeps ==
    ASSUME NamesInvariant, NEW id \in Ids, Dispatch(id)
    PROVE  NamesInvariant'
<1> DEFINE task == Task(TaskName(id), id, Sanitize(id, LabelMax), "execute")
<1>1. second \in 0 .. Seconds - 1 /\ pending \subseteq Ids /\ id \in Seq(Chars)
  BY NamesAreTexts DEF NamesInvariant, TypeOK
<1>2. task.name = TaskName(id) /\ task.label = Sanitize(id, LabelMax)
  BY DEF Task
<1>3. /\ \/ /\ Submit(task) /\ pending' = pending \ {id} /\ UNCHANGED refused
         \/ /\ ~(ValidName(TaskName(id)) /\ ValidLabel(Sanitize(id, LabelMax)))
            /\ refused' = refused \cup {id} /\ UNCHANGED <<tasks, pending>>
      /\ UNCHANGED <<plans, pods, second>>
  <2> HIDE DEF task
  <2>1. Dispatch(id) <=>
          /\ id \in pending
          /\ IF ValidName(task.name) /\ ValidLabel(task.label)
             THEN Submit(task) /\ pending' = pending \ {id} /\ UNCHANGED refused
             ELSE refused' = refused \cup {id} /\ UNCHANGED <<tasks, pending>>
          /\ UNCHANGED <<plans, pods, second>>
    BY Zenon DEF Dispatch, task
  <2> QED BY <1>2, <2>1
<1>4. CASE Submit(task) /\ pending' = pending \ {id} /\ UNCHANGED refused
  <2>1. /\ TaskName(id) \in Names /\ TaskName(id) # <<>>
        /\ TaskName(id)[Len(TaskName(id))] = DigitOf[second]
    BY <1>1, MiddlesAre, TaskNameIs DEF TaskName
  <2>2. Sanitize(id, LabelMax) \in Seq(Chars)
    BY MiddlesAre, NamesAreTexts
  <2>3. pending' \subseteq Ids /\ UNCHANGED <<refused, plans, pods, second>>
    BY <1>1, <1>3, <1>4
  <2> QED BY <1>1, <1>4, <2>1, <2>2, <2>3, SubmitKeeps
<1>5. CASE /\ ~(ValidName(TaskName(id)) /\ ValidLabel(Sanitize(id, LabelMax)))
           /\ refused' = refused \cup {id} /\ UNCHANGED <<tasks, pending>>
  <2>1. Len(Lowered(id)) > LabelMax
    <3>1. ~(Len(Lowered(id)) <= LabelMax)
      BY <1>1, <1>5, ShortIdsAreTaken
    <3>2. Len(Lowered(id)) \in Nat /\ LabelMax \in Nat
      BY <1>1, LoweredIs, Lengths
    <3> QED BY <3>1, <3>2
  <2>2. OnlyCutIdsAreRefused'
    BY <1>5, <2>1 DEF NamesInvariant, OnlyCutIdsAreRefused
  <2>3. TypeOK'
    BY <1>1, <1>3, <1>5 DEF NamesInvariant, TypeOK, TaskType, PodType
  <2> QED BY <1>3, <1>5, <2>2, <2>3, SameTasksKeep DEF NamesInvariant
<1> QED BY <1>3, <1>4, <1>5

\* Every step keeps the invariant.
LEMMA NamesNext == NamesInvariant /\ [Next]_vars => NamesInvariant'
<1> SUFFICES ASSUME NamesInvariant, [Next]_vars PROVE NamesInvariant'
  OBVIOUS
<1>0. /\ tasks \subseteq TaskType /\ second \in 0 .. Seconds - 1 /\ pending \subseteq Ids
      /\ refused \subseteq Ids /\ plans \in Nat
  BY DEF NamesInvariant, TypeOK
<1>1. ASSUME NEW id \in Ids, Plan(id) PROVE NamesInvariant'
  <2>1. TypeOK' /\ OnlyCutIdsAreRefused'
    BY <1>0, <1>1 DEF Plan, NamesInvariant, TypeOK, TaskType, PodType, OnlyCutIdsAreRefused
  <2> QED BY <1>1, <2>1, SameTasksKeep DEF Plan, NamesInvariant
<1>2. ASSUME NEW id \in Ids, Dispatch(id) PROVE NamesInvariant'
  BY <1>2, DispatchKeeps
<1>3. ASSUME NEW n \in Indexes, CreateStandby(n) PROVE NamesInvariant'
  <2>1. /\ Submit(Task(StandbyName(n), StandbyId(n), StandbyId(n), "standby"))
        /\ UNCHANGED <<pending, plans, pods, refused, second>>
    BY <1>3 DEF CreateStandby
  <2>2. /\ StandbyName(n) \in Names /\ StandbyName(n) # <<>>
        /\ StandbyName(n)[Len(StandbyName(n))] = DigitOf[second]
    BY <1>0, MiddlesAre, TaskNameIs DEF StandbyName
  <2>3. StandbyId(n) \in Seq(Chars) /\ StartsWith(StandbyId(n), StandbyPrefix)
    BY StandbyIdsAre
  <2> QED BY <1>0, <2>1, <2>2, <2>3, SubmitKeeps
<1>4. ASSUME NEW task \in tasks, TaskCreated(task) PROVE NamesInvariant'
  <2>1. /\ task.phase = "new" /\ Spawn(task, pods) /\ UNCHANGED <<pending, plans, refused, second>>
    BY <1>4 DEF TaskCreated
  <2>2. \A p \in pods : p.task # task.name
    BY <2>1, PodIsOfTask
  <2>3. task \in TaskType /\ TwoOrigins
    BY <1>0 DEF NamesInvariant
  <2> QED BY <2>1, <2>2, <2>3, SpawnKeeps DEF TwoOrigins
<1>5. ASSUME NEW task \in tasks, Activate(task) PROVE NamesInvariant'
  <2> DEFINE active == [task EXCEPT !.type = "execute", !.activated = TRUE]
             others == {pod \in pods : pod.name # task.pod}
  <2>1. /\ task.type = "standby" /\ Spawn(active, others)
        /\ UNCHANGED <<pending, plans, refused, second>>
    BY <1>5 DEF Activate
  <2>2. \A p \in others : p.task # task.name
    BY PodIsOfTask
  <2>3. task \in TaskType /\ StartsWith(task.id, StandbyPrefix)
    BY <1>0, <2>1 DEF NamesInvariant, TwoOrigins
  <2>4. /\ active \in TaskType /\ active.name = task.name /\ active.id = task.id
        /\ active.made = task.made /\ active.type = "execute" /\ active.activated = TRUE
    BY <2>3 DEF TaskType
  <2>5. others \in SUBSET pods
    OBVIOUS
  <2> HIDE DEF active, others
  <2> QED BY <2>1, <2>2, <2>3, <2>4, <2>5, SpawnKeeps
<1>6. ASSUME NEW pod \in pods, PodEnds(pod) PROVE NamesInvariant'
  BY <1>6, PodEndsKeeps
<1>7. CASE SecondPasses
  <2>1. second' \in 0 .. Seconds - 1
    BY <1>0, <1>7, Lengths DEF SecondPasses
  <2>2. TypeOK' /\ OnlyCutIdsAreRefused'
    BY <1>7, <2>1 DEF SecondPasses, NamesInvariant, TypeOK, TaskType, PodType,
       OnlyCutIdsAreRefused
  <2> QED BY <1>7, <2>2, SameTasksKeep DEF SecondPasses, NamesInvariant
<1>8. CASE UNCHANGED vars
  <2>1. TypeOK' /\ OnlyCutIdsAreRefused'
    BY <1>8 DEF vars, NamesInvariant, TypeOK, TaskType, PodType, OnlyCutIdsAreRefused
  <2> QED BY <1>8, <2>1, SameTasksKeep DEF vars, NamesInvariant
<1> QED
  BY <1>1, <1>2, <1>3, <1>4, <1>5, <1>6, <1>7, <1>8 DEF Next

--------------------------------------------------------------------------------
(* Theorems.                                                                 *)

\* The inductive invariant of the names: no two tasks share one, every name ends in its
\* time, a task keeps its origin, and a pod is the one of its task as that is now.
THEOREM NamesInvariantHolds == Spec => []NamesInvariant
BY NamesInit, NamesNext, PTL DEF Spec

\* Ids, names, labels, tasks and pods keep their types.
THEOREM TypeCorrect == Spec => []TypeOK
<1>1. NamesInvariant => TypeOK
  BY DEF NamesInvariant
<1> QED BY <1>1, NamesInvariantHolds, PTL

\* A handshake meets a task of its own name only in the second in which that was made,
\* for any ids, since neither cut of build_manifest reaches the time.
THEOREM ConflictsPassInASecondHolds == Spec => []ConflictsPassInASecond
<1>1. ASSUME NamesInvariant PROVE ConflictsPassInASecond
  <2> SUFFICES ASSUME NEW id \in pending, NEW task \in tasks, TaskName(id) = task.name
               PROVE  task.made = second
    BY DEF ConflictsPassInASecond
  <2>1. id \in Ids /\ second \in 0 .. Seconds - 1 /\ task \in TaskType
    BY <1>1 DEF NamesInvariant, TypeOK
  <2>2. TaskName(id)[Len(TaskName(id))] = DigitOf[second]
    BY <2>1, MiddlesAre, TaskNameIs DEF TaskName
  <2>3. task.name[Len(task.name)] = DigitOf[task.made]
    BY <1>1 DEF NamesInvariant, NamesEndInTime
  <2>4. task.made \in 0 .. Seconds - 1 /\ DigitOf[task.made] = DigitOf[second]
    BY <2>1, <2>2, <2>3 DEF TaskType
  <2>5. /\ DOMAIN DigitOf = 0 .. Seconds - 1
        /\ \A m, n \in DOMAIN DigitOf : DigitOf[m] = DigitOf[n] => m = n
    BY CharsAssumption DEF IsInjective
  <2> QED BY <2>1, <2>4, <2>5
<1> QED BY <1>1, NamesInvariantHolds, PTL

\* Whatever characters an id has, the API server takes the task that _sanitize_k8s_name
\* makes of it, unless the id is longer than a label in lower case.
THEOREM OnlyCutIdsAreRefusedHolds == Spec => []OnlyCutIdsAreRefused
<1>1. NamesInvariant => OnlyCutIdsAreRefused
  BY DEF NamesInvariant
<1> QED BY <1>1, NamesInvariantHolds, PTL

\* The operator marks a task Failed, as far as names go, only for an id that is no label
\* where it is cut, or for another task whose name it cuts to the same text.
THEOREM FailedTaskHasAReasonHolds == Spec => []FailedTaskHasAReason
<1>1. NamesInvariant => FailedTaskHasAReason
  BY DEF NamesInvariant
<1> QED BY <1>1, NamesInvariantHolds, PTL

\* What count_idle_pods takes for idle: the pods that sleep, those of activated tasks, and
\* those of clients who chose an id that begins like a standby task's.
THEOREM IdleMeansStandbyHolds == Spec => []IdleMeansStandby
<1>1. ASSUME NamesInvariant PROVE IdleMeansStandby
  <2> SUFFICES ASSUME NEW pod \in pods, NEW task \in tasks, pod.running, pod.task = task.name
               PROVE  Idle(pod) <=> \/ pod.sleeps
                                    \/ task.activated
                                    \/ task.id \in Ids /\ StartsWith(task.id, StandbyPrefix)
    BY DEF IdleMeansStandby
  <2>1. pod.label = Cut(task.id, LabelMax) /\ (pod.sleeps <=> task.type = "standby")
    BY <1>1, PodIsOfTask DEF PodLabel
  <2>2. task \in TaskType
    BY <1>1 DEF NamesInvariant, TypeOK
  <2>3. task.id \in Seq(Chars) /\ task.type \in {"execute", "standby"}
    BY <2>2 DEF TaskType
  <2>4. Idle(pod) <=> StartsWith(task.id, StandbyPrefix)
    BY <2>1, <2>3, LabelsKeepPrefix DEF Idle
  <2>5. \/ task.id \in Ids /\ task.type = "execute" /\ ~task.activated
        \/ /\ StartsWith(task.id, StandbyPrefix)
           /\ task.activated <=> task.type = "execute"
    BY <1>1 DEF NamesInvariant, TwoOrigins
  <2> QED BY <2>1, <2>3, <2>4, <2>5
<1> QED BY <1>1, NamesInvariantHolds, PTL
================================================================================
