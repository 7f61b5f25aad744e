-------------------------- MODULE ObfsPrefixProofs --------------------------
(***************************************************************************)
(* The prefix of two relays with obfuscation, for headers and payloads of  *)
(* any length: consume_dynamic_obfs finds in a header what                 *)
(* generate_dynamic_obfs put there, and removes the prefix exactly.        *)
(***************************************************************************)
EXTENDS ObfsPrefix, FiniteSetTheorems, SequenceTheorems, WellFoundedInduction, TLAPS

-----------------------------------------------------------------------------
(* Induction                                                               *)

\* A set of naturals has a least element.
LEMMA LeastNat ==
    ASSUME NEW T \in SUBSET Nat, T # {}
    PROVE  \E n \in T : \A m \in T : n <= m
<1> DEFINE R == OpToRel(<, Nat)
<1>1. IsWellFoundedOn(R, Nat)
  BY NatLessThanWellFounded
<1>2. \A x, y \in Nat : x < y => <<x, y>> \in R
  BY DEF OpToRel
<1> HIDE DEF R
<1>3. PICK n \in T : \A m \in T : ~(<<m, n>> \in R)
  BY <1>1, WFMin, Zenon
<1>4. \A m \in T : ~(m < n)
  BY <1>2, <1>3, Zenon
<1>5. \A m \in T : n <= m
  BY <1>4
<1> QED BY <1>5

\* A set that holds 0 and, with a number up to n, the next one, holds 0..n.
LEMMA UpTo ==
    ASSUME NEW n \in Nat, NEW S, 0 \in S, \A i \in 0..n - 1 : i \in S => i + 1 \in S
    PROVE  0..n \subseteq S
<1> SUFFICES ASSUME 0..n \ S # {} PROVE FALSE
  OBVIOUS
<1> DEFINE T == 0..n \ S
<1>1. T \in SUBSET Nat /\ T # {}
  OBVIOUS
<1>2. PICK i \in T : \A m \in T : i <= m
  <2> HIDE DEF T
  <2> QED BY <1>1, LeastNat
<1>3. i \in 0..n /\ i # 0 /\ i \notin S
  OBVIOUS
<1>4. i - 1 \in 0..n - 1 /\ i - 1 \notin T /\ (i - 1) + 1 = i
  BY <1>2, <1>3
<1> QED BY <1>3, <1>4

\* s is computed step by step from v: a step is a function of the index and of
\* the value so far.
Steps(s, v, n, step) == s[0] = v /\ \A i \in 0..n - 1 : s[i + 1] = step[i][s[i]]

\* What is computed step by step exists.
LEMMA RecExists ==
    ASSUME NEW V, NEW v \in V, NEW n \in Nat, NEW step \in [0..n - 1 -> [V -> V]]
    PROVE  \E s \in [0..n -> V] : Steps(s, v, n, step)
<1> DEFINE Reached(s, m) == Steps(s, v, m, step)
           S == {m \in 0..n : \E s \in [0..m -> V] : Reached(s, m)}
<1>1. 0 \in S
  <2>1. Reached([k \in 0..0 |-> v], 0)
    BY DEF Steps
  <2>2. [k \in 0..0 |-> v] \in [0..0 -> V] /\ 0 \in 0..n
    OBVIOUS
  <2> QED BY <2>1, <2>2
<1>2. ASSUME NEW m \in 0..n - 1, m \in S PROVE m + 1 \in S
  <2>1. PICK s \in [0..m -> V] : Reached(s, m)
    BY <1>2
  <2>2. s[m] \in V /\ step[m][s[m]] \in V
    OBVIOUS
  <2> DEFINE t == [k \in 0..m + 1 |-> IF k <= m THEN s[k] ELSE step[m][s[m]]]
  <2>3. t \in [0..m + 1 -> V] /\ t[0] = v
    BY <2>1, <2>2 DEF Steps
  <2>4. ASSUME NEW k \in 0..m PROVE t[k + 1] = step[k][t[k]]
    <3>1. CASE k < m
      <4>1. k \in 0..m - 1 /\ k + 1 <= m /\ k + 1 \in 0..m + 1 /\ k \in 0..m + 1
        BY <3>1
      <4>2. t[k + 1] = s[k + 1] /\ t[k] = s[k]
        BY <4>1
      <4> QED BY <2>1, <4>1, <4>2 DEF Steps
    <3>2. CASE k = m
      <4>1. t[m] = s[m] /\ t[m + 1] = step[m][s[m]]
        OBVIOUS
      <4> QED BY <3>2, <4>1
    <3> QED BY <3>1, <3>2
  <2> HIDE DEF t
  <2>5. Reached(t, m + 1) /\ m + 1 \in 0..n
    BY <2>3, <2>4 DEF Steps
  <2> HIDE DEF Reached
  <2> QED BY <2>3, <2>5
<1> HIDE DEF S
<1>3. 0..n \subseteq S
  BY <1>1, <1>2, UpTo
<1>4. n \in S
  BY <1>3
<1> QED BY <1>4 DEF S

-----------------------------------------------------------------------------
(* Digits and numbers                                                      *)

D == Zero..Zero + Base - 1

\* k keeps the digits of h, one byte after the other.
Keeps(k, h) ==
    /\ k \in [0..HdrLen -> Seq(D)]
    /\ k[0] = <<>>
    /\ \A i \in 0..HdrLen - 1 :
           k[i + 1] = IF IsDigit(h[i + 1]) THEN Append(k[i], h[i + 1]) ELSE k[i]

\* What Digits computes.
LEMMA DigitsKeeps ==
    ASSUME NEW h
    PROVE  \E k : Keeps(k, h) /\ Digits(h) = k[HdrLen]
<1> DEFINE n == HdrLen
           V == Seq(D)
           step == [i \in 0..n - 1 |-> [v \in V |->
                       IF IsDigit(h[i + 1]) THEN Append(v, h[i + 1]) ELSE v]]
           Q(k) == k = [i \in 0..n |-> IF i = 0 THEN <<>>
                                       ELSE IF IsDigit(h[i]) THEN Append(k[i - 1], h[i])
                                       ELSE k[i - 1]]
           c == CHOOSE k : Q(k)
<1>1. n \in Nat /\ <<>> \in V
  BY HdrAssumption
<1>2. \A i \in 0..n - 1, v \in V :
          (IF IsDigit(h[i + 1]) THEN Append(v, h[i + 1]) ELSE v) \in V
  BY AppendProperties DEF IsDigit, D
<1>3. step \in [0..n - 1 -> [V -> V]]
  BY <1>2
<1>4. \A i \in 0..n - 1, v \in V :
          step[i][v] = IF IsDigit(h[i + 1]) THEN Append(v, h[i + 1]) ELSE v
  OBVIOUS
<1>0. Digits(h) = c[n]
  BY DEF Digits
<1> HIDE DEF n, V, step
<1>d. PICK s \in [0..n -> V] : Steps(s, <<>>, n, step)
  BY <1>1, <1>3, RecExists
<1>5. s[0] = <<>> /\ \A i \in 0..n - 1 : s[i + 1] = step[i][s[i]]
  BY <1>d DEF Steps
<1>6. Q(s)
  <2>1. ASSUME NEW i \in 0..n
        PROVE  s[i] = IF i = 0 THEN <<>>
                      ELSE IF IsDigit(h[i]) THEN Append(s[i - 1], h[i]) ELSE s[i - 1]
    <3>1. CASE i = 0
      BY <1>5, <3>1
    <3>2. CASE i # 0
      <4>1. i - 1 \in 0..n - 1 /\ (i - 1) + 1 = i /\ s[i - 1] \in V
        BY <1>1, <3>2
      <4>2. s[i] = step[i - 1][s[i - 1]]
        BY <1>5, <4>1
      <4>3. step[i - 1][s[i - 1]] = IF IsDigit(h[(i - 1) + 1])
                                    THEN Append(s[i - 1], h[(i - 1) + 1]) ELSE s[i - 1]
        BY <1>4, <4>1
      <4> QED BY <3>2, <4>1, <4>2, <4>3
    <3> QED BY <3>1, <3>2
  <2> QED BY <2>1
<1>7. Q(c)
  BY <1>6
<1> HIDE DEF c
<1>8. ASSUME NEW i \in 0..n - 1
      PROVE  c[i + 1] = IF IsDigit(h[i + 1]) THEN Append(c[i], h[i + 1]) ELSE c[i]
  <2>1. i + 1 \in 0..n /\ i + 1 # 0 /\ (i + 1) - 1 = i
    BY <1>1
  <2> QED BY <1>7, <2>1
<1>9. c[0] = <<>> /\ DOMAIN c = 0..n
  BY <1>1, <1>7
<1>a. \A i \in 0..n : c[i] \in V
  <2> DEFINE S == {i \in 0..n : c[i] \in V}
  <2>1. 0 \in S
    BY <1>1, <1>9
  <2>2. ASSUME NEW i \in 0..n - 1, i \in S PROVE i + 1 \in S
    BY <1>1, <1>2, <1>8, <2>2
  <2> HIDE DEF S
  <2>3. 0..n \subseteq S
    BY <1>1, <2>1, <2>2, UpTo
  <2> QED BY <2>3 DEF S
<1>b. c \in [0..n -> V]
  <2>1. c = [i \in 0..n |-> c[i]]
    BY <1>7
  <2> QED BY <1>a, <2>1
<1>c. Keeps(c, h)
  BY <1>8, <1>9, <1>b DEF Keeps, V, n
<1> QED BY <1>0, <1>c DEF n

\* How many places of S are not behind i.
Rank(S, i) == Cardinality({j \in S : j <= i})

\* Ranks count up from 0, one at each place.
LEMMA RankStep ==
    ASSUME NEW S \in SUBSET (1..HdrLen)
    PROVE  /\ Rank(S, 0) = 0
           /\ Rank(S, HdrLen) = Cardinality(S)
           /\ \A i \in 0..HdrLen : Rank(S, i) \in Nat
           /\ \A i \in 0..HdrLen - 1 :
                  Rank(S, i + 1) = IF i + 1 \in S THEN Rank(S, i) + 1 ELSE Rank(S, i)
<1> DEFINE W(i) == {j \in S : j <= i}
<1>0. \A j \in S : j \in Int /\ 1 <= j /\ j <= HdrLen
  BY HdrAssumption
<1>1. W(0) = {} /\ W(HdrLen) = S
  <2>1. \A j \in S : ~(j <= 0) /\ j <= HdrLen
    BY <1>0
  <2> QED BY <2>1, Zenon
<1>2. IsFiniteSet(1..HdrLen)
  BY HdrAssumption, FS_Interval
<1>3. ASSUME NEW i PROVE IsFiniteSet(W(i))
  <2>1. W(i) \in SUBSET (1..HdrLen)
    OBVIOUS
  <2> HIDE DEF W
  <2> QED BY <1>2, <2>1, FS_Subset
<1>4. ASSUME NEW i \in 0..HdrLen - 1
      PROVE  Cardinality(W(i + 1)) = IF i + 1 \in S THEN Cardinality(W(i)) + 1
                                     ELSE Cardinality(W(i))
  <2>1. CASE i + 1 \in S
    <3>1. W(i + 1) = W(i) \union {i + 1} /\ i + 1 \notin W(i)
      <4>1. \A j \in S : j <= i + 1 <=> (j <= i \/ j = i + 1)
        BY <1>0, HdrAssumption
      <4>2. ~(i + 1 <= i)
        BY HdrAssumption
      <4> QED BY <2>1, <4>1, <4>2, Zenon
    <3> HIDE DEF W
    <3> QED BY <1>3, <2>1, <3>1, FS_AddElement
  <2>2. CASE i + 1 \notin S
    <3>1. W(i + 1) = W(i)
      <4>1. \A j \in S : j <= i + 1 <=> j <= i
        BY <1>0, <2>2, HdrAssumption
      <4> QED BY <4>1, Zenon
    <3> QED BY <2>2, <3>1
  <2> QED BY <2>1, <2>2
<1>5. \A i : Rank(S, i) = Cardinality(W(i))
  BY DEF Rank
<1> HIDE DEF W
<1>6. \A i : Cardinality(W(i)) \in Nat
  BY <1>3, FS_CardinalityType
<1> QED BY <1>1, <1>4, <1>5, <1>6, FS_EmptySet

\* The places of the digits.
DigitsAt(h) == {i \in 1..HdrLen : IsDigit(h[i])}

\* ds has the digits of h up to place m in their order.
Ranked(ds, h, m) ==
    /\ ds \in Seq(D)
    /\ Len(ds) = Rank(DigitsAt(h), m)
    /\ \A j \in DigitsAt(h) : j <= m =>
           Rank(DigitsAt(h), j) \in 1..Len(ds) /\ ds[Rank(DigitsAt(h), j)] = h[j]
    /\ \A k \in 1..Len(ds) : \E j \in DigitsAt(h) : j <= m /\ Rank(DigitsAt(h), j) = k

\* Digits collects them all.
LEMMA DigitsRanked ==
    ASSUME NEW h
    PROVE  Ranked(Digits(h), h, HdrLen)
<1> DEFINE S == DigitsAt(h)
<1>1. PICK k : Keeps(k, h) /\ Digits(h) = k[HdrLen]
  BY DigitsKeeps
<1>2. S \in SUBSET (1..HdrLen) /\ \A i \in 1..HdrLen : i \in S <=> IsDigit(h[i])
  BY DEF DigitsAt
<1> DEFINE T == {m \in 0..HdrLen : Ranked(k[m], h, m)}
<1>3. 0 \in T
  <2>1. k[0] = <<>> /\ Rank(S, 0) = 0
    BY <1>1, <1>2, RankStep DEF Keeps
  <2>2. \A j \in S : ~(j <= 0)
    BY <1>2, HdrAssumption
  <2>3. k[0] \in Seq(D) /\ Len(k[0]) = 0 /\ 1..0 = {} /\ 0 \in 0..HdrLen
    BY <2>1, HdrAssumption
  <2>4. Ranked(k[0], h, 0)
    BY <2>1, <2>2, <2>3 DEF Ranked
  <2> QED BY <2>3, <2>4
<1>4. ASSUME NEW m \in 0..HdrLen - 1, m \in T PROVE m + 1 \in T
  <2>0. m + 1 \in 1..HdrLen /\ m + 1 \in 0..HdrLen /\ m \in Nat
    BY HdrAssumption
  <2>1. Ranked(k[m], h, m)
    BY <1>4
  <2>2. /\ k[m] \in Seq(D) /\ Len(k[m]) = Rank(S, m) /\ Len(k[m]) \in Nat
        /\ \A j \in S : j <= m => Rank(S, j) \in 1..Len(k[m]) /\ k[m][Rank(S, j)] = h[j]
        /\ \A r \in 1..Len(k[m]) : \E j \in S : j <= m /\ Rank(S, j) = r
    BY <2>1 DEF Ranked
  <2>3. CASE IsDigit(h[m + 1])
    <3>1. k[m + 1] = Append(k[m], h[m + 1]) /\ h[m + 1] \in D /\ m + 1 \in S
      BY <1>1, <1>2, <2>0, <2>3 DEF Keeps, IsDigit, D
    <3>2. /\ k[m + 1] \in Seq(D) /\ Len(k[m + 1]) = Len(k[m]) + 1
          /\ \A r \in 1..Len(k[m]) : k[m + 1][r] = k[m][r]
          /\ k[m + 1][Len(k[m]) + 1] = h[m + 1]
      BY <2>2, <3>1, AppendProperties
    <3>3. Rank(S, m + 1) = Rank(S, m) + 1
      BY <1>2, <3>1, RankStep
    <3>4. ASSUME NEW j \in S, j <= m + 1
          PROVE  Rank(S, j) \in 1..Len(k[m + 1]) /\ k[m + 1][Rank(S, j)] = h[j]
      <4>0. j \in Int
        BY <1>2, HdrAssumption
      <4>1. CASE j <= m
        <5>1. Rank(S, j) \in 1..Len(k[m]) /\ k[m][Rank(S, j)] = h[j]
          BY <2>2, <4>1
        <5> QED BY <2>2, <3>2, <5>1
      <4>2. CASE j = m + 1
        BY <2>2, <3>2, <3>3, <4>2
      <4> QED BY <2>0, <3>4, <4>0, <4>1, <4>2
    <3>5. ASSUME NEW r \in 1..Len(k[m + 1])
          PROVE  \E j \in S : j <= m + 1 /\ Rank(S, j) = r
      <4>1. CASE r \in 1..Len(k[m])
        <5>1. PICK j \in S : j <= m /\ Rank(S, j) = r
          BY <2>2, <4>1
        <5>2. j \in Int /\ j <= m + 1
          BY <1>2, <2>0, <5>1, HdrAssumption
        <5> QED BY <5>1, <5>2
      <4>2. CASE r = Len(k[m]) + 1
        BY <2>0, <2>2, <3>1, <3>3, <4>2
      <4> QED BY <2>2, <3>2, <4>1, <4>2
    <3> HIDE DEF S
    <3>6. Ranked(k[m + 1], h, m + 1)
      BY <2>2, <3>2, <3>3, <3>4, <3>5 DEF Ranked, S
    <3> QED BY <2>0, <3>6
  <2>4. CASE ~IsDigit(h[m + 1])
    <3>1. k[m + 1] = k[m] /\ m + 1 \notin S
      BY <1>1, <1>2, <2>0, <2>4 DEF Keeps
    <3>2. Rank(S, m + 1) = Rank(S, m)
      BY <1>2, <3>1, RankStep
    <3>3. \A j \in S : j <= m + 1 <=> j <= m
      BY <1>2, <2>0, <3>1, HdrAssumption
    <3> HIDE DEF S
    <3>4. Ranked(k[m + 1], h, m + 1)
      BY <2>2, <3>1, <3>2, <3>3 DEF Ranked, S
    <3> QED BY <2>0, <3>4
  <2> QED BY <2>3, <2>4
<1> HIDE DEF T
<1>5. 0..HdrLen \subseteq T
  BY <1>3, <1>4, HdrAssumption, UpTo
<1>6. HdrLen \in T
  BY <1>5, HdrAssumption
<1> QED BY <1>1, <1>6 DEF T

\* The value of a string of digits is a length.
LEMMA NumberNat == ASSUME NEW ds \in Seq(D) PROVE Number(ds) \in Nat
<1> DEFINE n == Len(ds)
           step == [i \in 0..n - 1 |-> [v \in Nat |-> v * Base + (ds[i + 1] - Zero)]]
           Q(k) == k = [i \in 0..n |-> IF i = 0 THEN 0
                                       ELSE k[i - 1] * Base + (ds[i] - Zero)]
           c == CHOOSE k : Q(k)
<1>1. n \in Nat
  OBVIOUS
<1>2. \A i \in 0..n - 1, v \in Nat : v * Base + (ds[i + 1] - Zero) \in Nat
  <2>1. \A i \in 0..n - 1 : ds[i + 1] \in 1..2
    BY <1>1, ElementOfSeq DEF D, Zero, Base
  <2> QED BY <2>1 DEF Base, Zero
<1>3. step \in [0..n - 1 -> [Nat -> Nat]]
  BY <1>2
<1>4. \A i \in 0..n - 1, v \in Nat : step[i][v] = v * Base + (ds[i + 1] - Zero)
  OBVIOUS
<1>0. Number(ds) = c[n]
  BY DEF Number
<1> HIDE DEF n, step
<1>5. PICK s \in [0..n -> Nat] : Steps(s, 0, n, step)
  <2> DEFINE V == Nat
  <2>1. 0 \in V /\ step \in [0..n - 1 -> [V -> V]]
    BY <1>3
  <2> HIDE DEF V
  <2>2. \E s \in [0..n -> V] : Steps(s, 0, n, step)
    BY <1>1, <2>1, RecExists
  <2> QED BY <2>2 DEF V
<1>6. Q(s)
  <2>1. ASSUME NEW i \in 0..n
        PROVE  s[i] = IF i = 0 THEN 0 ELSE s[i - 1] * Base + (ds[i] - Zero)
    <3>1. CASE i = 0
      BY <1>5, <3>1 DEF Steps
    <3>2. CASE i # 0
      <4>1. i - 1 \in 0..n - 1 /\ (i - 1) + 1 = i /\ s[i - 1] \in Nat
        BY <1>1, <3>2
      <4> QED BY <1>4, <1>5, <3>2, <4>1 DEF Steps
    <3> QED BY <3>1, <3>2
  <2> QED BY <2>1
<1>7. Q(c)
  BY <1>6
<1> HIDE DEF c
<1>8. ASSUME NEW i \in 0..n - 1 PROVE c[i + 1] = c[i] * Base + (ds[i + 1] - Zero)
  <2>1. i + 1 \in 0..n /\ i + 1 # 0 /\ (i + 1) - 1 = i
    BY <1>1
  <2> QED BY <1>7, <2>1
<1>9. c[0] = 0
  BY <1>1, <1>7
<1> DEFINE S == {i \in 0..n : c[i] \in Nat}
<1>10. 0 \in S
  BY <1>1, <1>9
<1>11. ASSUME NEW i \in 0..n - 1, i \in S PROVE i + 1 \in S
  <2>1. c[i] \in Nat /\ i + 1 \in 0..n
    BY <1>1, <1>11
  <2>2. c[i] * Base + (ds[i + 1] - Zero) \in Nat
    BY <1>2, <2>1
  <2> QED BY <1>8, <2>1, <2>2
<1> HIDE DEF S
<1>12. 0..n \subseteq S
  BY <1>1, <1>10, <1>11, UpTo
<1>13. n \in S
  BY <1>1, <1>12
<1> QED BY <1>0, <1>13 DEF S

\* The strings of digits that are written are the ones that are no probe.
LEMMA WrittenDigits ==
    ASSUME NEW ds
    PROVE  ds \in DigitStrings <=> ds \in Seq(D) /\ ~IsProbe(ds)
<1>1. ASSUME ds \in DigitStrings PROVE ds \in Seq(D) /\ ~IsProbe(ds)
  <2>1. CASE \E a \in D \ {Zero}, b \in D : ds = <<a, b>>
    <3>1. PICK a \in D \ {Zero}, b \in D : ds = <<a, b>>
      BY <2>1
    <3>2. ds \in Seq(D) /\ Len(ds) = 2 /\ ds[1] # Zero
      BY <3>1
    <3> QED BY <3>2 DEF IsProbe
  <2>2. CASE ds \in D \X D \X D /\ (ds[1] = Zero => ds[2] # Zero)
    <3>1. PICK a \in D, b \in D, c \in D : ds = <<a, b, c>>
      BY <2>2
    <3>2. ds \in Seq(D) /\ Len(ds) = 3
      BY <3>1
    <3> QED BY <2>2, <3>2 DEF IsProbe
  <2> QED BY <1>1, <2>1, <2>2 DEF DigitStrings, D
<1>2. ASSUME ds \in Seq(D), ~IsProbe(ds) PROVE ds \in DigitStrings
  <2>1. Len(ds) \in {2, 3}
    BY <1>2 DEF IsProbe
  <2>2. CASE Len(ds) = 2
    <3>1. ds = <<ds[1], ds[2]>> /\ ds[1] \in D /\ ds[2] \in D /\ ds[1] # Zero
      BY <1>2, <2>2 DEF IsProbe
    <3> QED BY <3>1 DEF DigitStrings, D
  <2>3. CASE Len(ds) = 3
    <3>1. /\ ds = <<ds[1], ds[2], ds[3]>> /\ ds[1] \in D /\ ds[2] \in D /\ ds[3] \in D
          /\ ds[1] = Zero => ds[2] # Zero
      BY <1>2, <2>3 DEF IsProbe
    <3> QED BY <3>1 DEF DigitStrings, D
  <2> QED BY <2>1, <2>2, <2>3
<1> QED BY <1>1, <1>2

\* A filler is a byte and no digit, and there is one for every byte that is
\* no digit.
LEMMA Fillers ==
    /\ \A v \in 0..3 - Base : Filler(v) \in Code /\ ~IsDigit(Filler(v))
    /\ \A b \in Code : ~IsDigit(b) => \E v \in 0..3 - Base : b = Filler(v)
<1>1. \A v \in 0..3 - Base : Filler(v) \in Code /\ ~IsDigit(Filler(v))
  BY DEF Filler, Code, IsDigit, Base, Zero
<1>2. ASSUME NEW b \in Code, ~IsDigit(b) PROVE \E v \in 0..3 - Base : b = Filler(v)
  <2>1. b \in {0, 3}
    BY <1>2 DEF Code, IsDigit, Base, Zero
  <2>2. Filler(0) = 0 /\ Filler(1) = 3 /\ 0 \in 0..3 - Base /\ 1 \in 0..3 - Base
    BY DEF Filler, Base, Zero
  <2> QED BY <2>1, <2>2
<1> QED BY <1>1, <1>2

\* A header that is made has the digits that were put there, in their order.
LEMMA MadeDigits ==
    ASSUME NEW h \in Headers
    PROVE  h \in Header /\ Digits(h) \in DigitStrings
<1>a. PICK ds \in DigitStrings :
          \E S \in kSubset(Len(ds), 1..HdrLen), v \in [1..HdrLen -> 0..3 - Base] :
              h = Place(ds, S, v)
  BY DEF Headers
<1>1. PICK S \in kSubset(Len(ds), 1..HdrLen), v \in [1..HdrLen -> 0..3 - Base] :
          h = Place(ds, S, v)
  BY <1>a
<1>2. ds \in Seq(D) /\ Len(ds) \in Nat
  BY WrittenDigits
<1>3. S \in SUBSET (1..HdrLen) /\ Cardinality(S) = Len(ds)
  BY DEF kSubset
<1>4. h = [i \in 1..HdrLen |-> IF i \in S THEN ds[Rank(S, i)] ELSE Filler(v[i])]
  BY <1>1 DEF Place, Rank
<1>5. ASSUME NEW i \in 1..HdrLen, i \in S PROVE Rank(S, i) \in 1..Len(ds)
  <2>1. Rank(S, i) \in Nat /\ Rank(S, i) <= Len(ds) /\ Rank(S, i) # 0
    <3> DEFINE W == {j \in S : j <= i}
    <3>1. IsFiniteSet(1..HdrLen)
      BY HdrAssumption, FS_Interval
    <3>2. IsFiniteSet(S)
      BY <1>3, <3>1, FS_Subset
    <3>3. W \in SUBSET S /\ W # {}
      BY <1>5, HdrAssumption
    <3> HIDE DEF W
    <3>4. IsFiniteSet(W) /\ Cardinality(W) <= Cardinality(S)
      BY <3>2, <3>3, FS_Subset
    <3>5. Cardinality(W) # 0 /\ Cardinality(W) \in Nat
      BY <3>3, <3>4, FS_EmptySet, FS_CardinalityType
    <3> QED BY <1>3, <3>4, <3>5 DEF Rank, W
  <2> QED BY <1>2, <2>1
<1>6. ASSUME NEW i \in 1..HdrLen
      PROVE  h[i] \in Code /\ (IsDigit(h[i]) <=> i \in S)
  <2>1. CASE i \in S
    <3>1. ds[Rank(S, i)] \in D
      BY <1>2, <1>5, <2>1, ElementOfSeq
    <3>2. h[i] \in D
      BY <1>4, <2>1, <3>1
    <3> QED BY <2>1, <3>2 DEF D, IsDigit, Code, Zero, Base
  <2>2. CASE i \notin S
    <3>1. h[i] = Filler(v[i]) /\ v[i] \in 0..3 - Base
      BY <1>4, <2>2
    <3> QED BY <2>2, <3>1, Fillers
  <2> QED BY <2>1, <2>2
<1>7. h \in Header
  BY <1>4, <1>6 DEF Header
<1>8. DigitsAt(h) = S
  BY <1>3, <1>6 DEF DigitsAt
<1>9. Ranked(Digits(h), h, HdrLen)
  BY DigitsRanked
<1>10. Digits(h) \in Seq(D) /\ Len(Digits(h)) = Len(ds)
  BY <1>3, <1>8, <1>9, RankStep DEF Ranked
<1>11. ASSUME NEW k \in 1..Len(ds) PROVE Digits(h)[k] = ds[k]
  <2>1. PICK j \in S : j <= HdrLen /\ Rank(S, j) = k
    BY <1>8, <1>9, <1>10 DEF Ranked
  <2>2. Digits(h)[k] = h[j]
    BY <1>8, <1>9, <2>1 DEF Ranked
  <2>3. j \in 1..HdrLen
    BY <1>3
  <2>4. h[j] = ds[Rank(S, j)]
    BY <1>4, <2>3
  <2> QED BY <2>1, <2>2, <2>4
<1>12. Digits(h) = ds
  BY <1>2, <1>10, <1>11, SeqEqual
<1> QED BY <1>7, <1>12

\* Whatever has such digits could have been made.
LEMMA FoundMade ==
    ASSUME NEW h \in Header, Digits(h) \in DigitStrings
    PROVE  h \in Headers
<1> DEFINE ds == Digits(h)
           S == DigitsAt(h)
           v == [i \in 1..HdrLen |-> CHOOSE x \in 0..3 - Base : i \notin S => h[i] = Filler(x)]
<1>1. Ranked(ds, h, HdrLen)
  BY DigitsRanked
<1>2. S \in SUBSET (1..HdrLen)
  BY DEF DigitsAt
<1>3. Cardinality(S) = Len(ds)
  BY <1>1, <1>2, RankStep DEF Ranked
<1>4. S \in kSubset(Len(ds), 1..HdrLen)
  BY <1>2, <1>3 DEF kSubset
<1>5. ASSUME NEW i \in 1..HdrLen
      PROVE  v[i] \in 0..3 - Base /\ (i \notin S => h[i] = Filler(v[i]))
  <2>1. \E x \in 0..3 - Base : i \notin S => h[i] = Filler(x)
    <3>1. CASE i \in S
      BY <3>1 DEF Base
    <3>2. CASE i \notin S
      <4>1. h[i] \in Code /\ ~IsDigit(h[i])
        BY <3>2 DEF Header, DigitsAt
      <4> QED BY <4>1, Fillers
    <3> QED BY <3>1, <3>2
  <2> HIDE DEF S
  <2> QED BY <2>1
<1>6. v \in [1..HdrLen -> 0..3 - Base]
  BY <1>5
<1> HIDE DEF v
<1>7. ASSUME NEW i \in 1..HdrLen
      PROVE  h[i] = IF i \in S THEN ds[Rank(S, i)] ELSE Filler(v[i])
  <2>1. CASE i \in S
    <3>1. i <= HdrLen
      BY HdrAssumption
    <3> QED BY <1>1, <2>1, <3>1 DEF Ranked
  <2>2. CASE i \notin S
    BY <1>5, <2>2
  <2> QED BY <2>1, <2>2
<1> HIDE DEF ds, S
<1>8. h = [i \in 1..HdrLen |-> h[i]]
  BY DEF Header
<1>9. h = Place(ds, S, v)
  BY <1>7, <1>8 DEF Place, Rank
<1>10. ds \in DigitStrings
  BY DEF ds
<1> QED BY <1>4, <1>6, <1>9, <1>10 DEF Headers

-----------------------------------------------------------------------------
(* The key                                                                 *)

\* The byte of the key for place i.
KeyAt(i) == Key[((i - 1) % Len(Key)) + 1]

\* It is a byte.
LEMMA KeyByte == ASSUME NEW i \in Nat \ {0} PROVE KeyAt(i) \in Code
<1>1. Len(Key) = 5 /\ Key[1] = 2 /\ Key[2] = 3 /\ Key[3] = 3 /\ Key[4] = 1 /\ Key[5] = 0
  BY DEF Key
<1>2. (i - 1) % 5 \in 0..4
  OBVIOUS
<1>3. ((i - 1) % 5) + 1 \in 1..5
  BY <1>2
<1>4. \A k \in 1..5 : Key[k] \in Code
  BY <1>1 DEF Code
<1> QED BY <1>1, <1>3, <1>4 DEF KeyAt

\* A byte changed twice with the same byte is the byte again.
LEMMA XorTwice ==
    ASSUME NEW a \in Code, NEW b \in Code
    PROVE  Xor(a, b) \in Code /\ Xor(Xor(a, b), b) = a
<1>1. \A x, y \in Code : /\ Xor(x, y) \in Code
                         /\ Xor(x, y) = IF y = 0 THEN x
                                        ELSE IF y = 1 THEN (IF x = 0 THEN 1 ELSE IF x = 1 THEN 0 ELSE IF x = 2 THEN 3 ELSE 2)
                                        ELSE IF y = 2 THEN (IF x = 0 THEN 2 ELSE IF x = 1 THEN 3 ELSE IF x = 2 THEN 0 ELSE 1)
                                        ELSE 3 - x
  BY DEF Xor, Code
<1> QED BY <1>1 DEF Code

\* The key applied to a header is a header, and applied twice undoes itself.
LEMMA KeyedTwice ==
    ASSUME NEW h \in Header
    PROVE  Keyed(h) \in Header /\ Keyed(Keyed(h)) = h
<1>1. \A g : Keyed(g) = [i \in 1..HdrLen |-> Xor(g[i], KeyAt(i))]
  BY DEF Keyed, KeyAt
<1>2. ASSUME NEW i \in 1..HdrLen
      PROVE  Xor(h[i], KeyAt(i)) \in Code /\ Xor(Xor(h[i], KeyAt(i)), KeyAt(i)) = h[i]
  <2>1. i \in Nat \ {0} /\ h[i] \in Code
    BY HdrAssumption DEF Header
  <2> QED BY <2>1, KeyByte, XorTwice
<1>3. Keyed(h) \in Header
  BY <1>1, <1>2 DEF Header
<1>4. Keyed(Keyed(h)) = [i \in 1..HdrLen |-> h[i]]
  <2>1. \A i \in 1..HdrLen : Keyed(h)[i] = Xor(h[i], KeyAt(i))
    BY <1>1
  <2> QED BY <1>1, <1>2, <2>1
<1>5. h = [i \in 1..HdrLen |-> h[i]]
  BY DEF Header
<1> QED BY <1>3, <1>4, <1>5

-----------------------------------------------------------------------------
(* The stream                                                              *)

Byte == {"header", "garbage", "payload"} \X Int

\* Sequences in a row, and both parts of one that is cut.
Join(s, t) == s \o t
First(s, n) == SubSeq(s, 1, n)
After(s, n) == SubSeq(s, n + 1, Len(s))

\* What the client has written and the server has not read.
Rest == Join(Join(wire, staged), todo)

\* The bytes of a prefix, and how many there are.
PLen(h) == HdrLen + Number(Digits(h))
PrefixAt(h, i) == IF i <= HdrLen THEN H(Keyed(h)[i]) ELSE G

\* A byte of the payload on its way.
PayAt(pth, k) == IF pth = "pipe" THEN P(k) ELSE <<"payload", -k>>

\* The header of try t, of the headers of both, and where its prefix starts.
Hdr(h1, h2, t) == IF t = 1 THEN h1 ELSE h2
Off(h1, t) == IF t = 1 THEN 0 ELSE PLen(h1)

\* The whole stream: a prefix, a second one when splice fails, the payload.
StreamAt(h1, h2, pth, i) ==
    IF i <= PLen(h1) THEN PrefixAt(h1, i)
    ELSE IF pth # "fallback" THEN PayAt(pth, i - PLen(h1))
    ELSE IF i <= PLen(h1) + PLen(h2) THEN PrefixAt(h2, i - PLen(h1))
    ELSE PayAt(pth, i - PLen(h1) - PLen(h2))

\* How far the server, at p of try t with f bytes forwarded, has read, and how
\* far the client, at p of try t with n bytes of payload, has written.
GotAt(h1, h2, p, t, f) ==
    IF p = "header" THEN Off(h1, t)
    ELSE IF p = "garbage" THEN Off(h1, t) + HdrLen
    ELSE Off(h1, t) + PLen(Hdr(h1, h2, t)) + f
MadeAt(h1, h2, p, t, n) ==
    IF p = "generate" THEN Off(h1, t) ELSE Off(h1, t) + PLen(Hdr(h1, h2, t)) + n

Got(h1, h2) == GotAt(h1, h2, spc, tries["server"], Len(fwd))
Made(h1, h2) == MadeAt(h1, h2, cpc, tries["client"], sent)

\* What is on its way is what the stream has behind what the server has read,
\* up to what the client has written unless it was cut off.
Follows(h1, h2) ==
    /\ \A i \in 1..Len(Rest) : Rest[i] = StreamAt(h1, h2, path, Got(h1, h2) + i)
    /\ cpc # "ended" => Got(h1, h2) + Len(Rest) = Made(h1, h2)
    /\ spc = "garbage" => left = Number(Digits(Hdr(h1, h2, tries["server"])))

\* Where both relays are.
CtlInv ==
    /\ sender \in {"relay", "probe"} /\ path \in Paths /\ buffered \in BOOLEAN
    /\ tries \in [Ends -> 1..2]
    /\ cpc \in {"generate", "write", "relay", "ended"}
    /\ spc \in {"header", "garbage", "sleep", "relay", "ended"}
    /\ wire \in Seq(Byte) /\ staged \in Seq(Byte) /\ todo \in Seq(Byte) /\ fwd \in Seq(Byte)
    /\ sent \in Nat /\ left \in Nat
    /\ ~buffered \/ cpc = "ended" => staged = <<>>
    /\ cpc # "write" => todo = <<>>
    /\ \A e \in Ends : tries[e] = 2 => path = "fallback"
    /\ spc \in {"header", "garbage"} \/ SpliceFails("server") => fwd = <<>>

RelayInv ==
    sender = "relay" =>
        /\ cpc \in {"generate", "write"} \/ SpliceFails("client") => sent = 0
        /\ spc # "sleep" /\ (spc = "ended" => cpc = "ended")
        /\ \A k \in 1..Len(fwd) : fwd[k] = P(k)
        /\ spc # "ended" => \E h1, h2 \in Headers : Follows(h1, h2)

\* A probe is answered no differently before its first bytes are read, and after
\* that only when they are those of a prefix.
ProbeInv ==
    sender = "probe" =>
        /\ first \in Header /\ cpc # "generate"
        /\ \/ Keyed(first) \in Headers
           \/ /\ fwd = <<>> /\ spc \in {"header", "sleep", "ended"}
              /\ spc = "header" =>
                     /\ \A i \in 1..Len(Rest) : i <= HdrLen => Rest[i] = H(first[i])
                     /\ cpc # "ended" => Len(Rest) >= HdrLen

IInv == CtlInv /\ RelayInv /\ ProbeInv

-----------------------------------------------------------------------------
(* Sequences                                                               *)

\* Elements of two sequences in a row.
LEMMA JoinIs ==
    ASSUME NEW B, NEW s \in Seq(B), NEW t \in Seq(B)
    PROVE  /\ Join(s, t) \in Seq(B)
           /\ Len(s) \in Nat /\ Len(t) \in Nat /\ Len(Join(s, t)) = Len(s) + Len(t)
           /\ \A i \in 1..Len(s) : Join(s, t)[i] = s[i]
           /\ \A i \in 1..Len(t) : Join(s, t)[Len(s) + i] = t[i]
<1>1. Len(s) \in Nat /\ Len(t) \in Nat
  OBVIOUS
<1>2. /\ s \o t \in Seq(B) /\ Len(s \o t) = Len(s) + Len(t)
      /\ \A i \in 1..Len(s) + Len(t) : (s \o t)[i] = IF i <= Len(s) THEN s[i] ELSE t[i - Len(s)]
  BY ConcatProperties
<1>3. ASSUME NEW i \in 1..Len(s) PROVE (s \o t)[i] = s[i]
  BY <1>1, <1>2
<1>4. ASSUME NEW i \in 1..Len(t) PROVE (s \o t)[Len(s) + i] = t[i]
  <2>1. Len(s) + i \in 1..Len(s) + Len(t) /\ ~(Len(s) + i <= Len(s)) /\ (Len(s) + i) - Len(s) = i
    BY <1>1
  <2> QED BY <1>2, <2>1
<1> QED BY <1>1, <1>2, <1>3, <1>4 DEF Join

\* The order of joining does not matter.
LEMMA JoinAssoc ==
    ASSUME NEW B, NEW s \in Seq(B), NEW t \in Seq(B), NEW u \in Seq(B)
    PROVE  Join(Join(s, t), u) = Join(s, Join(t, u))
BY ConcatAssociative DEF Join

\* Nothing joined is nothing added.
LEMMA JoinEmpty ==
    ASSUME NEW B, NEW s \in Seq(B)
    PROVE  Join(s, <<>>) = s /\ <<>> \in Seq(B) /\ Len(<<>>) = 0
BY ConcatEmptySeq DEF Join

\* Both parts of a sequence that is cut make the sequence.
LEMMA Cut ==
    ASSUME NEW B, NEW s \in Seq(B), NEW n \in 0..Len(s)
    PROVE  /\ First(s, n) \in Seq(B) /\ After(s, n) \in Seq(B)
           /\ Len(First(s, n)) = n /\ Len(After(s, n)) = Len(s) - n
           /\ Join(First(s, n), After(s, n)) = s
<1> DEFINE a == SubSeq(s, 1, n)
           b == SubSeq(s, n + 1, Len(s))
<1>0. Len(s) \in Nat /\ n \in Nat /\ n <= Len(s)
  OBVIOUS
<1>2. a \in Seq(B) /\ Len(a) = n /\ \A i \in 1..n : a[i] = s[i]
  OBVIOUS
<1>3. b \in Seq(B) /\ Len(b) = Len(s) - n /\ \A i \in 1..Len(s) - n : b[i] = s[n + i]
  OBVIOUS
<1>4. a = First(s, n) /\ b = After(s, n)
  BY DEF First, After
<1>1. a \in Seq(B) /\ b \in Seq(B)
  BY <1>2, <1>3
<1> HIDE DEF a, b
<1>5. /\ Join(a, b) \in Seq(B) /\ Len(Join(a, b)) = Len(a) + Len(b)
      /\ \A i \in 1..Len(a) : Join(a, b)[i] = a[i]
      /\ \A i \in 1..Len(b) : Join(a, b)[Len(a) + i] = b[i]
  <2>1. Join(a, b) \in Seq(B) /\ Len(Join(a, b)) = Len(a) + Len(b)
    BY <1>1, JoinIs
  <2>2. \A i \in 1..Len(a) : Join(a, b)[i] = a[i]
    BY <1>1, JoinIs
  <2>3. \A i \in 1..Len(b) : Join(a, b)[Len(a) + i] = b[i]
    BY <1>1, JoinIs
  <2> QED BY <2>1, <2>2, <2>3
<1>6. ASSUME NEW i \in 1..Len(s) PROVE Join(a, b)[i] = s[i]
  <2>1. CASE i <= n
    BY <1>0, <1>2, <1>5, <2>1
  <2>2. CASE ~(i <= n)
    <3>1. i - n \in 1..Len(s) - n /\ n + (i - n) = i
      BY <1>0, <2>2
    <3>2. Join(a, b)[n + (i - n)] = b[i - n] /\ b[i - n] = s[n + (i - n)]
      BY <1>2, <1>3, <1>5, <3>1
    <3> QED BY <3>1, <3>2
  <2> QED BY <2>1, <2>2
<1>7. Len(Join(a, b)) = Len(s)
  BY <1>0, <1>2, <1>3, <1>5
<1>8. Join(a, b) = s
  BY <1>5, <1>6, <1>7, SeqEqual
<1> QED BY <1>2, <1>3, <1>4, <1>8

-----------------------------------------------------------------------------
(* Steps of the stream                                                     *)

\* Sizes are numbers.
LEMMA Sizes ==
    /\ HdrLen \in Nat /\ HdrLen > 0
    /\ \A h \in Headers : /\ h \in Header /\ Number(Digits(h)) \in Nat
                          /\ PLen(h) \in Nat /\ PLen(h) = HdrLen + Number(Digits(h))
                          /\ PLen(h) > 0 /\ HdrLen <= PLen(h)
<1>1. HdrLen \in Nat /\ HdrLen > 0
  BY HdrAssumption DEF MaxDigits
<1>2. ASSUME NEW h \in Headers
      PROVE  /\ h \in Header /\ Number(Digits(h)) \in Nat
             /\ PLen(h) \in Nat /\ PLen(h) = HdrLen + Number(Digits(h))
             /\ PLen(h) > 0 /\ HdrLen <= PLen(h)
  <2>1. h \in Header /\ Digits(h) \in Seq(D)
    BY MadeDigits, WrittenDigits
  <2>2. Number(Digits(h)) \in Nat
    BY <2>1, NumberNat
  <2> QED BY <1>1, <2>1, <2>2 DEF PLen
<1> QED BY <1>1, <1>2

\* Some header can be made.
LEMMA SomeHeader == \E h : h \in Headers
<1> DEFINE ds == <<Zero + 1, Zero>>
           v == [i \in 1..HdrLen |-> 0]
<1>1. ds \in DigitStrings /\ Len(ds) = 2
  BY DEF DigitStrings, Zero, Base
<1>2. Cardinality(1..2) = 2
  <2>1. ASSUME NEW a \in Int, NEW b \in Int, b = a + 1 PROVE Cardinality(a..b) = 2
    <3>1. Cardinality(a..b) = IF a > b THEN 0 ELSE b - a + 1
      BY FS_Interval
    <3> QED BY <2>1, <3>1
  <2>2. 1 \in Int /\ 2 \in Int /\ 2 = 1 + 1
    OBVIOUS
  <2> QED BY <2>1, <2>2, Zenon
<1>3. 1..2 \in SUBSET (1..HdrLen)
  BY HdrAssumption DEF MaxDigits
<1>4. v \in [1..HdrLen -> 0..3 - Base]
  BY DEF Base
<1> HIDE DEF ds, v
<1>5. 1..2 \in kSubset(Len(ds), 1..HdrLen)
  BY <1>1, <1>2, <1>3 DEF kSubset
<1> DEFINE K(d) == {Place(d, S, x) : S \in kSubset(Len(d), 1..HdrLen),
                                      x \in [1..HdrLen -> 0..3 - Base]}
<1>7. Headers = UNION {K(d) : d \in DigitStrings}
  BY DEF Headers
<1>6. Place(ds, 1..2, v) \in Headers
  <2>1. Place(ds, 1..2, v) \in K(ds)
    BY <1>4, <1>5
  <2> HIDE DEF K
  <2> QED BY <1>1, <1>7, <2>1
<1> QED BY <1>6

\* The bytes of a prefix.
LEMMA PrefixBytes ==
    ASSUME NEW h \in Headers
    PROVE  /\ Prefix(h) \in Seq(Byte) /\ Len(Prefix(h)) = PLen(h)
           /\ \A i \in 1..PLen(h) : Prefix(h)[i] = PrefixAt(h, i)
<1> DEFINE n == Number(Digits(h))
           a == [i \in 1..HdrLen |-> H(Keyed(h)[i])]
           b == [i \in 1..n |-> G]
<1>1. n \in Nat /\ HdrLen \in Nat /\ PLen(h) = HdrLen + n /\ h \in Header
  BY Sizes
<1>2. Keyed(h) \in Header
  BY <1>1, KeyedTwice
<1>3. \A i \in 1..HdrLen : H(Keyed(h)[i]) \in Byte
  BY <1>2 DEF Header, Code, H, Byte
<1>4. G \in Byte
  BY DEF G, Byte
<1> DEFINE B == Byte
<1>5. a \in [1..HdrLen -> B] /\ b \in [1..n -> B]
  BY <1>3, <1>4
<1>6. Prefix(h) = a \o b
  BY DEF Prefix
<1>7. \A i \in 1..HdrLen : a[i] = H(Keyed(h)[i])
  OBVIOUS
<1>8. \A i \in 1..n : b[i] = G
  OBVIOUS
<1> HIDE DEF a, b, n, B
<1>9. a \in Seq(B) /\ Len(a) = HdrLen /\ b \in Seq(B) /\ Len(b) = n
  BY <1>1, <1>5
<1>10. /\ a \o b \in Seq(B) /\ Len(a \o b) = HdrLen + n
       /\ \A i \in 1..HdrLen + n : (a \o b)[i] = IF i <= HdrLen THEN a[i] ELSE b[i - HdrLen]
  BY <1>9, ConcatProperties
<1>11. ASSUME NEW i \in 1..HdrLen + n PROVE (a \o b)[i] = PrefixAt(h, i)
  <2>1. CASE i <= HdrLen
    <3>1. i \in 1..HdrLen
      BY <1>1, <2>1
    <3> QED BY <1>7, <1>10, <2>1, <3>1 DEF PrefixAt
  <2>2. CASE ~(i <= HdrLen)
    <3>1. i - HdrLen \in 1..n
      BY <1>1, <2>2
    <3> QED BY <1>8, <1>10, <2>2, <3>1 DEF PrefixAt
  <2> QED BY <2>1, <2>2
<1> QED BY <1>1, <1>6, <1>10, <1>11 DEF B

\* An end that relays masks the payload when, and only when, the other does.
LEMMA Masked ==
    ASSUME CtlInv, NEW e \in Ends, ~SpliceFails(e), NEW k \in Int
    PROVE  Mask(e, P(k)) = PayAt(path, k) /\ Mask(e, PayAt(path, k)) = P(k)
<1>1. tries[e] \in {1, 2} /\ path \in {"pipe", "fallback", "memory"} /\ (tries[e] = 2 => path = "fallback")
  BY DEF CtlInv, Paths
<1>2. P(k)[1] = "payload" /\ P(k)[2] = k /\ P(k) = <<"payload", k>> /\ -(-k) = k
  BY DEF P
<1>3. CASE path = "pipe"
  BY <1>1, <1>3 DEF Mask, InMemory, PayAt
<1>4. CASE path # "pipe"
  <2>1. InMemory(e)
    BY <1>1, <1>4 DEF InMemory, SpliceFails
  <2> QED BY <1>2, <1>4, <2>1 DEF Mask, PayAt
<1> QED BY <1>3, <1>4

\* Where both are in the stream are numbers.
LEMMA GotMade ==
    ASSUME CtlInv, NEW h1 \in Headers, NEW h2 \in Headers
    PROVE  Got(h1, h2) \in Nat /\ Made(h1, h2) \in Nat
<1>1. PLen(h1) \in Nat /\ PLen(h2) \in Nat /\ HdrLen \in Nat /\ Len(fwd) \in Nat /\ sent \in Nat
  BY Sizes DEF CtlInv
<1> QED BY <1>1 DEF Got, GotAt, Made, MadeAt, Off, Hdr

\* A part of the second that moves to the first, a part of the third to the
\* second, and one more behind the second.
LEMMA ThreeMoved ==
    ASSUME NEW B, NEW w \in Seq(B), NEW s \in Seq(B), NEW t \in Seq(B), NEW a \in Seq(B),
           NEW b \in Seq(B)
    PROVE  /\ Join(Join(Join(w, a), b), t) = Join(Join(w, Join(a, b)), t)
           /\ Join(Join(w, Join(s, a)), b) = Join(Join(w, s), Join(a, b))
           /\ Join(w, Join(s, a)) = Join(Join(w, s), a)
           /\ Join(w, a) \in Seq(B) /\ Join(s, a) \in Seq(B) /\ Join(w, s) \in Seq(B)
<1>1. Join(w, a) \in Seq(B) /\ Join(s, a) \in Seq(B) /\ Join(w, s) \in Seq(B)
  BY JoinIs
<1>2. Join(Join(w, a), b) = Join(w, Join(a, b))
  BY JoinAssoc
<1>3. Join(w, Join(s, a)) = Join(Join(w, s), a)
  BY JoinAssoc
<1>4. Join(Join(Join(w, s), a), b) = Join(Join(w, s), Join(a, b))
  BY <1>1, JoinAssoc
<1> QED BY <1>1, <1>2, <1>3, <1>4

\* What is on its way, as a sequence.
LEMMA RestType ==
    ASSUME CtlInv
    PROVE  /\ Rest \in Seq(Byte) /\ Len(Rest) \in Nat /\ Len(wire) \in Nat
           /\ Len(wire) <= Len(Rest)
           /\ \A i \in 1..Len(wire) : Rest[i] = wire[i]
<1> DEFINE B == Byte
<1>1. wire \in Seq(B) /\ staged \in Seq(B) /\ todo \in Seq(B)
  BY DEF CtlInv
<1> HIDE DEF B
<1> DEFINE u == Join(wire, staged)
<1>2. /\ u \in Seq(B) /\ Len(wire) \in Nat /\ Len(staged) \in Nat
      /\ Len(u) = Len(wire) + Len(staged) /\ \A i \in 1..Len(wire) : u[i] = wire[i]
  BY <1>1, JoinIs
<1>3. Rest = Join(u, todo)
  BY DEF Rest
<1> HIDE DEF u
<1>4. /\ Rest \in Seq(B) /\ Len(u) \in Nat /\ Len(todo) \in Nat /\ Len(Rest) = Len(u) + Len(todo)
      /\ \A i \in 1..Len(u) : Rest[i] = u[i]
  BY <1>1, <1>2, <1>3, JoinIs
<1>5. \A i \in 1..Len(wire) : Rest[i] = wire[i]
  BY <1>2, <1>4
<1> QED BY <1>2, <1>4, <1>5 DEF B

\* A read of k bytes.
LEMMA Reads ==
    ASSUME CtlInv, NEW k \in 0..Len(wire), wire' = After(wire, k), UNCHANGED <<staged, todo>>
    PROVE  /\ wire' \in Seq(Byte) /\ Len(Rest') \in Nat
           /\ Len(Rest) = k + Len(Rest')
           /\ \A i \in 1..Len(Rest') : Rest'[i] = Rest[k + i]
<1> DEFINE B == Byte
<1>1. wire \in Seq(B) /\ staged \in Seq(B) /\ todo \in Seq(B)
  BY DEF CtlInv
<1>2. Rest = Join(Join(wire, staged), todo) /\ Rest' = Join(Join(wire', staged), todo)
  BY DEF Rest
<1> HIDE DEF B
<1>3. PICK a \in Seq(B), b \in Seq(B) : Len(a) = k /\ wire' = b /\ Join(a, b) = wire
  <2>1. /\ First(wire, k) \in Seq(B) /\ After(wire, k) \in Seq(B) /\ Len(First(wire, k)) = k
        /\ Join(First(wire, k), After(wire, k)) = wire
    BY <1>1, Cut
  <2> QED BY <2>1
<1> DEFINE r == Join(Join(b, staged), todo)
<1>4. Join(b, staged) \in Seq(B) /\ r \in Seq(B)
  BY <1>1, JoinIs
<1>5. Join(Join(a, b), staged) = Join(a, Join(b, staged))
  BY <1>1, JoinAssoc
<1>6. Join(Join(a, Join(b, staged)), todo) = Join(a, r)
  BY <1>1, <1>4, JoinAssoc
<1>7. Rest = Join(a, r) /\ Rest' = r
  BY <1>2, <1>3, <1>5, <1>6
<1> HIDE DEF r
<1>8. Len(r) \in Nat /\ Len(Join(a, r)) = Len(a) + Len(r)
      /\ \A i \in 1..Len(r) : Join(a, r)[Len(a) + i] = r[i]
  BY <1>4, JoinIs
<1> QED BY <1>3, <1>7, <1>8 DEF B

\* The end of the client cuts off what is not on the connection.
LEMMA Cuts ==
    ASSUME CtlInv, wire' = wire, staged' = <<>>, todo' = <<>>
    PROVE  /\ Len(Rest') \in Nat /\ Len(Rest') <= Len(Rest)
           /\ \A i \in 1..Len(Rest') : Rest'[i] = Rest[i]
<1>1. Rest' = Join(Join(wire, <<>>), <<>>)
  BY DEF Rest
<1> DEFINE B == Byte
<1>2. wire \in Seq(B)
  BY DEF CtlInv
<1> HIDE DEF B
<1>3. Rest' = wire
  BY <1>1, <1>2, JoinEmpty
<1> QED BY <1>3, RestType

\* A write to the next hop appends to what is on its way.
LEMMA Puts ==
    ASSUME CtlInv, todo = <<>>, NEW x \in Seq(Byte), Put(x), todo' = <<>>
    PROVE  /\ wire' \in Seq(Byte) /\ staged' \in Seq(Byte) /\ Rest' = Join(Rest, x)
           /\ ~buffered => staged' = <<>>
<1> DEFINE B == Byte
<1>1. /\ wire \in Seq(B) /\ staged \in Seq(B) /\ x \in Seq(B) /\ (~buffered => staged = <<>>)
      /\ buffered \in BOOLEAN
  BY DEF CtlInv
<1>2. /\ buffered => wire' = wire /\ staged' = Join(staged, x)
      /\ ~buffered => wire' = Join(wire, x) /\ staged' = staged
  BY DEF Put, Join
<1>3. Rest = Join(Join(wire, staged), <<>>) /\ Rest' = Join(Join(wire', staged'), <<>>)
  BY DEF Rest
<1> HIDE DEF B
<1>4. /\ Join(wire, x) \in Seq(B) /\ Join(staged, x) \in Seq(B) /\ Join(wire, staged) \in Seq(B)
      /\ Join(wire, Join(staged, x)) = Join(Join(wire, staged), x)
  BY <1>1, ThreeMoved
<1>5. /\ Join(Join(wire, staged), <<>>) = Join(wire, staged)
      /\ Join(wire, <<>>) = wire /\ Join(Join(wire, x), <<>>) = Join(wire, x)
  BY <1>1, <1>4, JoinEmpty
<1>6. Join(Join(Join(wire, staged), x), <<>>) = Join(Join(wire, staged), x)
  <2>1. Join(Join(wire, staged), x) \in Seq(B)
    BY <1>1, <1>4, JoinIs
  <2> QED BY <2>1, JoinEmpty
<1>7. CASE buffered
  BY <1>1, <1>2, <1>3, <1>4, <1>5, <1>6, <1>7 DEF B
<1>8. CASE ~buffered
  BY <1>1, <1>2, <1>3, <1>4, <1>5, <1>8 DEF B
<1> QED BY <1>7, <1>8

\* write_all moves bytes.
LEMMA Writes ==
    ASSUME CtlInv, NEW n \in 1..Len(todo), Put(First(todo, n)), todo' = After(todo, n)
    PROVE  /\ wire' \in Seq(Byte) /\ staged' \in Seq(Byte) /\ todo' \in Seq(Byte)
           /\ Rest' = Rest /\ (~buffered => staged' = <<>>)
           /\ n = Len(todo) => todo' = <<>>
<1> DEFINE B == Byte
           a == First(todo, n)
           b == After(todo, n)
<1>1. /\ wire \in Seq(B) /\ staged \in Seq(B) /\ todo \in Seq(B)
      /\ (~buffered => staged = <<>>) /\ buffered \in BOOLEAN
  BY DEF CtlInv
<1>2. /\ buffered => wire' = wire /\ staged' = Join(staged, a)
      /\ ~buffered => wire' = Join(wire, a) /\ staged' = staged
  BY DEF Put, Join
<1>3. Rest = Join(Join(wire, staged), todo) /\ Rest' = Join(Join(wire', staged'), todo')
  BY DEF Rest
<1> HIDE DEF B
<1>4. n \in 0..Len(todo) /\ Len(todo) \in Nat
  BY <1>1
<1>5. a \in Seq(B) /\ b \in Seq(B) /\ Len(b) = Len(todo) - n
  BY <1>1, <1>4, Cut
<1>6. Join(a, b) = todo /\ todo' = b
  BY <1>1, <1>4, Cut
<1> HIDE DEF a, b
<1>7. n = Len(todo) => b = <<>>
  BY <1>4, <1>5
<1>8. /\ Join(Join(wire, Join(staged, a)), b) = Join(Join(wire, staged), Join(a, b))
      /\ Join(wire, a) \in Seq(B) /\ Join(staged, a) \in Seq(B)
  BY <1>1, <1>5, ThreeMoved
<1>9. CASE buffered
  BY <1>1, <1>2, <1>3, <1>5, <1>6, <1>7, <1>8, <1>9 DEF B
<1>10. CASE ~buffered
  <2>1. Join(a, <<>>) = a /\ Join(wire, <<>>) = wire /\ Join(Join(wire, a), <<>>) = Join(wire, a)
    BY <1>1, <1>5, <1>8, JoinEmpty
  <2>2. Join(Join(wire, a), b) = Join(wire, Join(a, b))
    BY <1>1, <1>5, JoinAssoc
  <2> QED BY <1>1, <1>2, <1>3, <1>5, <1>6, <1>7, <1>8, <1>10, <2>1, <2>2 DEF B
<1> QED BY <1>9, <1>10

\* What the buffered writer passes on is on its way still.
LEMMA Passes ==
    ASSUME CtlInv, NEW n \in 0..Len(staged), PassOn(n), todo' = todo
    PROVE  /\ wire' \in Seq(Byte) /\ staged' \in Seq(Byte) /\ Rest' = Rest
           /\ staged = <<>> => staged' = <<>>
<1> DEFINE B == Byte
           a == First(staged, n)
           b == After(staged, n)
<1>1. wire \in Seq(B) /\ staged \in Seq(B) /\ todo \in Seq(B)
  BY DEF CtlInv
<1>2. wire' = Join(wire, a) /\ staged' = b
  BY DEF PassOn, Join, First, After
<1>3. Rest = Join(Join(wire, staged), todo) /\ Rest' = Join(Join(wire', staged'), todo)
  BY DEF Rest
<1> HIDE DEF B
<1>4. a \in Seq(B) /\ b \in Seq(B) /\ Len(b) = Len(staged) - n
  BY <1>1, Cut
<1>5. Join(a, b) = staged
  BY <1>1, Cut
<1> HIDE DEF a, b
<1>6. staged = <<>> => b = <<>>
  BY <1>1, <1>4
<1>7. Join(Join(Join(wire, a), b), todo) = Join(Join(wire, Join(a, b)), todo) /\ Join(wire, a) \in Seq(B)
  BY <1>1, <1>4, ThreeMoved
<1> QED BY <1>2, <1>3, <1>4, <1>5, <1>6, <1>7 DEF B

\* Where the parts of the stream are.
LEMMA StreamParts ==
    ASSUME NEW h1 \in Headers, NEW h2 \in Headers, NEW pth
    PROVE  /\ \A i \in 1..PLen(h1) : StreamAt(h1, h2, pth, i) = PrefixAt(h1, i)
           /\ pth = "fallback" =>
                  /\ \A i \in 1..PLen(h2) : StreamAt(h1, h2, pth, PLen(h1) + i) = PrefixAt(h2, i)
                  /\ \A i \in Nat \ {0} :
                         StreamAt(h1, h2, pth, PLen(h1) + PLen(h2) + i) = PayAt(pth, i)
           /\ pth # "fallback" =>
                  \A i \in Nat \ {0} : StreamAt(h1, h2, pth, PLen(h1) + i) = PayAt(pth, i)
<1>1. PLen(h1) \in Nat /\ PLen(h2) \in Nat
  BY Sizes
<1>2. \A i \in 1..PLen(h1) : StreamAt(h1, h2, pth, i) = PrefixAt(h1, i)
  BY <1>1 DEF StreamAt
<1>3. ASSUME pth = "fallback", NEW i \in 1..PLen(h2)
      PROVE  StreamAt(h1, h2, pth, PLen(h1) + i) = PrefixAt(h2, i)
  <2>1. ~(PLen(h1) + i <= PLen(h1)) /\ PLen(h1) + i <= PLen(h1) + PLen(h2) /\ (PLen(h1) + i) - PLen(h1) = i
    BY <1>1
  <2> QED BY <1>3, <2>1 DEF StreamAt
<1>4. ASSUME pth = "fallback", NEW i \in Nat \ {0}
      PROVE  StreamAt(h1, h2, pth, PLen(h1) + PLen(h2) + i) = PayAt(pth, i)
  <2> DEFINE n == PLen(h1) + PLen(h2) + i
  <2>1. ~(n <= PLen(h1)) /\ ~(n <= PLen(h1) + PLen(h2)) /\ n - PLen(h1) - PLen(h2) = i
    BY <1>1
  <2> HIDE DEF n
  <2>2. StreamAt(h1, h2, pth, n) = PayAt(pth, i)
    BY <1>4, <2>1 DEF StreamAt
  <2> QED BY <2>2 DEF n
<1>5. ASSUME pth # "fallback", NEW i \in Nat \ {0}
      PROVE  StreamAt(h1, h2, pth, PLen(h1) + i) = PayAt(pth, i)
  <2>1. ~(PLen(h1) + i <= PLen(h1)) /\ (PLen(h1) + i) - PLen(h1) = i
    BY <1>1
  <2> QED BY <1>5, <2>1 DEF StreamAt
<1> QED BY <1>2, <1>3, <1>4, <1>5

\* The same, one byte at a time.
LEMMA StreamFirst ==
    ASSUME NEW h1 \in Headers, NEW h2 \in Headers, NEW pth, NEW i \in 1..PLen(h1)
    PROVE  StreamAt(h1, h2, pth, i) = PrefixAt(h1, i)
BY StreamParts

LEMMA StreamSecond ==
    ASSUME NEW h1 \in Headers, NEW h2 \in Headers, NEW pth, NEW i \in 1..PLen(h2), pth = "fallback"
    PROVE  StreamAt(h1, h2, pth, PLen(h1) + i) = PrefixAt(h2, i)
BY StreamParts

\* Behind the prefix of an end that relays is the payload.
LEMMA BehindPrefix ==
    ASSUME CtlInv, NEW e \in Ends, ~SpliceFails(e), NEW h1 \in Headers, NEW h2 \in Headers,
           NEW k \in Nat
    PROVE  StreamAt(h1, h2, path, Off(h1, tries[e]) + PLen(Hdr(h1, h2, tries[e])) + k + 1)
               = PayAt(path, k + 1)
<1>1. PLen(h1) \in Nat /\ PLen(h2) \in Nat /\ k + 1 \in Nat \ {0}
  BY Sizes
<1>2. tries[e] \in {1, 2} /\ (tries[e] = 2 => path = "fallback") /\ (tries[e] = 1 => path # "fallback")
  BY DEF CtlInv, SpliceFails
<1>3. CASE tries[e] = 1
  <2>1. Off(h1, tries[e]) + PLen(Hdr(h1, h2, tries[e])) + k + 1 = PLen(h1) + (k + 1)
    BY <1>1, <1>3 DEF Off, Hdr
  <2> QED BY <1>1, <1>2, <1>3, <2>1, StreamParts
<1>4. CASE tries[e] = 2
  <2>1. Off(h1, tries[e]) + PLen(Hdr(h1, h2, tries[e])) + k + 1 = PLen(h1) + PLen(h2) + (k + 1)
    BY <1>1, <1>4 DEF Off, Hdr
  <2> QED BY <1>1, <1>2, <1>4, <2>1, StreamParts
<1> QED BY <1>2, <1>3, <1>4

\* Where a try starts is its prefix.
LEMMA PrefixAhead ==
    ASSUME CtlInv, NEW e \in Ends, NEW h1 \in Headers, NEW h2 \in Headers,
           NEW i \in 1..PLen(Hdr(h1, h2, tries[e]))
    PROVE  StreamAt(h1, h2, path, Off(h1, tries[e]) + i) = PrefixAt(Hdr(h1, h2, tries[e]), i)
<1>1. PLen(h1) \in Nat /\ PLen(h2) \in Nat
  BY Sizes
<1>2. tries[e] \in {1, 2} /\ (tries[e] = 2 => path = "fallback")
  BY DEF CtlInv
<1>3. CASE tries[e] = 1
  <2>1. Off(h1, tries[e]) + i = i /\ i \in 1..PLen(h1)
    BY <1>1, <1>3 DEF Off, Hdr
  <2> QED BY <1>3, <2>1, StreamParts DEF Hdr
<1>4. CASE tries[e] = 2
  <2>1. Off(h1, tries[e]) + i = PLen(h1) + i /\ i \in 1..PLen(h2)
    BY <1>1, <1>4 DEF Off, Hdr
  <2> QED BY <1>2, <1>4, <2>1, StreamParts DEF Hdr
<1> QED BY <1>2, <1>3, <1>4

\* The next bytes as a header, when they are those of one.
LEMMA OneReading ==
    ASSUME CtlInv, NEW g \in Header, HdrLen <= Len(wire), \A i \in 1..HdrLen : Rest[i] = H(g[i])
    PROVE  Readings = {g}
<1>1. HdrLen \in Nat
  BY Sizes
<1>2. \A i \in 1..HdrLen : wire[i] = H(g[i])
  BY <1>1, RestType
<1>3. \A i \in 1..HdrLen : wire[i][1] = "header" /\ wire[i][2] = g[i]
  BY <1>2 DEF H
<1>4. [i \in 1..HdrLen |-> wire[i][2]] = [i \in 1..HdrLen |-> g[i]]
  BY <1>3
<1>5. g = [i \in 1..HdrLen |-> g[i]]
  BY DEF Header
<1> QED BY <1>3, <1>4, <1>5 DEF Readings

\* What stays on its way stays in its place.
LEMMA Stays ==
    ASSUME CtlInv, NEW h1 \in Headers, NEW h2 \in Headers, Follows(h1, h2),
           UNCHANGED <<path, tries, spc, left, fwd, sent>>,
           Len(Rest') \in Nat, Len(Rest') <= Len(Rest), \A i \in 1..Len(Rest') : Rest'[i] = Rest[i],
           cpc' # "ended" => /\ Len(Rest') = Len(Rest) /\ cpc # "ended"
                             /\ (cpc' = "generate" <=> cpc = "generate")
    PROVE  Follows(h1, h2)'
<1>1. Got(h1, h2)' = Got(h1, h2)
  BY DEF Got
<1>2. cpc' # "ended" => Made(h1, h2)' = Made(h1, h2)
  BY DEF Made, MadeAt
<1>3. Len(Rest) \in Nat
  BY RestType
<1>4. \A i \in 1..Len(Rest') : i \in 1..Len(Rest)
  BY <1>3
<1>5. \A i \in 1..Len(Rest') : Rest'[i] = StreamAt(h1, h2, path, Got(h1, h2) + i)
  BY <1>4 DEF Follows
<1>6. cpc' # "ended" => Got(h1, h2) + Len(Rest') = Made(h1, h2)
  BY DEF Follows
<1> QED BY <1>1, <1>2, <1>5, <1>6 DEF Follows

\* A read moves both ends of what is on its way.
LEMMA Moves ==
    ASSUME CtlInv, NEW h1 \in Headers, NEW h2 \in Headers, Follows(h1, h2),
           UNCHANGED <<path, cpc, sent, tries, staged, todo>>,
           NEW k \in 0..Len(wire), wire' = After(wire, k), Got(h1, h2)' = Got(h1, h2) + k,
           spc' = "garbage" => left' = Number(Digits(Hdr(h1, h2, tries["server"])))
    PROVE  Follows(h1, h2)'
<1>1. /\ Len(Rest') \in Nat /\ Len(Rest) = k + Len(Rest')
      /\ \A i \in 1..Len(Rest') : Rest'[i] = Rest[k + i]
  BY Reads
<1>2. Made(h1, h2)' = Made(h1, h2)
  BY DEF Made
<1>3. Got(h1, h2) \in Nat /\ k \in Nat
  BY GotMade, RestType
<1>4. ASSUME NEW i \in 1..Len(Rest') PROVE Rest'[i] = StreamAt(h1, h2, path, Got(h1, h2)' + i)
  <2>1. k + i \in 1..Len(Rest) /\ Got(h1, h2)' + i = Got(h1, h2) + (k + i)
    BY <1>1, <1>3
  <2> QED BY <1>1, <2>1 DEF Follows
<1>5. cpc # "ended" => Got(h1, h2)' + Len(Rest') = Made(h1, h2)
  BY <1>1, <1>3 DEF Follows
<1> QED BY <1>2, <1>4, <1>5 DEF Follows

-----------------------------------------------------------------------------
(* The inductive invariant                                                 *)

LEMMA InitInv == ASSUME Init PROVE IInv
<1> DEFINE B == Byte
<1>1. HdrLen \in Nat /\ HdrLen > 0
  BY Sizes
<1>2. CASE sender = "relay"
  <2>1. first = <<>> /\ Len(first) = 0
    BY <1>2 DEF Init
  <2>2. todo = <<>>
    BY <2>1 DEF Init
  <2>3. CtlInv
    BY <1>2, <2>2 DEF Init, CtlInv, Ends, SpliceFails
  <2>4. wire = <<>> /\ staged = <<>> /\ <<>> \in Seq(B)
    BY DEF Init
  <2>5. Rest = <<>> /\ Len(Rest) = 0
    BY <2>2, <2>4, JoinEmpty DEF Rest
  <2>6. PICK h \in Headers : TRUE
    BY SomeHeader
  <2>7. Got(h, h) = 0 /\ Made(h, h) = 0
    BY <1>2 DEF Init, Ends, Got, GotAt, Made, MadeAt, Off
  <2>8. Follows(h, h)
    BY <2>5, <2>7 DEF Follows, Init
  <2>9. RelayInv
    BY <1>2, <2>6, <2>8 DEF RelayInv, Init
  <2> QED BY <1>2, <2>3, <2>9 DEF IInv, ProbeInv
<1>3. CASE sender = "probe"
  <2>1. first \in Header /\ Len(first) = HdrLen
    BY <1>1, <1>3 DEF Init, Header
  <2>2. \A i \in 1..HdrLen : H(first[i]) \in B
    BY <2>1 DEF H, Byte, Header, Code
  <2>3. todo = [i \in 1..HdrLen |-> H(first[i])]
    BY <2>1 DEF Init
  <2> HIDE DEF B
  <2>4. /\ todo \in Seq(B) /\ Len(todo) = HdrLen
        /\ \A i \in 1..HdrLen : todo[i] = H(first[i])
    BY <1>1, <2>2, <2>3
  <2>5. CtlInv
    BY <1>3, <2>4 DEF Init, CtlInv, Ends, SpliceFails, B
  <2>6. wire = <<>> /\ staged = <<>> /\ <<>> \in Seq(B) /\ Len(<<>>) = 0
    BY DEF Init
  <2>7. Join(<<>>, <<>>) = <<>>
    BY <2>6, JoinEmpty
  <2> DEFINE e == <<>>
  <2>8. Rest = Join(e, todo) /\ e \in Seq(B) /\ Len(e) = 0
    BY <2>6, <2>7 DEF Rest
  <2> HIDE DEF e
  <2>a. /\ Len(Join(e, todo)) = Len(e) + Len(todo)
        /\ \A i \in 1..Len(todo) : Join(e, todo)[Len(e) + i] = todo[i]
    <3>1. todo \in Seq(B) /\ e \in Seq(B)
      BY <2>4, <2>8
    <3>2. Len(Join(e, todo)) = Len(e) + Len(todo)
      BY <3>1, JoinIs
    <3>3. \A i \in 1..Len(todo) : Join(e, todo)[Len(e) + i] = todo[i]
      BY <3>1, JoinIs
    <3> QED BY <3>2, <3>3
  <2>9. Len(Rest) = 0 + Len(todo) /\ \A i \in 1..Len(todo) : Rest[0 + i] = todo[i]
    BY <2>8, <2>a
  <2>10. Len(Rest) = HdrLen /\ \A i \in 1..HdrLen : Rest[i] = H(first[i])
    BY <1>1, <2>4, <2>9
  <2>11. ProbeInv
    BY <1>1, <1>3, <2>1, <2>10 DEF ProbeInv, Init
  <2> QED BY <1>3, <2>5, <2>11 DEF IInv, RelayInv
<1> QED BY <1>2, <1>3 DEF Init

\* A new prefix goes behind what is on its way, which is nothing of this try.
LEMMA GenerateStep == ASSUME IInv, Generate PROVE IInv'
<1>1. /\ CtlInv /\ RelayInv /\ ProbeInv /\ cpc = "generate" /\ todo = <<>> /\ cpc' = "write"
      /\ UNCHANGED <<sender, path, buffered, first, tries, need_flush, staged, wire, sent, spc, left, fwd>>
  BY DEF IInv, CtlInv, Generate, config, server
<1>2. PICK h \in Headers : todo' = Prefix(h)
  BY DEF Generate
<1>3. sender = "relay"
  BY <1>1 DEF ProbeInv, CtlInv
<1> DEFINE p == Prefix(h)
<1>4. p \in Seq(Byte) /\ Len(p) = PLen(h) /\ \A i \in 1..PLen(h) : p[i] = PrefixAt(h, i)
  BY PrefixBytes
<1>5. CtlInv'
  BY <1>1, <1>2, <1>4 DEF CtlInv, SpliceFails
<1>6. Rest' = Join(Rest, p) /\ Rest \in Seq(Byte)
  <2> DEFINE B == Byte
  <2>1. wire \in Seq(B) /\ staged \in Seq(B)
    BY <1>1 DEF CtlInv
  <2> HIDE DEF B
  <2>2. Join(wire, staged) \in Seq(B)
    BY <2>1, JoinIs
  <2>3. Rest = Join(wire, staged)
    BY <1>1, <2>2, JoinEmpty DEF Rest
  <2> QED BY <1>1, <1>2, <2>2, <2>3 DEF Rest, B
<1> HIDE DEF p
<1>7. /\ Len(Rest) \in Nat /\ Len(Rest') = Len(Rest) + PLen(h)
      /\ \A i \in 1..Len(Rest) : Rest'[i] = Rest[i]
      /\ \A i \in 1..PLen(h) : Rest'[Len(Rest) + i] = PrefixAt(h, i)
  <2> DEFINE B == Byte
             R == Rest
  <2>1. p \in Seq(B) /\ R \in Seq(B)
    BY <1>4, <1>6
  <2> HIDE DEF B, R
  <2>2. Len(R) \in Nat /\ Len(Join(R, p)) = Len(R) + Len(p)
    BY <2>1, JoinIs
  <2>3. \A i \in 1..Len(R) : Join(R, p)[i] = R[i]
    BY <2>1, JoinIs
  <2>4. \A i \in 1..Len(p) : Join(R, p)[Len(R) + i] = p[i]
    BY <2>1, JoinIs
  <2> QED BY <1>4, <1>6, <2>2, <2>3, <2>4 DEF R
<1>8. /\ sent = 0 /\ spc # "sleep" /\ spc # "ended" /\ \A k \in 1..Len(fwd) : fwd[k] = P(k)
      /\ spc \in {"header", "garbage", "relay"}
  BY <1>1, <1>3 DEF RelayInv, CtlInv
<1>9. PICK h1 \in Headers, h2 \in Headers : Follows(h1, h2)
  BY <1>1, <1>3, <1>8 DEF RelayInv
<1>10. /\ HdrLen \in Nat /\ HdrLen > 0 /\ PLen(h1) \in Nat /\ PLen(h2) \in Nat /\ PLen(h) \in Nat
       /\ PLen(h1) > 0 /\ PLen(h2) > 0 /\ Len(fwd) \in Nat
  BY <1>1, Sizes DEF CtlInv
<1>11. Got(h1, h2) + Len(Rest) = Off(h1, tries["client"])
  BY <1>1, <1>9 DEF Follows, Made, MadeAt
<1>12. tries["client"] \in {1, 2} /\ tries["server"] \in {1, 2} /\ Got(h1, h2) \in Nat
       /\ (tries["client"] = 2 => path = "fallback")
  BY <1>1, GotMade DEF CtlInv, Ends
<1>13. \E g1, g2 \in Headers : Follows(g1, g2)'
  <2>1. CASE tries["client"] = 1
    <3>1. Got(h1, h2) = 0 /\ Len(Rest) = 0
      BY <1>7, <1>11, <1>12, <2>1 DEF Off
    <3>2. spc = "header" /\ tries["server"] = 1
      BY <1>8, <1>10, <1>12, <3>1 DEF Got, GotAt, Off, Hdr
    <3>3. Got(h, h2)' = 0 /\ Made(h, h2)' = PLen(h)
      BY <1>1, <1>8, <1>10, <2>1, <3>2 DEF Got, GotAt, Made, MadeAt, Off, Hdr
    <3>4. ASSUME NEW i \in 1..Len(Rest') PROVE Rest'[i] = StreamAt(h, h2, path, 0 + i)
      <4>1. i \in 1..PLen(h) /\ 0 + i = i
        BY <1>7, <1>10, <3>1
      <4>2. Rest'[i] = PrefixAt(h, i)
        BY <1>7, <3>1, <4>1
      <4> QED BY <4>1, <4>2, StreamFirst
    <3>5. 0 + Len(Rest') = PLen(h)
      BY <1>7, <1>10, <3>1
    <3>6. Follows(h, h2)'
      BY <1>1, <3>2, <3>3, <3>4, <3>5 DEF Follows
    <3> QED BY <3>6
  <2>2. CASE tries["client"] = 2
    <3>1. Got(h1, h2) + Len(Rest) = PLen(h1) /\ path = "fallback"
      BY <1>11, <1>12, <2>2 DEF Off
    <3>2. ~(spc # "header" /\ tries["server"] = 2)
      <4>1. ASSUME spc # "header", tries["server"] = 2 PROVE Got(h1, h2) > PLen(h1)
        <5>1. Got(h1, h2) = PLen(h1) + HdrLen \/ Got(h1, h2) = PLen(h1) + PLen(h2) + Len(fwd)
          BY <1>8, <4>1 DEF Got, GotAt, Off, Hdr
        <5> QED BY <1>10, <5>1
      <4> QED BY <1>7, <1>10, <1>12, <3>1, <4>1
    <3>3. Got(h1, h)' = Got(h1, h2) /\ Made(h1, h)' = PLen(h1) + PLen(h)
      BY <1>1, <1>8, <1>10, <1>12, <2>2, <3>2 DEF Got, GotAt, Made, MadeAt, Off, Hdr
    <3>4. ASSUME NEW i \in 1..Len(Rest')
          PROVE  Rest'[i] = StreamAt(h1, h, path, Got(h1, h2) + i)
      <4>1. CASE i <= Len(Rest)
        <5>1. i \in 1..Len(Rest) /\ Got(h1, h2) + i \in 1..PLen(h1)
          BY <1>7, <1>10, <1>12, <3>1, <4>1
        <5>2. Rest'[i] = StreamAt(h1, h2, path, Got(h1, h2) + i)
          BY <1>7, <1>9, <5>1 DEF Follows
        <5>3. /\ StreamAt(h1, h2, path, Got(h1, h2) + i) = PrefixAt(h1, Got(h1, h2) + i)
              /\ StreamAt(h1, h, path, Got(h1, h2) + i) = PrefixAt(h1, Got(h1, h2) + i)
          BY <5>1, StreamFirst
        <5> QED BY <5>2, <5>3
      <4>2. CASE ~(i <= Len(Rest))
        <5> DEFINE j == i - Len(Rest)
        <5>1. j \in 1..PLen(h) /\ Len(Rest) + j = i /\ Got(h1, h2) + i = PLen(h1) + j
          BY <1>7, <1>10, <1>12, <3>1, <4>2
        <5> HIDE DEF j
        <5>2. Rest'[i] = PrefixAt(h, j)
          BY <1>7, <5>1
        <5>3. StreamAt(h1, h, path, PLen(h1) + j) = PrefixAt(h, j)
          BY <3>1, <5>1, StreamSecond
        <5> QED BY <5>1, <5>2, <5>3
      <4> QED BY <4>1, <4>2
    <3>5. Got(h1, h2) + Len(Rest') = PLen(h1) + PLen(h)
      BY <1>7, <1>10, <1>12, <3>1
    <3>6. spc = "garbage" => left = Number(Digits(Hdr(h1, h, tries["server"])))
      BY <1>9, <1>12, <3>2 DEF Follows, Hdr
    <3>7. Follows(h1, h)'
      BY <1>1, <3>3, <3>4, <3>5, <3>6 DEF Follows
    <3> QED BY <3>7
  <2> QED BY <1>12, <2>1, <2>2
<1>14. RelayInv'
  BY <1>1, <1>8, <1>13 DEF RelayInv
<1>15. ProbeInv'
  BY <1>1, <1>3 DEF ProbeInv
<1> QED BY <1>5, <1>14, <1>15 DEF IInv

\* A byte stays a byte when it is masked.
LEMMA MaskType == ASSUME NEW e, NEW x \in Byte PROVE Mask(e, x) \in Byte
BY DEF Mask, Byte

\* write_all.
LEMMA WritePrefixStep == ASSUME IInv, WritePrefix PROVE IInv'
<1>1. /\ CtlInv /\ RelayInv /\ ProbeInv /\ cpc = "write"
      /\ UNCHANGED <<sender, path, buffered, first, tries, need_flush, sent, spc, left, fwd>>
  BY DEF IInv, WritePrefix, config, server
<1>2. PICK n \in 1..Len(todo) : /\ Put(First(todo, n)) /\ todo' = After(todo, n)
                                /\ cpc' = IF n = Len(todo) THEN "relay" ELSE "write"
  BY DEF WritePrefix, First, After
<1>3. /\ wire' \in Seq(Byte) /\ staged' \in Seq(Byte) /\ todo' \in Seq(Byte)
      /\ Rest' = Rest /\ (~buffered => staged' = <<>>)
      /\ n = Len(todo) => todo' = <<>>
  BY <1>1, <1>2, Writes
<1>4. cpc' \in {"relay", "write"} /\ (cpc' # "write" => todo' = <<>>)
  BY <1>2, <1>3
<1>5. CtlInv'
  BY <1>1, <1>3, <1>4 DEF CtlInv, SpliceFails
<1>6. Len(Rest) \in Nat
  BY <1>1, RestType
<1>7. ASSUME sender = "relay", spc # "ended" PROVE \E h1, h2 \in Headers : Follows(h1, h2)'
  <2>1. PICK h1 \in Headers, h2 \in Headers : Follows(h1, h2)
    BY <1>1, <1>7 DEF RelayInv
  <2>2. Follows(h1, h2)'
    BY <1>1, <1>3, <1>4, <1>6, <2>1, Stays
  <2> QED BY <2>2
<1>8. RelayInv'
  BY <1>1, <1>4, <1>7 DEF RelayInv, SpliceFails
<1>9. ProbeInv'
  BY <1>1, <1>3, <1>4 DEF ProbeInv
<1> QED BY <1>5, <1>8, <1>9 DEF IInv

\* Payload goes behind what is on its way.
LEMMA RelayPayloadStep == ASSUME IInv, RelayPayload PROVE IInv'
<1> DEFINE x == Mask("client", P(sent + 1))
<1>1. /\ CtlInv /\ RelayInv /\ ProbeInv /\ cpc = "relay" /\ todo = <<>> /\ todo' = <<>>
      /\ (sender = "relay" => ~SpliceFails("client")) /\ Put(<<x>>) /\ sent' = sent + 1
      /\ UNCHANGED <<sender, path, buffered, first, tries, cpc, spc, left, fwd>>
  BY DEF IInv, CtlInv, RelayPayload, config, server
<1>2. P(sent + 1) \in Byte
  BY <1>1 DEF CtlInv, P, Byte
<1>3. x \in Byte
  BY <1>2, MaskType
<1>m. sender = "relay" => x = PayAt(path, sent + 1)
  BY <1>1, Masked DEF CtlInv, Ends
<1> HIDE DEF x
<1>4. <<x>> \in Seq(Byte)
  BY <1>3
<1>5. /\ wire' \in Seq(Byte) /\ staged' \in Seq(Byte) /\ Rest' = Join(Rest, <<x>>)
      /\ ~buffered => staged' = <<>>
  BY <1>1, <1>4, Puts
<1>6. CtlInv'
  BY <1>1, <1>5 DEF CtlInv, SpliceFails
<1>7. /\ Len(Rest) \in Nat /\ Len(Rest') = Len(Rest) + 1
      /\ \A i \in 1..Len(Rest) : Rest'[i] = Rest[i]
      /\ Rest'[Len(Rest) + 1] = x
  <2> DEFINE B == Byte
             R == Rest
             p == <<x>>
  <2>1. p \in Seq(B) /\ R \in Seq(B)
    BY <1>1, <1>4, RestType
  <2>a. Len(p) = 1 /\ p[1] = x
    OBVIOUS
  <2>0. Rest' = Join(R, p)
    BY <1>5
  <2> HIDE DEF B, R, p
  <2>2. Len(R) \in Nat /\ Len(Join(R, p)) = Len(R) + Len(p)
    BY <2>1, JoinIs
  <2>3. \A i \in 1..Len(R) : Join(R, p)[i] = R[i]
    BY <2>1, JoinIs
  <2>4. \A i \in 1..Len(p) : Join(R, p)[Len(R) + i] = p[i]
    BY <2>1, JoinIs
  <2>5. Join(R, p)[Len(R) + 1] = x
    BY <2>4, <2>a
  <2> QED BY <2>0, <2>2, <2>3, <2>5, <2>a DEF R
<1>8. ASSUME sender = "relay", spc # "ended" PROVE \E h1, h2 \in Headers : Follows(h1, h2)'
  <2>1. PICK h1 \in Headers, h2 \in Headers : Follows(h1, h2)
    BY <1>1, <1>8 DEF RelayInv
  <2> DEFINE o == Off(h1, tries["client"]) + PLen(Hdr(h1, h2, tries["client"]))
  <2>2. Got(h1, h2) + Len(Rest) = o + sent /\ Made(h1, h2)' = o + (sent + 1) /\ Got(h1, h2)' = Got(h1, h2)
    BY <1>1, <2>1 DEF Follows, Made, MadeAt, Got
  <2>3. StreamAt(h1, h2, path, o + sent + 1) = PayAt(path, sent + 1)
    BY <1>1, <1>8, BehindPrefix DEF CtlInv, Ends
  <2>4. Got(h1, h2) \in Nat /\ sent \in Nat /\ o \in Nat
    <3>1. PLen(h1) \in Nat /\ PLen(h2) \in Nat
      BY Sizes
    <3> QED BY <1>1, <3>1, GotMade DEF CtlInv, Off, Hdr
  <2> HIDE DEF o
  <2>5. ASSUME NEW i \in 1..Len(Rest') PROVE Rest'[i] = StreamAt(h1, h2, path, Got(h1, h2) + i)
    <3>1. CASE i <= Len(Rest)
      <4>1. i \in 1..Len(Rest)
        BY <1>7, <3>1
      <4> QED BY <1>7, <2>1, <4>1 DEF Follows
    <3>2. CASE ~(i <= Len(Rest))
      <4>1. i = Len(Rest) + 1 /\ Got(h1, h2) + i = o + sent + 1
        BY <1>7, <2>2, <2>4, <3>2
      <4> QED BY <1>7, <1>8, <1>m, <2>3, <4>1
    <3> QED BY <3>1, <3>2
  <2>6. Got(h1, h2) + Len(Rest') = o + (sent + 1)
    BY <1>7, <2>2, <2>4
  <2>7. Follows(h1, h2)'
    BY <1>1, <2>1, <2>2, <2>5, <2>6 DEF Follows
  <2> QED BY <2>7
<1>9. RelayInv'
  BY <1>1, <1>8 DEF RelayInv, SpliceFails
<1>10. ProbeInv'
  <2>1. ASSUME sender = "probe", Keyed(first) \notin Headers, spc = "header"
        PROVE  /\ \A i \in 1..Len(Rest') : i <= HdrLen => Rest'[i] = H(first[i])
               /\ Len(Rest') >= HdrLen
    <3>1. /\ \A i \in 1..Len(Rest) : i <= HdrLen => Rest[i] = H(first[i])
          /\ Len(Rest) >= HdrLen /\ HdrLen \in Nat
      BY <1>1, <2>1, Sizes DEF ProbeInv
    <3>2. \A i \in 1..Len(Rest') : i <= HdrLen => i \in 1..Len(Rest)
      BY <1>7, <3>1
    <3> QED BY <1>7, <3>1, <3>2
  <2> QED BY <1>1, <2>1 DEF ProbeInv
<1> QED BY <1>6, <1>9, <1>10 DEF IInv

\* The buffered writer passes bytes on.
LEMMA PassStep ==
    ASSUME IInv, NEW n \in 0..Len(staged), PassOn(n),
           UNCHANGED <<config, tries, cpc, todo, sent, server>>
    PROVE  IInv'
<1>1. /\ CtlInv /\ RelayInv /\ ProbeInv
      /\ UNCHANGED <<sender, path, buffered, first, tries, cpc, todo, sent, spc, left, fwd>>
  BY DEF IInv, config, server
<1>2. /\ wire' \in Seq(Byte) /\ staged' \in Seq(Byte) /\ Rest' = Rest
      /\ staged = <<>> => staged' = <<>>
  BY <1>1, Passes
<1>3. CtlInv'
  BY <1>1, <1>2 DEF CtlInv, SpliceFails
<1>4. Len(Rest) \in Nat
  BY <1>1, RestType
<1>5. ASSUME sender = "relay", spc # "ended" PROVE \E h1, h2 \in Headers : Follows(h1, h2)'
  <2>1. PICK h1 \in Headers, h2 \in Headers : Follows(h1, h2)
    BY <1>1, <1>5 DEF RelayInv
  <2>2. Follows(h1, h2)'
    BY <1>1, <1>2, <1>4, <2>1, Stays
  <2> QED BY <2>2
<1>6. RelayInv'
  BY <1>1, <1>5 DEF RelayInv, SpliceFails
<1>7. ProbeInv'
  BY <1>1, <1>2 DEF ProbeInv
<1> QED BY <1>3, <1>6, <1>7 DEF IInv

LEMMA FlushStep == ASSUME IInv, Flush PROVE IInv'
<1>1. Len(staged) \in Nat
  BY DEF IInv, CtlInv
<1>2. Len(staged) \in 0..Len(staged)
  BY <1>1
<1> QED BY <1>2, PassStep DEF Flush

LEMMA SpillStep == ASSUME IInv, Spill PROVE IInv'
<1>1. PICK n \in 1..Len(staged) : PassOn(n)
  BY DEF Spill
<1>2. n \in 0..Len(staged)
  OBVIOUS
<1> QED BY <1>1, <1>2, PassStep DEF Spill

\* The client starts over.
LEMMA ClientFallbackStep == ASSUME IInv, ClientFallback PROVE IInv'
<1>1. /\ CtlInv /\ RelayInv /\ cpc = "relay" /\ sender = "relay" /\ SpliceFails("client")
      /\ tries' = [tries EXCEPT !["client"] = 2] /\ cpc' = "generate" /\ todo = <<>>
      /\ UNCHANGED <<sender, path, buffered, first, todo, staged, wire, sent, spc, left, fwd>>
  BY DEF IInv, CtlInv, ClientFallback, config, server
<1>2. /\ tries["client"] = 1 /\ tries'["client"] = 2 /\ tries'["server"] = tries["server"]
      /\ path = "fallback" /\ tries' \in [Ends -> 1..2]
  BY <1>1 DEF CtlInv, Ends, SpliceFails
<1>3. CtlInv'
  BY <1>1, <1>2 DEF CtlInv, SpliceFails
<1>4. Rest' = Rest /\ sent = 0
  BY <1>1 DEF Rest, RelayInv
<1>5. ASSUME spc # "ended" PROVE \E h1, h2 \in Headers : Follows(h1, h2)'
  <2>1. PICK h1 \in Headers, h2 \in Headers : Follows(h1, h2)
    BY <1>1, <1>5 DEF RelayInv
  <2>2. PLen(h1) \in Nat
    BY Sizes
  <2>3. Got(h1, h2)' = Got(h1, h2)
    BY <1>1, <1>2 DEF Got
  <2>4. Made(h1, h2) = PLen(h1) /\ Made(h1, h2)' = PLen(h1)
    BY <1>1, <1>2, <1>4, <2>2 DEF Made, MadeAt, Off, Hdr
  <2>5. Follows(h1, h2)'
    BY <1>1, <1>2, <1>4, <2>1, <2>3, <2>4 DEF Follows
  <2> QED BY <2>5
<1>6. RelayInv'
  BY <1>1, <1>4, <1>5 DEF RelayInv
<1>7. ProbeInv'
  BY <1>1 DEF ProbeInv
<1> QED BY <1>3, <1>6, <1>7 DEF IInv

\* The client's stream ends.
LEMMA ClientEndsStep == ASSUME IInv, ClientEnds PROVE IInv'
<1>1. /\ CtlInv /\ RelayInv /\ ProbeInv /\ cpc # "ended" /\ cpc' = "ended" /\ todo' = <<>> /\ staged' = <<>>
      /\ UNCHANGED <<sender, path, buffered, first, tries, wire, sent, spc, left, fwd>>
  BY DEF IInv, ClientEnds, config, server
<1>2. /\ Len(Rest') \in Nat /\ Len(Rest') <= Len(Rest) /\ Len(Rest) \in Nat
      /\ \A i \in 1..Len(Rest') : Rest'[i] = Rest[i]
  BY <1>1, Cuts, RestType
<1>3. CtlInv'
  BY <1>1 DEF CtlInv, SpliceFails
<1>4. ASSUME sender = "relay", spc # "ended" PROVE \E h1, h2 \in Headers : Follows(h1, h2)'
  <2>1. PICK h1 \in Headers, h2 \in Headers : Follows(h1, h2)
    BY <1>1, <1>4 DEF RelayInv
  <2>2. Follows(h1, h2)'
    BY <1>1, <1>2, <2>1, Stays
  <2> QED BY <2>2
<1>5. RelayInv'
  BY <1>1, <1>4 DEF RelayInv, SpliceFails
<1>6. ProbeInv'
  <2>1. \A i \in 1..Len(Rest') : i \in 1..Len(Rest)
    BY <1>2
  <2> QED BY <1>1, <1>2, <2>1 DEF ProbeInv
<1> QED BY <1>3, <1>5, <1>6 DEF IInv

\* A header that is read: of a relay it is that of the try, and no probe's; of
\* another sender it is a probe's unless it is that of some prefix.
LEMMA ReadHeaderStep == ASSUME IInv, ReadHeader PROVE IInv'
<1>1. /\ CtlInv /\ RelayInv /\ ProbeInv /\ spc = "header" /\ Len(wire) >= HdrLen
      /\ wire' = After(wire, HdrLen)
      /\ UNCHANGED <<sender, path, buffered, first, tries, cpc, todo, staged, sent, fwd>>
  BY DEF IInv, ReadHeader, config, client, After
<1>2. PICK h \in Readings :
          IF IsProbe(Digits(Keyed(h))) THEN spc' = "sleep" /\ left' = left
          ELSE spc' = "garbage" /\ left' = Number(Digits(Keyed(h)))
  BY DEF ReadHeader
<1>3. HdrLen \in Nat /\ HdrLen \in 0..Len(wire) /\ HdrLen <= Len(wire) /\ Len(wire) <= Len(Rest) /\ Len(Rest) \in Nat
  BY <1>1, Sizes, RestType
<1>4. wire' \in Seq(Byte)
  BY <1>1, <1>3, Reads
<1>5. Digits(Keyed(h)) \in Seq(D)
  BY DigitsRanked DEF Ranked
<1>6. left' \in Nat /\ spc' \in {"sleep", "garbage"}
  BY <1>1, <1>2, <1>5, NumberNat DEF CtlInv
<1>7. CtlInv'
  BY <1>1, <1>4, <1>6 DEF CtlInv, SpliceFails
<1>8. ASSUME sender = "relay"
      PROVE  spc' = "garbage" /\ \E h1, h2 \in Headers : Follows(h1, h2)'
  <2>1. PICK h1 \in Headers, h2 \in Headers : Follows(h1, h2)
    BY <1>1, <1>8 DEF RelayInv
  <2> DEFINE t == tries["server"]
             g == Hdr(h1, h2, t)
  <2>2. g \in Headers /\ Got(h1, h2) = Off(h1, t)
    BY <1>1 DEF Got, GotAt, Hdr
  <2>3. ASSUME NEW i \in 1..HdrLen PROVE Rest[i] = H(Keyed(g)[i])
    <3>1. i \in 1..Len(Rest)
      BY <1>3
    <3>2. i \in 1..PLen(g) /\ i <= HdrLen
      BY <1>3, <2>2, Sizes
    <3>3. Rest[i] = StreamAt(h1, h2, path, Off(h1, t) + i)
      BY <2>1, <2>2, <3>1 DEF Follows
    <3>4. StreamAt(h1, h2, path, Off(h1, t) + i) = PrefixAt(g, i)
      BY <1>1, <3>2, PrefixAhead DEF Ends
    <3> QED BY <3>2, <3>3, <3>4 DEF PrefixAt
  <2>4. g \in Header /\ Digits(g) \in DigitStrings
    BY <2>2, MadeDigits
  <2>5. Keyed(g) \in Header /\ Keyed(Keyed(g)) = g
    BY <2>4, KeyedTwice
  <2>6. h = Keyed(g)
    BY <1>1, <1>3, <2>3, <2>5, OneReading
  <2>7. ~IsProbe(Digits(g))
    BY <2>4, WrittenDigits
  <2>8. spc' = "garbage" /\ left' = Number(Digits(g))
    BY <1>2, <2>5, <2>6, <2>7
  <2>9. Off(h1, t) \in Nat /\ Got(h1, h2)' = Got(h1, h2) + HdrLen
    <3>1. PLen(h1) \in Nat
      BY Sizes
    <3> QED BY <1>1, <2>2, <2>8, <3>1 DEF Off, Got, GotAt
  <2>10. Follows(h1, h2)'
    BY <1>1, <1>3, <2>1, <2>8, <2>9, Moves
  <2> QED BY <2>8, <2>10
<1>9. RelayInv'
  BY <1>1, <1>8 DEF RelayInv, SpliceFails
<1>10. ASSUME sender = "probe", Keyed(first) \notin Headers PROVE spc' = "sleep" /\ fwd = <<>>
  <2>1. first \in Header /\ fwd = <<>> /\ \A i \in 1..Len(Rest) : i <= HdrLen => Rest[i] = H(first[i])
    BY <1>1, <1>10 DEF ProbeInv
  <2>2. \A i \in 1..HdrLen : Rest[i] = H(first[i])
    BY <1>3, <2>1
  <2>3. h = first
    BY <1>1, <1>3, <2>1, <2>2, OneReading
  <2>4. Keyed(first) \in Header
    BY <2>1, KeyedTwice
  <2>5. IsProbe(Digits(Keyed(first)))
    BY <1>5, <1>10, <2>3, <2>4, WrittenDigits, FoundMade
  <2> QED BY <1>2, <2>1, <2>3, <2>5
<1>11. ProbeInv'
  BY <1>1, <1>10 DEF ProbeInv
<1> QED BY <1>7, <1>9, <1>11 DEF IInv

\* The sleep ends.
LEMMA DropProbeStep == ASSUME IInv, DropProbe PROVE IInv'
<1>1. /\ CtlInv /\ RelayInv /\ ProbeInv /\ spc = "sleep" /\ spc' = "ended"
      /\ UNCHANGED <<sender, path, buffered, first, tries, cpc, todo, staged, wire, sent, left, fwd>>
  BY DEF IInv, DropProbe, config, client
<1>2. CtlInv'
  BY <1>1 DEF CtlInv, SpliceFails
<1>3. RelayInv'
  BY <1>1 DEF RelayInv
<1>4. ProbeInv'
  BY <1>1 DEF ProbeInv
<1> QED BY <1>2, <1>3, <1>4 DEF IInv

\* The garbage that is read is that of the prefix, to its last byte.
LEMMA ReadGarbageStep == ASSUME IInv, ReadGarbage PROVE IInv'
<1>1. /\ CtlInv /\ RelayInv /\ ProbeInv /\ spc = "garbage" /\ Len(wire) >= left
      /\ wire' = After(wire, left) /\ spc' = "relay" /\ left' = 0 /\ left \in Nat
      /\ UNCHANGED <<sender, path, buffered, first, tries, cpc, todo, staged, sent, fwd>>
  BY DEF IInv, CtlInv, ReadGarbage, Garbage, config, client, After
<1>2. left \in 0..Len(wire) /\ fwd = <<>>
  BY <1>1, RestType DEF CtlInv
<1>3. wire' \in Seq(Byte)
  BY <1>1, <1>2, Reads
<1>4. CtlInv'
  BY <1>1, <1>2, <1>3 DEF CtlInv, SpliceFails
<1>5. ASSUME sender = "relay" PROVE \E h1, h2 \in Headers : Follows(h1, h2)'
  <2>1. PICK h1 \in Headers, h2 \in Headers : Follows(h1, h2)
    BY <1>1, <1>5 DEF RelayInv
  <2> DEFINE t == tries["server"]
             g == Hdr(h1, h2, t)
  <2>2. g \in Headers /\ Off(h1, t) \in Nat
    BY Sizes DEF Hdr, Off
  <2>3. left = Number(Digits(g)) /\ PLen(g) = HdrLen + left /\ HdrLen \in Nat /\ Len(fwd) = 0
    BY <1>1, <1>2, <2>1, <2>2, Sizes DEF Follows
  <2>4. Got(h1, h2) = Off(h1, t) + HdrLen /\ Got(h1, h2)' = Off(h1, t) + PLen(g) + Len(fwd)
    BY <1>1 DEF Got, GotAt
  <2>5. Got(h1, h2)' = Got(h1, h2) + left
    BY <1>1, <2>2, <2>3, <2>4
  <2>6. Follows(h1, h2)'
    BY <1>1, <1>2, <2>1, <2>5, Moves
  <2> QED BY <2>6
<1>6. RelayInv'
  BY <1>1, <1>5 DEF RelayInv, SpliceFails
<1>7. ProbeInv'
  BY <1>1 DEF ProbeInv
<1> QED BY <1>4, <1>6, <1>7 DEF IInv

\* The stream ends in the prefix.
LEMMA PrefixEofStep == ASSUME IInv, PrefixEof PROVE IInv'
<1>1. /\ CtlInv /\ RelayInv /\ ProbeInv /\ cpc = "ended" /\ spc \in {"header", "garbage"}
      /\ spc' = "ended" /\ left' = 0 /\ wire' = <<>>
      /\ UNCHANGED <<sender, path, buffered, first, tries, cpc, todo, staged, sent, fwd>>
  BY DEF IInv, PrefixEof, config, client
<1>2. CtlInv'
  BY <1>1 DEF CtlInv, SpliceFails
<1>3. RelayInv'
  BY <1>1 DEF RelayInv, SpliceFails
<1>4. ProbeInv'
  BY <1>1 DEF ProbeInv
<1> QED BY <1>2, <1>3, <1>4 DEF IInv

\* What is forwarded is the next byte of the payload.
LEMMA ForwardStep == ASSUME IInv, Forward PROVE IInv'
<1> DEFINE x == Mask("server", Head(wire))
<1>1. /\ CtlInv /\ RelayInv /\ ProbeInv /\ spc = "relay" /\ wire # <<>> /\ ~SpliceFails("server")
      /\ fwd' = Append(fwd, x)
      /\ UNCHANGED <<sender, path, buffered, first, tries, cpc, todo, staged, sent, spc, left>>
  BY DEF IInv, Forward, config, client
<1>2. wire \in Seq(Byte) /\ fwd \in Seq(Byte) /\ wire' = Tail(wire)
  BY <1>1 DEF CtlInv, Forward
<1>3. 1 \in 0..Len(wire) /\ 1 \in 1..Len(wire) /\ wire' = After(wire, 1) /\ Head(wire) = wire[1]
  <2>1. Len(wire) \in Nat /\ Len(wire) # 0
    BY <1>1, <1>2
  <2>2. Tail(wire) = SubSeq(wire, 1 + 1, Len(wire))
    BY <1>1, <1>2
  <2> QED BY <1>1, <1>2, <2>1, <2>2 DEF After
<1>4. Head(wire) \in Byte
  BY <1>2, <1>3, ElementOfSeq
<1>5. x \in Byte
  BY <1>4, MaskType
<1>6. wire' \in Seq(Byte)
  BY <1>1, <1>3, Reads
<1> HIDE DEF x
<1>7. /\ fwd' \in Seq(Byte) /\ Len(fwd) \in Nat /\ Len(fwd') = Len(fwd) + 1 /\ fwd' # <<>>
      /\ fwd'[Len(fwd) + 1] = x /\ \A k \in 1..Len(fwd) : fwd'[k] = fwd[k]
  BY <1>1, <1>2, <1>5
<1>8. CtlInv'
  BY <1>1, <1>6, <1>7 DEF CtlInv, SpliceFails
<1>9. ASSUME sender = "relay"
      PROVE  x = P(Len(fwd) + 1) /\ \E h1, h2 \in Headers : Follows(h1, h2)'
  <2>1. PICK h1 \in Headers, h2 \in Headers : Follows(h1, h2)
    BY <1>1, <1>9 DEF RelayInv
  <2> DEFINE o == Off(h1, tries["server"]) + PLen(Hdr(h1, h2, tries["server"]))
  <2>2. o \in Nat
    <3>1. PLen(h1) \in Nat /\ PLen(h2) \in Nat
      BY Sizes
    <3> QED BY <3>1 DEF Off, Hdr
  <2>3. Got(h1, h2) = o + Len(fwd) /\ Got(h1, h2)' = o + Len(fwd')
    BY <1>1 DEF Got, GotAt
  <2>4. StreamAt(h1, h2, path, o + Len(fwd) + 1) = PayAt(path, Len(fwd) + 1)
    BY <1>1, <1>7, BehindPrefix DEF Ends
  <2> HIDE DEF o
  <2>5. Got(h1, h2)' = Got(h1, h2) + 1
    BY <1>7, <2>2, <2>3
  <2>6. 1 \in 1..Len(Rest) /\ wire[1] = Rest[1]
    BY <1>1, <1>3, RestType
  <2>7. wire[1] = StreamAt(h1, h2, path, Got(h1, h2) + 1)
    BY <2>1, <2>6 DEF Follows
  <2>8. Head(wire) = PayAt(path, Len(fwd) + 1)
    BY <1>3, <2>3, <2>4, <2>7
  <2>9. x = P(Len(fwd) + 1)
    BY <1>1, <1>7, <2>8, Masked DEF x, Ends
  <2>10. Follows(h1, h2)'
    BY <1>1, <1>3, <2>1, <2>5, Moves
  <2> QED BY <2>9, <2>10
<1>10. ASSUME sender = "relay", NEW k \in 1..Len(fwd') PROVE fwd'[k] = P(k)
  <2>1. CASE k \in 1..Len(fwd)
    BY <1>1, <1>7, <1>10, <2>1 DEF RelayInv
  <2>2. CASE k \notin 1..Len(fwd)
    <3>1. k = Len(fwd) + 1
      BY <1>7, <2>2
    <3> QED BY <1>7, <1>9, <1>10, <3>1
  <2> QED BY <2>1, <2>2
<1>11. RelayInv'
  BY <1>1, <1>9, <1>10 DEF RelayInv, SpliceFails
<1>12. ProbeInv'
  BY <1>1 DEF ProbeInv
<1> QED BY <1>8, <1>11, <1>12 DEF IInv

\* The server starts over: it has forwarded nothing.
LEMMA ServerFallbackStep == ASSUME IInv, ServerFallback PROVE IInv'
<1>1. /\ CtlInv /\ RelayInv /\ ProbeInv /\ spc = "relay" /\ SpliceFails("server")
      /\ tries' = [tries EXCEPT !["server"] = 2] /\ spc' = "header" /\ fwd = <<>>
      /\ UNCHANGED <<sender, path, buffered, first, cpc, todo, staged, wire, sent, left, fwd>>
  BY DEF IInv, CtlInv, ServerFallback, config, client
<1>2. /\ tries["server"] = 1 /\ tries'["server"] = 2 /\ tries'["client"] = tries["client"]
      /\ path = "fallback" /\ tries' \in [Ends -> 1..2]
  BY <1>1 DEF CtlInv, Ends, SpliceFails
<1>3. CtlInv'
  BY <1>1, <1>2 DEF CtlInv, SpliceFails
<1>4. Rest' = Rest /\ Len(fwd) = 0
  BY <1>1 DEF Rest
<1>5. ASSUME sender = "relay" PROVE \E h1, h2 \in Headers : Follows(h1, h2)'
  <2>1. PICK h1 \in Headers, h2 \in Headers : Follows(h1, h2)
    BY <1>1, <1>5 DEF RelayInv
  <2>2. PLen(h1) \in Nat
    BY Sizes
  <2>3. Made(h1, h2)' = Made(h1, h2)
    BY <1>1, <1>2 DEF Made
  <2>4. Got(h1, h2) = PLen(h1) /\ Got(h1, h2)' = PLen(h1)
    BY <1>1, <1>2, <1>4, <2>2 DEF Got, GotAt, Off, Hdr
  <2>5. Follows(h1, h2)'
    BY <1>1, <1>4, <2>1, <2>3, <2>4 DEF Follows
  <2> QED BY <2>5
<1>6. RelayInv'
  BY <1>1, <1>2, <1>5 DEF RelayInv, SpliceFails
<1>7. ProbeInv'
  BY <1>1 DEF ProbeInv
<1> QED BY <1>3, <1>6, <1>7 DEF IInv

\* The relay ends.
LEMMA RelayEofStep == ASSUME IInv, RelayEof PROVE IInv'
<1>1. /\ CtlInv /\ RelayInv /\ ProbeInv /\ spc = "relay" /\ cpc = "ended" /\ spc' = "ended"
      /\ UNCHANGED <<sender, path, buffered, first, tries, cpc, todo, staged, wire, sent, left, fwd>>
  BY DEF IInv, RelayEof, config, client
<1>2. CtlInv'
  BY <1>1 DEF CtlInv, SpliceFails
<1>3. RelayInv'
  BY <1>1 DEF RelayInv, SpliceFails
<1>4. ProbeInv'
  BY <1>1 DEF ProbeInv
<1> QED BY <1>2, <1>3, <1>4 DEF IInv

LEMMA StutterStep == ASSUME IInv, UNCHANGED vars PROVE IInv'
<1>1. CtlInv /\ RelayInv /\ ProbeInv
  BY DEF IInv
<1>2. UNCHANGED <<sender, path, buffered, first, tries, cpc, todo, staged, wire, sent, spc, left, fwd>>
  BY DEF vars
<1>3. CtlInv'
  BY <1>1, <1>2 DEF CtlInv, SpliceFails
<1>4. \A h1, h2 \in Headers : Follows(h1, h2)' <=> Follows(h1, h2)
  BY <1>2 DEF Follows, Rest, Got, Made
<1>5. RelayInv'
  BY <1>1, <1>2, <1>4 DEF RelayInv, SpliceFails
<1>6. ProbeInv'
  BY <1>1, <1>2 DEF ProbeInv, Rest
<1> QED BY <1>3, <1>5, <1>6 DEF IInv

\* Every step keeps the invariant.
LEMMA NextInv == ASSUME IInv, [Next]_vars PROVE IInv'
<1>1. CASE Client
  BY <1>1, GenerateStep, WritePrefixStep, FlushStep DEF Client
<1>2. CASE ClientFallback \/ RelayPayload \/ Spill \/ ClientEnds
  BY <1>2, ClientFallbackStep, RelayPayloadStep, SpillStep, ClientEndsStep
<1>3. CASE Server
  BY <1>3, ReadHeaderStep, DropProbeStep, ReadGarbageStep, PrefixEofStep, ForwardStep, RelayEofStep
     DEF Server
<1>4. CASE ServerFallback
  BY <1>4, ServerFallbackStep
<1>5. CASE UNCHANGED vars
  BY <1>5, StutterStep
<1> QED BY <1>1, <1>2, <1>3, <1>4, <1>5 DEF Next

-----------------------------------------------------------------------------
(* Results                                                                 *)

\* consume_dynamic_obfs removes the prefix of every try to its last byte: what
\* the server forwards is the client's payload, in order and unmasked, from its
\* first byte on, for headers and payloads of any length, whatever splice does
\* and wherever the stream is cut.
THEOREM PrefixRemoved == Spec => []PayloadAligned
<1>1. Init => IInv
  BY InitInv
<1>2. IInv /\ [Next]_vars => IInv'
  BY NextInv
<1>3. IInv => PayloadAligned
  BY DEF IInv, RelayInv, PayloadAligned
<1> QED BY <1>1, <1>2, <1>3, PTL DEF Spec

\* The header that generate_dynamic_obfs writes is never taken for a probe's,
\* and of a sender that is not a relay nothing is forwarded unless its first
\* bytes are a header that generate_dynamic_obfs could have written.
THEOREM PrefixesOnly == Spec => []AcceptsPrefixesOnly
<1>1. Init => IInv
  BY InitInv
<1>2. IInv /\ [Next]_vars => IInv'
  BY NextInv
<1>3. IInv => AcceptsPrefixesOnly
  BY DEF IInv, RelayInv, ProbeInv, AcceptsPrefixesOnly
<1> QED BY <1>1, <1>2, <1>3, PTL DEF Spec

=============================================================================
