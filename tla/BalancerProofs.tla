--------------------------- MODULE BalancerProofs ---------------------------
(***************************************************************************)
(* The balancer for any number of weights and remotes, any hash function   *)
(* and any number of calls: tokens name remotes, and the round robin gives *)
(* every remote its share.                                                 *)
(***************************************************************************)
EXTENDS Balancer, FiniteSetTheorems, SequenceTheorems, WellFoundedInduction, TLAPS

-----------------------------------------------------------------------------
(* Induction                                                               *)

\* A set of naturals has a least element.
LEMMA LeastNat ==
    ASSUME NEW T \in SUBSET Nat, T # {}
    PROVE  \E n \in T : \A m \in T : n <= m
<1> DEFINE R == OpToRel(<, Nat)
<1>1. IsWellFoundedOn(R, Nat)
  BY NatLessThanWellFounded
<1>2. \A x, y \in Nat : x < y => <<x, y>> \in R
  BY DEF OpToRel
<1> HIDE DEF R
<1>3. PICK n \in T : \A m \in T : ~(<<m, n>> \in R)
  BY <1>1, WFMin, Zenon
<1>4. \A m \in T : ~(m < n)
  BY <1>2, <1>3, Zenon
<1>5. \A m \in T : n <= m
  BY <1>4
<1> QED BY <1>5

\* A set that holds 0 and, with a number up to n, the next one, holds 0..n.
LEMMA UpTo ==
    ASSUME NEW n \in Nat, NEW S, 0 \in S, \A i \in 0..n - 1 : i \in S => i + 1 \in S
    PROVE  0..n \subseteq S
<1> SUFFICES ASSUME 0..n \ S # {} PROVE FALSE
  OBVIOUS
<1> DEFINE T == 0..n \ S
<1>1. T \in SUBSET Nat /\ T # {}
  OBVIOUS
<1>2. PICK i \in T : \A m \in T : i <= m
  <2> HIDE DEF T
  <2> QED BY <1>1, LeastNat
<1>3. i \in 0..n /\ i # 0 /\ i \notin S
  OBVIOUS
<1>4. i - 1 \in 0..n - 1 /\ i - 1 \notin T /\ (i - 1) + 1 = i
  BY <1>2, <1>3
<1> QED BY <1>3, <1>4

\* s is computed step by step from v: a step is a function of the index and of
\* the value so far.
Steps(s, v, n, step) == s[0] = v /\ \A i \in 0..n - 1 : s[i + 1] = step[i][s[i]]

\* What is computed step by step exists.
LEMMA RecExists ==
    ASSUME NEW V, NEW v \in V, NEW n \in Nat, NEW step \in [0..n - 1 -> [V -> V]]
    PROVE  \E s \in [0..n -> V] : Steps(s, v, n, step)
<1> DEFINE P(s, m) == Steps(s, v, m, step)
           S == {m \in 0..n : \E s \in [0..m -> V] : P(s, m)}
<1>1. 0 \in S
  <2>1. P([k \in 0..0 |-> v], 0)
    BY DEF Steps
  <2>2. [k \in 0..0 |-> v] \in [0..0 -> V] /\ 0 \in 0..n
    OBVIOUS
  <2> QED BY <2>1, <2>2
<1>2. ASSUME NEW m \in 0..n - 1, m \in S PROVE m + 1 \in S
  <2>1. PICK s \in [0..m -> V] : P(s, m)
    BY <1>2
  <2>2. s[m] \in V /\ step[m][s[m]] \in V
    OBVIOUS
  <2> DEFINE t == [k \in 0..m + 1 |-> IF k <= m THEN s[k] ELSE step[m][s[m]]]
  <2>3. t \in [0..m + 1 -> V] /\ t[0] = v
    BY <2>1, <2>2 DEF Steps
  <2>4. ASSUME NEW k \in 0..m PROVE t[k + 1] = step[k][t[k]]
    <3>1. CASE k < m
      <4>1. k \in 0..m - 1 /\ k + 1 <= m /\ k + 1 \in 0..m + 1 /\ k \in 0..m + 1
        BY <3>1
      <4>2. t[k + 1] = s[k + 1] /\ t[k] = s[k]
        BY <4>1
      <4> QED BY <2>1, <4>1, <4>2 DEF Steps
    <3>2. CASE k = m
      <4>1. t[m] = s[m] /\ t[m + 1] = step[m][s[m]]
        OBVIOUS
      <4> QED BY <3>2, <4>1
    <3> QED BY <3>1, <3>2
  <2> HIDE DEF t
  <2>5. P(t, m + 1) /\ m + 1 \in 0..n
    BY <2>3, <2>4 DEF Steps
  <2> HIDE DEF P
  <2> QED BY <2>3, <2>5
<1> HIDE DEF S
<1>3. 0..n \subseteq S
  BY <1>1, <1>2, UpTo
<1>4. n \in S
  BY <1>3
<1> QED BY <1>4 DEF S

-----------------------------------------------------------------------------
(* Sums                                                                    *)

\* Vectors of n numbers, and what is done with them element by element.
Vec(n) == [0..n - 1 -> Int]
Plus(f, g, n) == [i \in 0..n - 1 |-> f[i] + g[i]]
Mul(f, g, n) == [i \in 0..n - 1 |-> f[i] * g[i]]
Times(f, c, n) == [i \in 0..n - 1 |-> f[i] * c]
Bump(f, p, d, n) == [i \in 0..n - 1 |-> IF i = p THEN f[i] + d ELSE f[i]]
Const(c, n) == [i \in 0..n - 1 |-> c]
Leq(f, g, n) == \A i \in 0..n - 1 : f[i] <= g[i]

\* s adds up f, one element after the other.
Adds(s, f, n) ==
    /\ s \in [0..n -> Int]
    /\ s[0] = 0
    /\ \A i \in 0..n - 1 : s[i + 1] = s[i] + f[i]

\* There is such an s.
LEMMA AddsExists ==
    ASSUME NEW n \in Nat, NEW f \in Vec(n)
    PROVE  \E s \in [0..n -> Int] : Adds(s, f, n)
<1> DEFINE step == [i \in 0..n - 1 |-> [v \in Int |-> v + f[i]]]
<1>1. step \in [0..n - 1 -> [Int -> Int]]
  BY DEF Vec
<1>2. \A i \in 0..n - 1, v \in Int : step[i][v] = v + f[i]
  OBVIOUS
<1> HIDE DEF step
<1>3. PICK s \in [0..n -> Int] : Steps(s, 0, n, step)
  <2> DEFINE V == Int
  <2>1. 0 \in V /\ step \in [0..n - 1 -> [V -> V]]
    BY <1>1
  <2> HIDE DEF V
  <2>2. \E s \in [0..n -> V] : Steps(s, 0, n, step)
    BY <2>1, RecExists
  <2> QED BY <2>2 DEF V
<1>4. \A i \in 0..n - 1 : s[i] \in Int
  OBVIOUS
<1>5. s[0] = 0 /\ \A i \in 0..n - 1 : s[i + 1] = step[i][s[i]]
  BY <1>3 DEF Steps
<1>6. \A i \in 0..n - 1 : s[i + 1] = s[i] + f[i]
  BY <1>2, <1>4, <1>5
<1>7. Adds(s, f, n)
  BY <1>3, <1>5, <1>6 DEF Adds
<1> QED BY <1>7

\* What Sum computes.
LEMMA SumAdds ==
    ASSUME NEW n \in Nat, NEW f \in Vec(n)
    PROVE  \E s \in [0..n -> Int] : Adds(s, f, n) /\ Sum(f, n) = s[n]
<1> DEFINE P(s) == s = [i \in 0..n |-> IF i = 0 THEN 0 ELSE s[i - 1] + f[i - 1]]
           c == CHOOSE s : P(s)
<1>1. PICK s \in [0..n -> Int] : Adds(s, f, n)
  BY AddsExists
<1>2. P(s)
  <2>1. ASSUME NEW i \in 0..n PROVE s[i] = IF i = 0 THEN 0 ELSE s[i - 1] + f[i - 1]
    <3>1. CASE i = 0
      BY <1>1, <3>1 DEF Adds
    <3>2. CASE i # 0
      <4>1. i - 1 \in 0..n - 1 /\ (i - 1) + 1 = i
        BY <3>2
      <4> QED BY <1>1, <3>2, <4>1 DEF Adds
    <3> QED BY <3>1, <3>2
  <2> QED BY <2>1
<1>3. P(c)
  BY <1>2
<1>4. Sum(f, n) = c[n]
  BY DEF Sum
<1> HIDE DEF c
<1>5. DOMAIN c = 0..n /\ c[0] = 0 /\ \A i \in 0..n - 1 : c[i + 1] = c[i] + f[i]
  <2>1. DOMAIN c = 0..n /\ c[0] = 0
    BY <1>3
  <2>2. ASSUME NEW i \in 0..n - 1 PROVE c[i + 1] = c[i] + f[i]
    <3>1. i + 1 \in 0..n /\ i + 1 # 0 /\ (i + 1) - 1 = i
      OBVIOUS
    <3> QED BY <1>3, <3>1
  <2> QED BY <2>1, <2>2
<1>6. \A i \in 0..n : c[i] \in Int
  <2> DEFINE S == {i \in 0..n : c[i] \in Int}
  <2>1. 0 \in S
    BY <1>5
  <2>2. ASSUME NEW i \in 0..n - 1, i \in S PROVE i + 1 \in S
    BY <1>5, <2>2 DEF Vec
  <2> HIDE DEF S
  <2>3. 0..n \subseteq S
    BY <2>1, <2>2, UpTo
  <2> QED BY <2>3 DEF S
<1>7. c \in [0..n -> Int]
  <2>1. c = [i \in 0..n |-> c[i]]
    BY <1>3
  <2> QED BY <1>6, <2>1
<1>8. Adds(c, f, n)
  BY <1>5, <1>7 DEF Adds
<1> QED BY <1>4, <1>7, <1>8

\* A sum is what any way of adding up yields.
LEMMA SumAt ==
    ASSUME NEW n \in Nat, NEW f \in Vec(n), NEW t, Adds(t, f, n)
    PROVE  Sum(f, n) = t[n] /\ Sum(f, n) \in Int
<1>1. PICK s \in [0..n -> Int] : Adds(s, f, n) /\ Sum(f, n) = s[n]
  BY SumAdds
<1> DEFINE S == {i \in 0..n : s[i] = t[i]}
<1>2. 0 \in S
  BY <1>1 DEF Adds
<1>3. ASSUME NEW i \in 0..n - 1, i \in S PROVE i + 1 \in S
  BY <1>1, <1>3 DEF Adds
<1> HIDE DEF S
<1>4. 0..n \subseteq S
  BY <1>2, <1>3, UpTo
<1>5. s[n] = t[n]
  BY <1>4 DEF S
<1> QED BY <1>1, <1>5

\* A sum is a number.
LEMMA SumInt ==
    ASSUME NEW n \in Nat, NEW f \in Vec(n)
    PROVE  Sum(f, n) \in Int
<1>1. PICK s \in [0..n -> Int] : Adds(s, f, n) /\ Sum(f, n) = s[n]
  BY SumAdds
<1> QED BY <1>1

\* Sums add up.
LEMMA SumPlus ==
    ASSUME NEW n \in Nat, NEW f \in Vec(n), NEW g \in Vec(n)
    PROVE  Plus(f, g, n) \in Vec(n) /\ Sum(Plus(f, g, n), n) = Sum(f, n) + Sum(g, n)
<1> DEFINE h == Plus(f, g, n)
<1>0. h \in Vec(n) /\ \A i \in 0..n - 1 : h[i] = f[i] + g[i] /\ f[i] \in Int /\ g[i] \in Int
  BY DEF Plus, Vec
<1> SUFFICES Sum(h, n) = Sum(f, n) + Sum(g, n)
  BY <1>0
<1> HIDE DEF h
<1>1. PICK s \in [0..n -> Int] : Adds(s, f, n) /\ Sum(f, n) = s[n]
  BY SumAdds
<1>2. PICK t \in [0..n -> Int] : Adds(t, g, n) /\ Sum(g, n) = t[n]
  BY SumAdds
<1> DEFINE u == [i \in 0..n |-> s[i] + t[i]]
<1>3. u \in [0..n -> Int] /\ u[0] = 0 /\ u[n] = s[n] + t[n]
  BY <1>1, <1>2 DEF Adds
<1>4. ASSUME NEW i \in 0..n - 1 PROVE u[i + 1] = u[i] + h[i]
  <2>1. s[i + 1] = s[i] + f[i] /\ t[i + 1] = t[i] + g[i] /\ h[i] = f[i] + g[i]
    BY <1>0, <1>1, <1>2 DEF Adds
  <2>2. i \in 0..n /\ i + 1 \in 0..n
    OBVIOUS
  <2>3. u[i + 1] = s[i + 1] + t[i + 1] /\ u[i] = s[i] + t[i]
    BY <2>2
  <2>4. s[i] \in Int /\ t[i] \in Int /\ f[i] \in Int /\ g[i] \in Int
    BY <1>0, <2>2
  <2> HIDE DEF u
  <2>5. (s[i] + f[i]) + (t[i] + g[i]) = (s[i] + t[i]) + (f[i] + g[i])
    BY <2>4
  <2> QED BY <2>1, <2>3, <2>5
<1> HIDE DEF u
<1>5. Adds(u, h, n)
  BY <1>3, <1>4 DEF Adds
<1> QED BY <1>0, <1>1, <1>2, <1>3, <1>5, SumAt

\* A common factor.
LEMMA SumTimes ==
    ASSUME NEW n \in Nat, NEW f \in Vec(n), NEW c \in Int
    PROVE  Times(f, c, n) \in Vec(n) /\ Sum(Times(f, c, n), n) = Sum(f, n) * c
<1> DEFINE h == Times(f, c, n)
<1>0. h \in Vec(n) /\ \A i \in 0..n - 1 : h[i] = f[i] * c /\ f[i] \in Int
  BY DEF Times, Vec
<1> SUFFICES Sum(h, n) = Sum(f, n) * c
  BY <1>0
<1> HIDE DEF h
<1>1. PICK s \in [0..n -> Int] : Adds(s, f, n) /\ Sum(f, n) = s[n]
  BY SumAdds
<1> DEFINE u == [i \in 0..n |-> s[i] * c]
<1>2. u \in [0..n -> Int] /\ u[0] = 0 /\ u[n] = s[n] * c
  BY <1>1 DEF Adds
<1>3. ASSUME NEW i \in 0..n - 1 PROVE u[i + 1] = u[i] + h[i]
  <2>1. s[i + 1] = s[i] + f[i] /\ h[i] = f[i] * c
    BY <1>0, <1>1 DEF Adds
  <2>2. i \in 0..n /\ i + 1 \in 0..n
    OBVIOUS
  <2>3. u[i + 1] = s[i + 1] * c /\ u[i] = s[i] * c
    BY <2>2
  <2>4. s[i] \in Int /\ f[i] \in Int
    BY <1>0, <2>2
  <2> HIDE DEF u
  <2>5. \A x, y \in Int : (x + y) * c = x * c + y * c
    OBVIOUS
  <2> QED BY <2>1, <2>3, <2>4, <2>5
<1> HIDE DEF u
<1>4. Adds(u, h, n)
  BY <1>2, <1>3 DEF Adds
<1> QED BY <1>0, <1>1, <1>2, <1>4, SumAt

\* One element more or less.
LEMMA SumBump ==
    ASSUME NEW n \in Nat, NEW f \in Vec(n), NEW p \in 0..n - 1, NEW d \in Int
    PROVE  Bump(f, p, d, n) \in Vec(n) /\ Sum(Bump(f, p, d, n), n) = Sum(f, n) + d
<1> DEFINE h == Bump(f, p, d, n)
<1>0. h \in Vec(n) /\ \A i \in 0..n - 1 : /\ h[i] = IF i = p THEN f[i] + d ELSE f[i]
                                         /\ f[i] \in Int
  BY DEF Bump, Vec
<1> SUFFICES Sum(h, n) = Sum(f, n) + d
  BY <1>0
<1> HIDE DEF h
<1>1. PICK s \in [0..n -> Int] : Adds(s, f, n) /\ Sum(f, n) = s[n]
  BY SumAdds
<1> DEFINE u == [i \in 0..n |-> IF p < i THEN s[i] + d ELSE s[i]]
<1>2. u \in [0..n -> Int] /\ u[0] = 0 /\ u[n] = s[n] + d
  BY <1>1 DEF Adds
<1>3. ASSUME NEW i \in 0..n - 1 PROVE u[i + 1] = u[i] + h[i]
  <2>1. s[i + 1] = s[i] + f[i]
    BY <1>1 DEF Adds
  <2>2. i \in 0..n /\ i + 1 \in 0..n
    OBVIOUS
  <2>3. /\ u[i + 1] = IF p < i + 1 THEN s[i + 1] + d ELSE s[i + 1]
        /\ u[i] = IF p < i THEN s[i] + d ELSE s[i]
    BY <2>2
  <2>4. s[i] \in Int /\ f[i] \in Int /\ h[i] = IF i = p THEN f[i] + d ELSE f[i]
    BY <1>0, <2>2
  <2> HIDE DEF u
  <2> QED BY <2>1, <2>3, <2>4
<1> HIDE DEF u
<1>4. Adds(u, h, n)
  BY <1>2, <1>3 DEF Adds
<1> QED BY <1>0, <1>1, <1>2, <1>4, SumAt

\* Larger elements, larger sum.
LEMMA SumLeq ==
    ASSUME NEW n \in Nat, NEW f \in Vec(n), NEW g \in Vec(n), Leq(f, g, n)
    PROVE  Sum(f, n) <= Sum(g, n)
<1>0. \A i \in 0..n - 1 : f[i] <= g[i] /\ f[i] \in Int /\ g[i] \in Int
  BY DEF Leq, Vec
<1>1. PICK s \in [0..n -> Int] : Adds(s, f, n) /\ Sum(f, n) = s[n]
  BY SumAdds
<1>2. PICK t \in [0..n -> Int] : Adds(t, g, n) /\ Sum(g, n) = t[n]
  BY SumAdds
<1> DEFINE S == {i \in 0..n : s[i] <= t[i]}
<1>3. 0 \in S
  BY <1>1, <1>2 DEF Adds
<1>4. ASSUME NEW i \in 0..n - 1, i \in S PROVE i + 1 \in S
  <2>1. s[i + 1] = s[i] + f[i] /\ t[i + 1] = t[i] + g[i] /\ f[i] <= g[i] /\ s[i] <= t[i]
    BY <1>0, <1>1, <1>2, <1>4 DEF Adds
  <2>2. s[i] \in Int /\ t[i] \in Int /\ f[i] \in Int /\ g[i] \in Int /\ i + 1 \in 0..n
    BY <1>0
  <2> QED BY <2>1, <2>2
<1> HIDE DEF S
<1>5. 0..n \subseteq S
  BY <1>3, <1>4, UpTo
<1>6. s[n] <= t[n]
  BY <1>5 DEF S
<1> QED BY <1>1, <1>2, <1>6

\* A constant sums up to a product.
LEMMA SumConst ==
    ASSUME NEW n \in Nat, NEW c \in Int
    PROVE  Const(c, n) \in Vec(n) /\ Sum(Const(c, n), n) = n * c
<1> DEFINE f == Const(c, n)
           u == [i \in 0..n |-> i * c]
<1>0. f \in Vec(n) /\ \A i \in 0..n - 1 : f[i] = c
  BY DEF Const, Vec
<1> SUFFICES Sum(f, n) = n * c
  BY <1>0
<1> HIDE DEF f
<1>1. u \in [0..n -> Int] /\ u[0] = 0 /\ u[n] = n * c
  OBVIOUS
<1>2. ASSUME NEW i \in 0..n - 1 PROVE u[i + 1] = u[i] + f[i]
  <2>1. (i + 1) * c = i * c + c
    OBVIOUS
  <2> QED BY <1>0, <2>1
<1> HIDE DEF u
<1>3. Adds(u, f, n)
  BY <1>1, <1>2 DEF Adds
<1> QED BY <1>0, <1>1, <1>3, SumAt

\* A remainder of 0 leaves a whole number of rounds.
LEMMA Divides ==
    ASSUME NEW a \in Nat, NEW b \in Nat, b > 0, a % b = 0
    PROVE  \E j \in Int : a = b * j
<1>1. b \in Nat \ {0}
  OBVIOUS
<1>2. a \div b \in Int
  BY <1>1
<1>3. a = b * (a \div b)
  OBVIOUS
<1> DEFINE j == a \div b
<1>4. j \in Int /\ a = b * j
  BY <1>2, <1>3
<1> HIDE DEF j
<1> QED BY <1>4

\* Naturals that sum up to 0 are all 0.
LEMMA SumZero ==
    ASSUME NEW n \in Nat, NEW f \in Vec(n), Leq(Const(0, n), f, n), Sum(f, n) = 0,
           NEW p \in 0..n - 1
    PROVE  f[p] = 0
<1> DEFINE d == 0 - f[p]
           g == Bump(f, p, d, n)
<1>1. f[p] \in Int /\ d \in Int
  BY DEF Vec
<1>2. Leq(Const(0, n), g, n)
  BY DEF Leq, Const, Bump, Vec
<1> HIDE DEF d
<1>3. g \in Vec(n) /\ Sum(g, n) = Sum(f, n) + d
  BY <1>1, SumBump
<1> HIDE DEF g
<1>4. Const(0, n) \in Vec(n) /\ Sum(Const(0, n), n) = n * 0
  BY SumConst
<1>5. Sum(Const(0, n), n) <= Sum(g, n)
  BY <1>2, <1>3, <1>4, SumLeq
<1>6. 0 <= d
  BY <1>1, <1>3, <1>4, <1>5
<1>7. 0 <= f[p]
  BY DEF Leq, Const
<1> QED BY <1>1, <1>6, <1>7 DEF d

\* Elements of 0 behind the end change nothing.
LEMMA SumExtend ==
    ASSUME NEW n \in Nat, NEW m \in Nat, n <= m, NEW f \in Vec(n), NEW g \in Vec(m),
           \A i \in 0..m - 1 : g[i] = IF i < n THEN f[i] ELSE 0
    PROVE  Sum(g, m) = Sum(f, n)
<1>1. PICK s \in [0..n -> Int] : Adds(s, f, n) /\ Sum(f, n) = s[n]
  BY SumAdds
<1> DEFINE u == [i \in 0..m |-> IF i <= n THEN s[i] ELSE s[n]]
<1>2. u \in [0..m -> Int] /\ u[0] = 0 /\ u[m] = s[n]
  BY <1>1 DEF Adds
<1>3. ASSUME NEW i \in 0..m - 1 PROVE u[i + 1] = u[i] + g[i]
  <2>1. i \in 0..m /\ i + 1 \in 0..m
    OBVIOUS
  <2>2. /\ u[i] = IF i <= n THEN s[i] ELSE s[n]
        /\ u[i + 1] = IF i + 1 <= n THEN s[i + 1] ELSE s[n]
    BY <2>1
  <2>3. CASE i < n
    <3>1. s[i + 1] = s[i] + f[i] /\ g[i] = f[i] /\ i <= n /\ i + 1 <= n
      BY <1>1, <2>3 DEF Adds
    <3> HIDE DEF u
    <3> QED BY <2>2, <3>1
  <2>4. CASE ~(i < n)
    <3>1. g[i] = 0 /\ s[n] \in Int /\ ~(i + 1 <= n) /\ (i <= n => i = n)
      BY <2>4
    <3> HIDE DEF u
    <3> QED BY <2>2, <3>1
  <2> QED BY <2>3, <2>4
<1> HIDE DEF u
<1>4. Adds(u, g, m)
  BY <1>2, <1>3 DEF Adds
<1> QED BY <1>1, <1>2, <1>4, SumAt

\* Nothing wraps within the range of a current weight.
LEMMA WrapExact ==
    ASSUME NEW x \in Int, -Half <= x, x < Half
    PROVE  Wrap(x) = x
<1> DEFINE h == 2 * Half
           y == x + Half
<1>1. h \in Nat /\ h > 0 /\ y \in Int /\ 0 <= y /\ y < h
  BY HalfAssumption
<1> HIDE DEF h, y
<1>2. y % h = y
  BY <1>1
<1> QED BY <1>2, HalfAssumption DEF Wrap, h, y

\* A wrapped value is in range.
LEMMA WrapRange ==
    ASSUME NEW x \in Int
    PROVE  Wrap(x) \in -Half..Half - 1
<1> DEFINE h == 2 * Half
           y == x + Half
<1>1. h \in Nat /\ h > 0 /\ y \in Int
  BY HalfAssumption
<1> HIDE DEF h, y
<1>2. y % h \in 0..h - 1
  BY <1>1
<1> QED BY <1>2, HalfAssumption DEF Wrap, h, y

\* Division rounds down, but not below a whole number.
LEMMA DivBound ==
    ASSUME NEW d \in Nat \ {0}, NEW x \in Int, NEW y \in Int, d * x <= y
    PROVE  x <= y \div d
<1>1. y \div d \in Int /\ y < d * ((y \div d) + 1)
  OBVIOUS
<1> DEFINE q == y \div d
<1>2. q \in Int /\ d * x < d * (q + 1)
  BY <1>1
<1> HIDE DEF q
<1>3. x < q + 1
  BY <1>2
<1> QED BY <1>2, <1>3 DEF q

\* The average.
LEMMA Average ==
    ASSUME NEW k \in Nat, NEW x \in Int, NEW r \in Int, NEW m \in Int,
           x <= k * r, x + r <= m
    PROVE  x <= (k * m) \div (k + 1)
<1>1. (k + 1) * x = k * x + x
  OBVIOUS
<1>2. k * (x + r) = k * x + k * r
  OBVIOUS
<1>3. k * (x + r) <= k * m
  OBVIOUS
<1>4. k * m \in Int /\ k * x \in Int /\ k * r \in Int
  OBVIOUS
<1>5. (k + 1) * x <= k * m
  BY <1>1, <1>2, <1>3, <1>4
<1> QED BY <1>4, <1>5, DivBound

\* Some element is the first largest one.
LEMMA FirstLargest ==
    ASSUME NEW n \in Nat \ {0}, NEW b \in Int, NEW c \in [0..n - 1 -> Int],
           \A i \in 0..n - 1 : c[i] <= b
    PROVE  \E p \in 0..n - 1 : /\ \A q \in 0..n - 1 : c[q] <= c[p]
                               /\ \A q \in 0..n - 1 : q < p => c[q] < c[p]
<1> DEFINE T == {b - c[i] : i \in 0..n - 1}
<1>1. T \in SUBSET Nat /\ T # {}
  <2>1. 0 \in 0..n - 1
    OBVIOUS
  <2> QED BY <2>1
<1>2. PICK t \in T : \A m \in T : t <= m
  <2> HIDE DEF T
  <2> QED BY <1>1, LeastNat
<1>3. PICK k \in 0..n - 1 : t = b - c[k]
  OBVIOUS
<1>4. \A q \in 0..n - 1 : c[q] <= c[k]
  <2> TAKE q \in 0..n - 1
  <2>1. b - c[q] \in T
    OBVIOUS
  <2>2. b - c[k] <= b - c[q]
    BY <1>2, <1>3, <2>1
  <2>3. c[k] \in Int /\ c[q] \in Int
    OBVIOUS
  <2> QED BY <2>2, <2>3
<1> DEFINE U == {i \in 0..n - 1 : c[i] = c[k]}
<1>5. U \in SUBSET Nat /\ U # {}
  <2>1. k \in U
    OBVIOUS
  <2>2. U \subseteq 0..n - 1
    OBVIOUS
  <2>3. 0..n - 1 \subseteq Nat
    OBVIOUS
  <2> HIDE DEF U
  <2> QED BY <2>1, <2>2, <2>3, Zenon
<1>6. PICK p \in U : \A m \in U : p <= m
  <2> HIDE DEF U
  <2> QED BY <1>5, LeastNat
<1>7. ASSUME NEW q \in 0..n - 1, q < p PROVE c[q] < c[p]
  <2>1. q \notin U
    BY <1>6, <1>7
  <2>2. c[q] # c[k] /\ c[p] = c[k] /\ c[q] \in Int /\ c[k] \in Int
    BY <2>1
  <2> QED BY <1>4, <2>2
<1> QED BY <1>4, <1>7

-----------------------------------------------------------------------------
(* The weights                                                             *)

\* k keeps of e what parses, one entry after the other.
Keeps(k, e, n) ==
    /\ k \in [0..n -> Seq(0..MaxWeight)]
    /\ k[0] = <<>>
    /\ \A i \in 0..n - 1 :
           k[i + 1] = IF e[i + 1] = Junk THEN k[i] ELSE Append(k[i], e[i + 1])

Text == UNION {[1..n -> {Junk} \cup 0..MaxWeight] : n \in Nat \ {0}}

\* A balance string is a text.
LEMMA TextOf ==
    ASSUME entries \in Text
    PROVE  /\ Len(entries) \in Nat \ {0}
           /\ DOMAIN entries = 1..Len(entries)
           /\ \A i \in 1..Len(entries) : entries[i] \in {Junk} \cup 0..MaxWeight
BY DEF Text

\* What Parsed computes.
LEMMA ParsedKeeps ==
    ASSUME entries \in Text
    PROVE  \E k : Keeps(k, entries, Len(entries)) /\ Parsed = k[Len(entries)]
<1> DEFINE n == Len(entries)
           V == Seq(0..MaxWeight)
           step == [i \in 0..n - 1 |-> [v \in V |->
                       IF entries[i + 1] = Junk THEN v ELSE Append(v, entries[i + 1])]]
           P(k) == k = [i \in 0..n |-> IF i = 0 THEN <<>>
                                       ELSE IF entries[i] = Junk THEN k[i - 1]
                                       ELSE Append(k[i - 1], entries[i])]
           c == CHOOSE k : P(k)
<1>1. n \in Nat /\ <<>> \in V /\ \A i \in 0..n - 1 : entries[i + 1] \in {Junk} \cup 0..MaxWeight
  <2>1. \A i \in 0..n - 1 : i + 1 \in 1..n
    BY TextOf
  <2> QED BY <2>1, TextOf
<1>2. \A i \in 0..n - 1, v \in V :
          (IF entries[i + 1] = Junk THEN v ELSE Append(v, entries[i + 1])) \in V
  BY <1>1, AppendProperties
<1>3. step \in [0..n - 1 -> [V -> V]]
  BY <1>2
<1>4. \A i \in 0..n - 1, v \in V :
          step[i][v] = IF entries[i + 1] = Junk THEN v ELSE Append(v, entries[i + 1])
  OBVIOUS
<1>0. Parsed = c[n]
  BY DEF Parsed
<1> HIDE DEF n, V, step
<1>d. PICK s \in [0..n -> V] : Steps(s, <<>>, n, step)
  BY <1>1, <1>3, RecExists
<1>5. s[0] = <<>> /\ \A i \in 0..n - 1 : s[i + 1] = step[i][s[i]]
  BY <1>d DEF Steps
<1>6. P(s)
  <2>1. ASSUME NEW i \in 0..n
        PROVE  s[i] = IF i = 0 THEN <<>> ELSE IF entries[i] = Junk THEN s[i - 1]
                      ELSE Append(s[i - 1], entries[i])
    <3>1. CASE i = 0
      BY <1>5, <3>1
    <3>2. CASE i # 0
      <4>1. i - 1 \in 0..n - 1 /\ (i - 1) + 1 = i /\ s[i - 1] \in V
        BY <1>1, <3>2
      <4> QED BY <1>4, <1>5, <3>2, <4>1
    <3> QED BY <3>1, <3>2
  <2> QED BY <2>1
<1>7. P(c)
  BY <1>6
<1> HIDE DEF c
<1>8. ASSUME NEW i \in 0..n - 1
      PROVE  c[i + 1] = IF entries[i + 1] = Junk THEN c[i] ELSE Append(c[i], entries[i + 1])
  <2>1. i + 1 \in 0..n /\ i + 1 # 0 /\ (i + 1) - 1 = i
    BY <1>1
  <2> QED BY <1>7, <2>1
<1>9. c[0] = <<>> /\ DOMAIN c = 0..n
  BY <1>1, <1>7
<1>a. \A i \in 0..n : c[i] \in V
  <2> DEFINE S == {i \in 0..n : c[i] \in V}
  <2>1. 0 \in S
    BY <1>1, <1>9
  <2>2. ASSUME NEW i \in 0..n - 1, i \in S PROVE i + 1 \in S
    BY <1>1, <1>2, <1>8, <2>2
  <2> HIDE DEF S
  <2>3. 0..n \subseteq S
    BY <1>1, <2>1, <2>2, UpTo
  <2> QED BY <2>3 DEF S
<1>b. c \in [0..n -> V]
  <2>1. c = [i \in 0..n |-> c[i]]
    BY <1>7
  <2> QED BY <1>a, <2>1
<1>c. Keeps(c, entries, n)
  BY <1>8, <1>9, <1>b DEF Keeps, V
<1> QED BY <1>0, <1>c DEF n

\* Parsed is a sequence of weights, one for each entry that is one.
ParsedWell ==
    /\ Parsed \in Seq(0..MaxWeight)
    /\ IsFiniteSet(Written)
    /\ Len(Parsed) = Cardinality(Written)

LEMMA ParsedCounts == ASSUME entries \in Text PROVE ParsedWell
<1> DEFINE n == Len(entries)
           W(i) == {p \in 0..i - 1 : entries[p + 1] # Junk}
<1>1. PICK k : Keeps(k, entries, n) /\ Parsed = k[n]
  BY ParsedKeeps
<1>2. n \in Nat /\ \A i \in 0..n - 1 : entries[i + 1] \in {Junk} \cup 0..MaxWeight
  <2>1. \A i \in 0..n - 1 : i + 1 \in 1..n
    BY TextOf
  <2> QED BY <2>1, TextOf
<1> DEFINE S == {i \in 0..n : IsFiniteSet(W(i)) /\ Len(k[i]) = Cardinality(W(i))}
<1>3. W(n) = Written
  BY DEF Written
<1> HIDE DEF n
<1>4. 0 \in S
  <2>1. W(0) = {}
    OBVIOUS
  <2>2. Len(k[0]) = 0
    BY <1>1 DEF Keeps
  <2> HIDE DEF W
  <2> QED BY <1>2, <2>1, <2>2, FS_EmptySet
<1>5. ASSUME NEW i \in 0..n - 1, i \in S PROVE i + 1 \in S
  <2>1. k[i] \in Seq(0..MaxWeight) /\ i + 1 \in 0..n
    BY <1>1, <1>2 DEF Keeps
  <2>2. CASE entries[i + 1] = Junk
    <3>1. W(i + 1) = W(i)
      BY <1>2, <2>2
    <3>2. k[i + 1] = k[i]
      BY <1>1, <2>2 DEF Keeps
    <3> HIDE DEF W
    <3> QED BY <1>5, <2>1, <3>1, <3>2
  <2>3. CASE entries[i + 1] # Junk
    <3>1. W(i + 1) = W(i) \cup {i} /\ i \notin W(i)
      BY <1>2, <2>3
    <3>2. k[i + 1] = Append(k[i], entries[i + 1]) /\ entries[i + 1] \in 0..MaxWeight
      BY <1>1, <1>2, <2>3 DEF Keeps
    <3>3. Len(k[i + 1]) = Len(k[i]) + 1
      BY <2>1, <3>2, AppendProperties
    <3> HIDE DEF W
    <3>4. IsFiniteSet(W(i + 1)) /\ Cardinality(W(i + 1)) = Cardinality(W(i)) + 1
      BY <1>5, <3>1, FS_AddElement
    <3> QED BY <1>5, <2>1, <3>3, <3>4
  <2> QED BY <2>2, <2>3
<1> HIDE DEF S
<1>6. 0..n \subseteq S
  BY <1>2, <1>4, <1>5, UpTo
<1>7. n \in S
  BY <1>2, <1>6
<1>8. Parsed \in Seq(0..MaxWeight)
  BY <1>1, <1>2 DEF Keeps
<1> QED BY <1>1, <1>3, <1>7, <1>8 DEF S, ParsedWell

\* When junk comes last, the weights are the first entries.
ParsedFirst ==
    /\ Len(Parsed) <= Len(entries)
    /\ Written = 0..Len(Parsed) - 1
    /\ \A i \in 1..Len(Parsed) : Parsed[i] = entries[i]

LEMMA JunkLast == ASSUME entries \in Text, JunkIsLast PROVE ParsedFirst
<1> DEFINE n == Len(entries)
<1>1. PICK k : Keeps(k, entries, n) /\ Parsed = k[n]
  BY ParsedKeeps
<1>2. n \in Nat /\ \A i \in 0..n - 1 : entries[i + 1] \in {Junk} \cup 0..MaxWeight
  <2>1. \A i \in 0..n - 1 : i + 1 \in 1..n
    BY TextOf
  <2> QED BY <2>1, TextOf
<1>3. PICK w \in 0..n : Written = 0..w - 1
  <2> DEFINE T == {i \in 0..n : i \notin Written}
  <2>1. T \in SUBSET Nat /\ T # {}
    <3>1. n \in T
      BY <1>2 DEF Written
    <3> QED BY <3>1, <1>2
  <2>2. PICK w \in T : \A m \in T : w <= m
    <3> HIDE DEF T
    <3> QED BY <2>1, LeastNat
  <2>3. \A p \in 0..w - 1 : p \in Written
    BY <1>2, <2>2
  <2>4. \A p \in Written : p \in 0..w - 1
    <3> TAKE p \in Written
    <3>1. p \in 0..n - 1 /\ \A q \in 0..p : q \in Written
      BY DEF JunkIsLast, Written
    <3>2. w \in 0..n /\ w \notin Written
      OBVIOUS
    <3>3. ~(w <= p)
      BY <1>2, <3>1, <3>2
    <3> QED BY <1>2, <3>1, <3>2, <3>3
  <2> QED BY <2>3, <2>4
<1>4. \A i \in 0..n - 1 : (entries[i + 1] # Junk) <=> i < w
  <2> TAKE i \in 0..n - 1
  <2>1. (entries[i + 1] # Junk) <=> i \in Written
    BY DEF Written
  <2>2. i \in 0..w - 1 <=> i < w
    BY <1>2
  <2> QED BY <1>3, <2>1, <2>2
<1> DEFINE S == {i \in 0..n : /\ Len(k[i]) = IF i < w THEN i ELSE w
                              /\ \A j \in 1..Len(k[i]) : k[i][j] = entries[j]}
<1> HIDE DEF n
<1>5. 0 \in S
  <2>1. k[0] = <<>>
    BY <1>1 DEF Keeps
  <2> QED BY <1>2, <2>1
<1>6. ASSUME NEW i \in 0..n - 1, i \in S PROVE i + 1 \in S
  <2>1. k[i] \in Seq(0..MaxWeight) /\ i + 1 \in 0..n
    BY <1>1, <1>2 DEF Keeps
  <2>2. CASE entries[i + 1] = Junk
    <3>1. k[i + 1] = k[i] /\ ~(i < w)
      BY <1>1, <1>4, <2>2 DEF Keeps
    <3> QED BY <1>3, <1>6, <2>1, <3>1
  <2>3. CASE entries[i + 1] # Junk
    <3>1. k[i + 1] = Append(k[i], entries[i + 1]) /\ i < w /\ entries[i + 1] \in 0..MaxWeight
      BY <1>1, <1>2, <1>4, <2>3 DEF Keeps
    <3>2. Len(k[i]) = i /\ \A j \in 1..i : k[i][j] = entries[j]
      BY <1>6, <3>1
    <3>3. /\ Len(k[i + 1]) = i + 1
          /\ \A j \in 1..i : k[i + 1][j] = k[i][j]
          /\ k[i + 1][i + 1] = entries[i + 1]
      BY <2>1, <3>1, <3>2, AppendProperties
    <3>4. ASSUME NEW j \in 1..i + 1 PROVE k[i + 1][j] = entries[j]
      <4>1. j \in 1..i \/ j = i + 1
        OBVIOUS
      <4> QED BY <3>2, <3>3, <4>1
    <3>5. Len(k[i + 1]) = IF i + 1 < w THEN i + 1 ELSE w
      BY <1>3, <3>1, <3>3
    <3> QED BY <2>1, <3>3, <3>4, <3>5
  <2> QED BY <2>2, <2>3
<1> HIDE DEF S
<1>7. 0..n \subseteq S
  BY <1>2, <1>5, <1>6, UpTo
<1>8. n \in S
  BY <1>2, <1>7
<1>9. Len(Parsed) = w /\ \A i \in 1..Len(Parsed) : Parsed[i] = entries[i]
  BY <1>1, <1>3, <1>8 DEF S
<1> QED BY <1>2, <1>3, <1>9 DEF ParsedFirst, n

-----------------------------------------------------------------------------
(* The ring                                                                *)

\* A set of naturals has a smallest element, and a bounded one a largest.
LEMMA MinIn ==
    ASSUME NEW S \in SUBSET Nat, S # {}
    PROVE  Min(S) \in S
<1>1. PICK n \in S : \A m \in S : n <= m
  BY LeastNat
<1> QED BY <1>1 DEF Min

LEMMA MaxIn ==
    ASSUME NEW b \in Nat, NEW S \in SUBSET (0..b), S # {}
    PROVE  Max(S) \in S
<1> DEFINE T == {b - x : x \in S}
<1>1. T \in SUBSET Nat /\ T # {}
  <2>1. \A x \in S : b - x \in Nat
    OBVIOUS
  <2> QED BY <2>1
<1>2. PICK t \in T : \A m \in T : t <= m
  <2> HIDE DEF T
  <2> QED BY <1>1, LeastNat
<1>3. PICK n \in S : t = b - n
  OBVIOUS
<1>4. \A m \in S : n >= m
  <2> TAKE m \in S
  <2>1. b - m \in T
    OBVIOUS
  <2>2. b - n <= b - m
    BY <1>2, <1>3, <2>1
  <2>3. n \in Int /\ m \in Int
    OBVIOUS
  <2> QED BY <2>2, <2>3
<1> QED BY <1>3, <1>4 DEF Max

\* Every peer has a point, whatever its weight.
LEMMA PointZero ==
    ASSUME NEW weights \in Seq(0..MaxWeight), NEW n \in Tokens(weights)
    PROVE  0 \in Points(weights, n)
<1> DEFINE S == {weights[i] : i \in DOMAIN weights}
<1>1. Len(weights) \in Nat /\ DOMAIN weights = 1..Len(weights) /\ n + 1 \in 1..Len(weights)
  BY DEF Tokens
<1>2. S \in SUBSET (0..MaxWeight) /\ weights[n + 1] \in S
  BY <1>1, ElementOfSeq
<1>3. Largest(weights) \in Nat
  <2>1. Max(S) \in S
    <3> HIDE DEF S
    <3> QED BY <1>2, MaxIn, WeightAssumption
  <2> QED BY <1>2, <2>1, WeightAssumption DEF Largest
<1>4. ReplicaRatio(weights) \in Nat
  <2> DEFINE m == Largest(weights)
  <2>1. CASE m >= MinReplica
    BY <2>1 DEF ReplicaRatio
  <2>2. CASE ~(m >= MinReplica) /\ m = 0
    BY <2>2, ReplicaAssumption DEF ReplicaRatio
  <2>3. CASE ~(m >= MinReplica) /\ m # 0
    <3>1. m \in Nat \ {0} /\ MinReplica + m - 1 \in Nat
      BY <1>3, <2>3, ReplicaAssumption
    <3>2. ReplicaRatio(weights) = (MinReplica + m - 1) \div m
      BY <2>3 DEF ReplicaRatio
    <3> HIDE DEF m
    <3>3. \A a \in Nat : \A b \in Nat \ {0} : a \div b \in Nat
      OBVIOUS
    <3> QED BY <3>1, <3>2, <3>3
  <2> QED BY <2>1, <2>2, <2>3
<1>5. weights[n + 1] \in Nat
  BY <1>2, WeightAssumption
<1>6. weights[n + 1] * ReplicaRatio(weights) \in Nat
  BY <1>4, <1>5
<1> QED BY <1>6 DEF Points

\* The two answers of the ring are about the same hashes, of which there is one.
RingInv ==
    strategy = "iphash" /\ Len(Parsed) > 1 =>
        /\ \A h \in Hashes : hit[h] = Nobody <=> first[h] = Nobody
        /\ \E h \in Hashes : first[h] # Nobody

\* A ring that was made has a node.
LEMMA RingMade ==
    ASSUME MakeRing, Parsed \in Seq(0..MaxWeight), Len(Parsed) > 1
    PROVE  /\ \A h \in Hashes : hit[h] = Nobody <=> first[h] = Nobody
           /\ \E h \in Hashes : first[h] # Nobody
<1> DEFINE O(h) == Owners(Parsed, pointHash, h)
<1>1. \A h \in Hashes : O(h) \subseteq Tokens(Parsed) /\ Nobody \notin Tokens(Parsed)
  BY DEF Owners, Tokens, Nobody
<1>2. \A h \in Hashes : /\ IF O(h) = {} THEN hit[h] = Nobody ELSE hit[h] \in O(h)
                        /\ IF O(h) = {} THEN first[h] = Nobody ELSE first[h] \in O(h)
  BY DEF MakeRing, Answers
<1>3. \A h \in Hashes : /\ hit[h] = Nobody <=> O(h) = {}
                        /\ first[h] = Nobody <=> O(h) = {}
  BY <1>1, <1>2
<1>4. 0 \in Tokens(Parsed)
  BY DEF Tokens
<1>5. 0 \in Points(Parsed, 0)
  BY <1>4, PointZero
<1>6. pointHash[0] \in Hashes
  BY <1>4, <1>5 DEF MakeRing
<1>7. 0 \in O(pointHash[0])
  BY <1>4, <1>5 DEF Owners
<1> QED BY <1>3, <1>6, <1>7

-----------------------------------------------------------------------------
(* Types                                                                   *)

\* RoundRobin::new makes a node for each weight, if there are several.
NodesInv ==
    Nodes = IF strategy = "roundrobin" /\ Len(Parsed) > 1 THEN Tokens(Parsed) ELSE {}

\* No peer is chosen more often than next was called.
CountInv == \A p \in Nodes : count[p] <= calls

TypeInv == TypeOK /\ NodesInv /\ CountInv /\ RingInv

\* What was written is a text, which Parsed reads.
LEMMA EntriesText == TypeOK => entries \in Text /\ ParsedWell
<1> SUFFICES ASSUME TypeOK PROVE entries \in Text /\ ParsedWell
  OBVIOUS
<1>1. entries \in Text
  BY EntriesAssumption DEF TypeOK, Strings, Text
<1> QED BY <1>1, ParsedCounts

\* The types hold initially.
LEMMA InitType == Init => TypeInv /\ TokensNameRemotes
<1> SUFFICES ASSUME Init PROVE TypeInv /\ TokensNameRemotes
  OBVIOUS
<1>1. entries \in Strings(MaxEntries, MaxWeight)
  <2>1. CASE strategy = "iphash"
    <3>1. PICK n \in 1..RingEntries : entries \in [1..n -> {Junk} \cup 0..RingWeight]
      BY <2>1 DEF Init, Strings
    <3>2. n \in 1..MaxEntries /\ {Junk} \cup 0..RingWeight \subseteq {Junk} \cup 0..MaxWeight
      BY EntriesAssumption, WeightAssumption
    <3>3. entries \in [1..n -> {Junk} \cup 0..MaxWeight]
      BY <3>1, <3>2
    <3> QED BY <3>2, <3>3 DEF Strings
  <2> QED BY <2>1 DEF Init
<1>2. entries \in Text
  BY <1>1, EntriesAssumption DEF Strings, Text
<1>3. ParsedWell
  BY <1>2, ParsedCounts
<1>4. Len(Parsed) \in Nat /\ \A i \in 1..Len(Parsed) : Parsed[i] \in 0..MaxWeight
  <2>1. Parsed \in Seq(0..MaxWeight)
    BY <1>3 DEF ParsedWell
  <2> QED BY <2>1, ElementOfSeq, LenProperties
<1> DEFINE t == IF strategy = "roundrobin" /\ Len(Parsed) > 1 THEN Tokens(Parsed) ELSE {}
<1>5. /\ weight = [p \in t |-> Parsed[p + 1]] /\ ew = weight
      /\ cw = [p \in t |-> 0] /\ calls = 0 /\ count = [p \in t |-> 0]
  <2>1. CASE strategy = "roundrobin"
    BY <2>1 DEF Init, New, Tokens
  <2>2. CASE strategy # "roundrobin"
    BY <2>2 DEF Init, New
  <2> QED BY <2>1, <2>2
<1>6. Nodes = t
  BY <1>5 DEF Nodes
<1>7. t \subseteq Tokens(Parsed) /\ \A p \in t : p + 1 \in 1..Len(Parsed)
  BY <1>4 DEF Tokens
<1>8. weight \in [t -> 0..MaxWeight]
  BY <1>4, <1>5, <1>7
<1>9. cw \in [t -> -Half..Half - 1] /\ calls \in 0..MaxCalls /\ count \in [t -> 0..MaxCalls]
  BY <1>5, HalfAssumption, CallsAssumption
<1>a. \A f \in {hit, first} : f \in [Hashes -> Tokens(Parsed) \cup {Nobody}]
  <2>1. CASE MakeRing
    BY <2>1 DEF MakeRing, Answers
  <2>2. CASE NoRing
    BY <2>2 DEF NoRing
  <2> QED BY <2>1, <2>2 DEF Init
<1>b. TypeOK
  BY <1>1, <1>5, <1>6, <1>7, <1>8, <1>9, <1>a DEF Init, TypeOK
<1>c. NodesInv /\ CountInv
  BY <1>5, <1>6 DEF NodesInv, CountInv
<1>d. RingInv
  BY <1>3, RingMade DEF Init, RingInv, ParsedWell
<1> QED BY <1>b, <1>c, <1>d DEF TypeInv, TokensNameRemotes, Init

\* What the ring finds for a client is the token of a peer.
LEMMA LookupToken ==
    ASSUME TypeInv, strategy = "iphash", Len(Parsed) > 1, NEW h \in Hashes
    PROVE  Lookup(hit, first, h) \in Tokens(Parsed)
<1> DEFINE occupied == {k \in Hashes : first[k] # Nobody}
           larger == {k \in occupied : k > h}
<1>1. /\ \A k \in Hashes : hit[k] = Nobody <=> first[k] = Nobody
      /\ occupied # {}
  BY DEF TypeInv, RingInv
<1>2. \A k \in occupied : hit[k] \in Tokens(Parsed) /\ first[k] \in Tokens(Parsed)
  BY <1>1 DEF TypeInv, TypeOK
<1>3. occupied \in SUBSET Nat /\ larger \in SUBSET Nat /\ larger \subseteq occupied
  BY HashAssumption DEF Hashes
<1>4. Lookup(hit, first, h) = IF h \in occupied THEN hit[h]
                              ELSE IF larger # {} THEN first[Min(larger)]
                              ELSE IF occupied # {} THEN first[Min(occupied)]
                              ELSE Nobody
  BY DEF Lookup
<1> HIDE DEF occupied, larger
<1>5. larger # {} => Min(larger) \in larger
  BY <1>3, MinIn
<1>6. Min(occupied) \in occupied
  BY <1>1, <1>3, MinIn
<1> QED BY <1>1, <1>2, <1>3, <1>4, <1>5, <1>6

\* No current weight leaves its range, however long next is called.
LEMMA RoundRobinType ==
    ASSUME TypeInv, NEW p \in Nodes, NextNode(p), UNCHANGED <<entries, strategy>>
    PROVE  /\ Nodes' = Nodes
           /\ weight' \in [Nodes -> 0..MaxWeight] /\ ew' \in [Nodes -> 0..MaxWeight]
           /\ cw' \in [Nodes -> -Half..Half - 1]
           /\ calls' \in 0..MaxCalls /\ count' \in [Nodes -> 0..MaxCalls]
           /\ CountInv' /\ NodesInv'
<1>1. /\ weight \in [Nodes -> 0..MaxWeight] /\ ew \in [Nodes -> 0..MaxWeight]
      /\ cw \in [Nodes -> -Half..Half - 1]
      /\ calls \in 0..MaxCalls /\ count \in [Nodes -> 0..MaxCalls]
      /\ \A q \in Nodes : count[q] <= calls
  BY DEF TypeInv, TypeOK, CountInv
<1>2. /\ calls < MaxCalls /\ cw' = [Raised EXCEPT ![p] = Wrap(@ - Debit(p))]
      /\ ew' = [q \in Nodes |-> Recovered(q)] /\ count' = [count EXCEPT ![p] = @ + 1]
      /\ calls' = calls + 1 /\ weight' = weight
  BY DEF NextNode
<1>3. Nodes' = Nodes
  BY <1>2 DEF Nodes
<1>4. ew' \in [Nodes -> 0..MaxWeight]
  <2>1. \A q \in Nodes : Recovered(q) \in 0..MaxWeight
    BY <1>1, WeightAssumption DEF Recovered
  <2> QED BY <1>2, <2>1
<1>5. Debit(p) \in Int
  <2>1. PICK n \in Nat : Nodes = 0..n - 1
    <3>1. Len(Parsed) \in Nat
      BY EntriesText DEF TypeInv, ParsedWell
    <3> QED BY <3>1 DEF TypeInv, NodesInv, Tokens
  <2>2. Cardinality(Nodes) = n
    BY <2>1, FS_Interval
  <2>3. ew \in Vec(n)
    BY <1>1, <2>1 DEF Vec
  <2>4. Sum(ew, n) \in Int
    BY <2>3, SumInt
  <2>5. Wrap(Sum(ew, n)) \in -Half..Half - 1
    BY <2>4, WrapRange
  <2> QED BY <2>2, <2>5, HalfAssumption DEF Debit
<1>6. Raised \in [Nodes -> -Half..Half - 1]
  <2>1. \A q \in Nodes : cw[q] + ew[q] \in Int
    BY <1>1, HalfAssumption
  <2>2. \A q \in Nodes : Wrap(cw[q] + ew[q]) \in -Half..Half - 1
    BY <2>1, WrapRange
  <2> QED BY <2>2 DEF Raised
<1>7. cw' \in [Nodes -> -Half..Half - 1]
  <2>1. Raised[p] - Debit(p) \in Int
    BY <1>5, <1>6, HalfAssumption
  <2>2. Wrap(Raised[p] - Debit(p)) \in -Half..Half - 1
    BY <2>1, WrapRange
  <2> QED BY <1>2, <1>6, <2>2
<1>8. /\ calls' \in 0..MaxCalls
      /\ \A q \in Nodes : count'[q] = IF q = p THEN count[q] + 1 ELSE count[q]
  BY <1>1, <1>2, CallsAssumption
<1>9. \A q \in Nodes : count'[q] <= calls' /\ count'[q] \in 0..MaxCalls
  BY <1>1, <1>2, <1>8, CallsAssumption
<1>a. count' \in [Nodes -> 0..MaxCalls]
  BY <1>1, <1>2, <1>9
<1>b. CountInv'
  BY <1>3, <1>9 DEF CountInv
<1>c. NodesInv'
  BY <1>3 DEF TypeInv, NodesInv, Tokens, Parsed
<1> QED BY <1>1, <1>2, <1>3, <1>4, <1>7, <1>8, <1>a, <1>b, <1>c

\* Every call keeps the types, and its token names a remote.
LEMMA NextType ==
    TypeInv /\ TokensNameRemotes /\ [Next]_vars => TypeInv' /\ TokensNameRemotes'
<1> SUFFICES ASSUME TypeInv, TokensNameRemotes, [Next]_vars
             PROVE  TypeInv' /\ TokensNameRemotes'
  OBVIOUS
<1>1. UNCHANGED <<entries, strategy, remotes>>
  BY DEF Next, vars
<1>2. Parsed' = Parsed /\ Written' = Written
  BY <1>1 DEF Parsed, Written
<1>3. /\ Parsed \in Seq(0..MaxWeight) /\ Len(Parsed) = Cardinality(Written)
      /\ Len(Parsed) \in Nat
  BY EntriesText DEF TypeInv, ParsedWell
<1>4. ASSUME NEW t, Use(t), t = 0 \/ t \in Tokens(Parsed)
      PROVE  panicked' \in BOOLEAN /\ TokensNameRemotes'
  <2>1. panicked' \in BOOLEAN
    BY <1>4 DEF Use
  <2>2. ASSUME Cardinality(Written) <= remotes PROVE ~panicked'
    <3>1. remotes \in Nat \ {0}
      BY EntriesAssumption DEF TypeInv, TypeOK
    <3>2. t \in Int /\ t # Nobody
      BY <1>3, <1>4 DEF Tokens, Nobody
    <3>3. t # 0 => ~(Extra(t) >= remotes - 1)
      BY <1>3, <1>4, <2>2, <3>1 DEF Tokens, Extra
    <3> QED BY <1>4, <3>2, <3>3 DEF Use
  <2> QED BY <1>1, <1>2, <2>1, <2>2 DEF TokensNameRemotes
<1>5. ASSUME UNCHANGED <<rrVars, hit, first>>, panicked' \in BOOLEAN
      PROVE  TypeInv'
  <2>1. TypeOK'
    BY <1>1, <1>2, <1>5 DEF TypeInv, TypeOK, rrVars, Nodes
  <2>2. NodesInv' /\ CountInv' /\ RingInv'
    BY <1>1, <1>2, <1>5 DEF TypeInv, NodesInv, CountInv, RingInv, rrVars, Nodes
  <2> QED BY <2>1, <2>2 DEF TypeInv
<1>6. CASE UNCHANGED vars
  BY <1>1, <1>2, <1>5, <1>6 DEF vars, ringVars, TypeInv, TypeOK, TokensNameRemotes
<1>7. CASE NextOnly
  BY <1>4, <1>5, <1>7 DEF NextOnly, ringVars, TypeInv, TypeOK
<1>8. CASE NextIpHash
  <2>1. PICK h \in Hashes : Use(Lookup(hit, first, h))
    BY <1>8 DEF NextIpHash
  <2>2. Lookup(hit, first, h) \in Tokens(Parsed)
    BY <1>8, LookupToken DEF NextIpHash
  <2> QED BY <1>4, <1>5, <1>8, <2>1, <2>2 DEF NextIpHash, ringVars
<1>9. CASE NextRoundRobin
  <2>1. PICK p \in Nodes : NextNode(p) /\ Use(p)
    BY <1>9 DEF NextRoundRobin
  <2>2. p \in Tokens(Parsed)
    BY DEF TypeInv, TypeOK
  <2>3. UNCHANGED ringVars
    BY <1>9 DEF NextRoundRobin
  <2>4. panicked' \in BOOLEAN /\ TokensNameRemotes'
    BY <1>4, <2>1, <2>2
  <2>5. RingInv'
    BY <1>1, <1>2, <2>3 DEF TypeInv, RingInv, ringVars
  <2>6. /\ Nodes' = Nodes /\ CountInv' /\ NodesInv'
        /\ weight' \in [Nodes -> 0..MaxWeight] /\ ew' \in [Nodes -> 0..MaxWeight]
        /\ cw' \in [Nodes -> -Half..Half - 1]
        /\ calls' \in 0..MaxCalls /\ count' \in [Nodes -> 0..MaxCalls]
    BY <1>1, <2>1, RoundRobinType
  <2>7. TypeOK'
    BY <1>1, <1>2, <2>3, <2>4, <2>6 DEF TypeInv, TypeOK, ringVars
  <2> QED BY <2>4, <2>5, <2>6, <2>7 DEF TypeInv
<1> QED BY <1>6, <1>7, <1>8, <1>9 DEF Next

\* Every variable keeps its type, for any number and size of weights and any
\* number of calls: current weights stay i16, rings answer with tokens of peers.
THEOREM TypeCorrect == Spec => []TypeOK
<1>1. TypeInv => TypeOK
  BY DEF TypeInv
<1> QED BY <1>1, InitType, NextType, PTL DEF Spec

\* An endpoint with no more weights than remotes never panics when it picks a
\* remote, whatever its weights, hashes and strategy (Balancer::next,
\* connect_and_relay).
THEOREM TokensInRange == Spec => []TokensNameRemotes
<1> QED BY InitType, NextType, PTL DEF Spec

-----------------------------------------------------------------------------
(* The credit of several peers together                                    *)

\* The most that n - j of n peers can have, as in Lead.
IsMost(m, n, T) ==
    /\ m \in [0..n - 1 -> Nat]
    /\ m[0] = 0
    /\ \A j \in 0..n - 2 : m[j + 1] = ((n - (j + 1)) * (m[j] + T)) \div (n - (j + 1) + 1)

\* A selection of peers, and no selection has more credit than it can.
Selections(n) == [0..n - 1 -> {0, 1}]
Bounded(c, m, n) ==
    \A a \in Selections(n) :
        Sum(a, n) >= 1 => Sum(Mul(a, c, n), n) <= m[n - Sum(a, n)]

\* A selection has from none to all peers.
LEMMA SelectionSize ==
    ASSUME NEW n \in Nat, NEW a \in Selections(n)
    PROVE  Sum(a, n) \in 0..n /\ a \in Vec(n)
<1>1. a \in Vec(n)
  BY DEF Vec, Selections
<1>2. Leq(Const(0, n), a, n) /\ Leq(a, Const(1, n), n)
  BY DEF Leq, Const, Selections
<1>3. Const(0, n) \in Vec(n) /\ Sum(Const(0, n), n) = n * 0
  BY SumConst
<1>4. Const(1, n) \in Vec(n) /\ Sum(Const(1, n), n) = n * 1
  BY SumConst
<1>5. Sum(Const(0, n), n) <= Sum(a, n)
  BY <1>1, <1>2, <1>3, SumLeq
<1>6. Sum(a, n) <= Sum(Const(1, n), n)
  BY <1>1, <1>2, <1>4, SumLeq
<1>7. Sum(a, n) \in Int
  BY <1>1, SumInt
<1> QED BY <1>1, <1>3, <1>4, <1>5, <1>6, <1>7

\* What a selection has is a vector again.
LEMMA MulVec ==
    ASSUME NEW n \in Nat, NEW a \in Selections(n), NEW f \in Vec(n)
    PROVE  /\ Mul(a, f, n) \in Vec(n) /\ Sum(Mul(a, f, n), n) \in Int
           /\ \A i \in 0..n - 1 : Mul(a, f, n)[i] = IF a[i] = 0 THEN 0 ELSE f[i]
<1>1. \A i \in 0..n - 1 : a[i] \in {0, 1} /\ f[i] \in Int
  BY DEF Selections, Vec
<1>2. \A i \in 0..n - 1 : Mul(a, f, n)[i] = a[i] * f[i]
  BY DEF Mul
<1>3. \A i \in 0..n - 1 : Mul(a, f, n)[i] = IF a[i] = 0 THEN 0 ELSE f[i]
  BY <1>1, <1>2
<1>4. \A i \in 0..n - 1 : a[i] * f[i] \in Int
  BY <1>1
<1>5. Mul(a, f, n) \in Vec(n)
  BY <1>4 DEF Mul, Vec
<1> QED BY <1>3, <1>5, SumInt

\* Vectors are equal when their elements are.
LEMMA VecEqual ==
    ASSUME NEW n \in Nat, NEW f \in Vec(n), NEW g \in Vec(n),
           \A i \in 0..n - 1 : f[i] = g[i]
    PROVE  f = g
BY DEF Vec

\* A selection gains at most the total.
LEMMA SelectionGains ==
    ASSUME NEW n \in Nat, NEW a \in Selections(n), NEW c \in Vec(n), NEW w \in Vec(n),
           Leq(Const(0, n), w, n)
    PROVE  Sum(Mul(a, Plus(c, w, n), n), n) <= Sum(Mul(a, c, n), n) + Sum(w, n)
<1> DEFINE r == Plus(c, w, n)
           x == Mul(a, c, n)
           y == Mul(a, w, n)
<1> SUFFICES Sum(Mul(a, r, n), n) <= Sum(x, n) + Sum(w, n)
  OBVIOUS
<1>1. r \in Vec(n) /\ \A i \in 0..n - 1 : r[i] = c[i] + w[i] /\ c[i] \in Int /\ w[i] \in Int
  BY SumPlus DEF Plus, Vec
<1>2. /\ x \in Vec(n) /\ Sum(x, n) \in Int
      /\ \A i \in 0..n - 1 : x[i] = IF a[i] = 0 THEN 0 ELSE c[i]
  BY MulVec
<1>3. /\ y \in Vec(n) /\ Sum(y, n) \in Int
      /\ \A i \in 0..n - 1 : y[i] = IF a[i] = 0 THEN 0 ELSE w[i]
  BY MulVec
<1> HIDE DEF r, x, y
<1>4. /\ Mul(a, r, n) \in Vec(n)
      /\ \A i \in 0..n - 1 : Mul(a, r, n)[i] = IF a[i] = 0 THEN 0 ELSE r[i]
  BY <1>1, MulVec
<1>5. Plus(x, y, n) \in Vec(n) /\ Sum(Plus(x, y, n), n) = Sum(x, n) + Sum(y, n)
  BY <1>2, <1>3, SumPlus
<1>6. \A i \in 0..n - 1 : Plus(x, y, n)[i] = x[i] + y[i]
  BY DEF Plus
<1>7. \A i \in 0..n - 1 : Mul(a, r, n)[i] = Plus(x, y, n)[i]
  BY <1>1, <1>2, <1>3, <1>4, <1>6
<1>8. Mul(a, r, n) = Plus(x, y, n)
  BY <1>4, <1>5, <1>7, VecEqual
<1>9. Leq(y, w, n)
  BY <1>1, <1>3 DEF Leq, Const
<1>10. Sum(y, n) <= Sum(w, n)
  BY <1>3, <1>9, SumLeq
<1>11. Sum(w, n) \in Int
  BY SumInt
<1> QED BY <1>2, <1>3, <1>5, <1>8, <1>10, <1>11

\* What a selection has when p pays d: it pays, if p is one of it.
LEMMA SelectionPays ==
    ASSUME NEW n \in Nat, NEW a \in Selections(n), NEW r \in Vec(n), NEW p \in 0..n - 1,
           NEW d \in Int
    PROVE  Sum(Mul(a, Bump(r, p, d, n), n), n)
               = Sum(Mul(a, r, n), n) + (IF a[p] = 0 THEN 0 ELSE d)
<1> DEFINE e == Bump(r, p, d, n)
           x == Mul(a, r, n)
           k == IF a[p] = 0 THEN 0 ELSE d
<1> SUFFICES Sum(Mul(a, e, n), n) = Sum(x, n) + k
  OBVIOUS
<1>1. e \in Vec(n) /\ \A i \in 0..n - 1 : e[i] = IF i = p THEN r[i] + d ELSE r[i]
  BY SumBump DEF Bump
<1>2. /\ x \in Vec(n) /\ \A i \in 0..n - 1 : x[i] = IF a[i] = 0 THEN 0 ELSE r[i]
  BY MulVec
<1>3. k \in Int /\ k = IF a[p] = 0 THEN 0 ELSE d
  OBVIOUS
<1> HIDE DEF e, x, k
<1>4. /\ Mul(a, e, n) \in Vec(n)
      /\ \A i \in 0..n - 1 : Mul(a, e, n)[i] = IF a[i] = 0 THEN 0 ELSE e[i]
  BY <1>1, MulVec
<1>5. Bump(x, p, k, n) \in Vec(n) /\ Sum(Bump(x, p, k, n), n) = Sum(x, n) + k
  BY <1>2, <1>3, SumBump
<1>6. \A i \in 0..n - 1 : Bump(x, p, k, n)[i] = IF i = p THEN x[i] + k ELSE x[i]
  BY DEF Bump
<1>7. \A i \in 0..n - 1 : r[i] \in Int
  BY DEF Vec
<1>8. \A i \in 0..n - 1 : Mul(a, e, n)[i] = Bump(x, p, k, n)[i]
  BY <1>1, <1>2, <1>3, <1>4, <1>6, <1>7
<1>9. Mul(a, e, n) = Bump(x, p, k, n)
  BY <1>4, <1>5, <1>8, VecEqual
<1> QED BY <1>5, <1>9

\* A selection without p, and with it.
LEMMA SelectionJoined ==
    ASSUME NEW n \in Nat, NEW a \in Selections(n), NEW r \in Vec(n), NEW p \in 0..n - 1,
           a[p] = 0
    PROVE  LET b == Bump(a, p, 1, n) IN
           /\ b \in Selections(n)
           /\ Sum(b, n) = Sum(a, n) + 1
           /\ Sum(Mul(b, r, n), n) = Sum(Mul(a, r, n), n) + r[p]
<1> DEFINE b == Bump(a, p, 1, n)
           x == Mul(a, r, n)
<1>1. a \in Vec(n) /\ r[p] \in Int
  BY SelectionSize DEF Vec
<1>2. \A i \in 0..n - 1 : b[i] = IF i = p THEN 1 ELSE a[i]
  BY <1>1 DEF Bump, Selections
<1>3. b \in Selections(n)
  BY <1>1 DEF Bump, Selections
<1>4. Sum(b, n) = Sum(a, n) + 1
  BY <1>1, SumBump
<1>5. /\ x \in Vec(n) /\ \A i \in 0..n - 1 : x[i] = IF a[i] = 0 THEN 0 ELSE r[i]
  BY MulVec
<1> HIDE DEF b, x
<1>6. /\ Mul(b, r, n) \in Vec(n)
      /\ \A i \in 0..n - 1 : Mul(b, r, n)[i] = IF b[i] = 0 THEN 0 ELSE r[i]
  BY <1>3, MulVec
<1>7. Bump(x, p, r[p], n) \in Vec(n) /\ Sum(Bump(x, p, r[p], n), n) = Sum(x, n) + r[p]
  BY <1>1, <1>5, SumBump
<1>8. \A i \in 0..n - 1 : Bump(x, p, r[p], n)[i] = IF i = p THEN x[i] + r[p] ELSE x[i]
  BY DEF Bump
<1>9. \A i \in 0..n - 1 : Mul(b, r, n)[i] = Bump(x, p, r[p], n)[i]
  BY <1>1, <1>2, <1>5, <1>6, <1>8
<1>10. Mul(b, r, n) = Bump(x, p, r[p], n)
  BY <1>6, <1>7, <1>9, VecEqual
<1>11. Sum(Mul(b, r, n), n) = Sum(x, n) + r[p]
  BY <1>7, <1>10
<1> QED BY <1>3, <1>4, <1>11 DEF b, x

\* k peers have at most k times the most of one.
LEMMA SelectionBelow ==
    ASSUME NEW n \in Nat, NEW a \in Selections(n), NEW r \in Vec(n), NEW t \in Int,
           Leq(r, Const(t, n), n)
    PROVE  Sum(Mul(a, r, n), n) <= Sum(a, n) * t
<1> DEFINE x == Mul(a, r, n)
<1>1. a \in Vec(n)
  BY SelectionSize
<1>2. /\ x \in Vec(n) /\ \A i \in 0..n - 1 : x[i] = IF a[i] = 0 THEN 0 ELSE r[i]
  BY MulVec
<1> HIDE DEF x
<1>3. Times(a, t, n) \in Vec(n) /\ Sum(Times(a, t, n), n) = Sum(a, n) * t
  BY <1>1, SumTimes
<1>4. \A i \in 0..n - 1 : a[i] \in {0, 1} /\ Times(a, t, n)[i] = a[i] * t /\ r[i] <= t
  BY DEF Selections, Times, Leq, Const
<1>5. \A i \in 0..n - 1 : Times(a, t, n)[i] = IF a[i] = 0 THEN 0 ELSE t
  BY <1>4
<1>6. Leq(x, Times(a, t, n), n)
  BY <1>2, <1>4, <1>5 DEF Leq
<1>7. Sum(x, n) <= Sum(Times(a, t, n), n)
  BY <1>2, <1>3, <1>6, SumLeq
<1> QED BY <1>3, <1>7 DEF x

\* One call of next, on exact numbers: everybody gains its weight, and the one
\* with the most, p, pays the total.
LEMMA Turn ==
    ASSUME NEW n \in Nat \ {0}, NEW w \in Vec(n), NEW c \in Vec(n), NEW p \in 0..n - 1,
           NEW T \in Nat, NEW m, NEW r, NEW d,
           Leq(Const(0, n), w, n), T = Sum(w, n), Sum(c, n) = 0,
           IsMost(m, n, T), Bounded(c, m, n),
           r = Plus(c, w, n), Leq(r, Const(r[p], n), n), d = Bump(r, p, 0 - T, n)
    PROVE  /\ r \in Vec(n) /\ d \in Vec(n)
           /\ Sum(d, n) = 0 /\ r[p] >= 0 /\ (T > 0 => r[p] > 0) /\ Bounded(d, m, n)
<1>1. n \in Nat /\ r \in Vec(n) /\ Sum(r, n) = T
  BY SumPlus
<1>2. d \in Vec(n) /\ Sum(d, n) = 0
  <2>1. d \in Vec(n) /\ Sum(d, n) = Sum(r, n) + (0 - T)
    BY <1>1, SumBump
  <2> QED BY <1>1, <2>1
<1>3. r[p] \in Int
  BY <1>1 DEF Vec
<1>4. T <= n * r[p]
  <2>1. Const(r[p], n) \in Vec(n) /\ Sum(Const(r[p], n), n) = n * r[p]
    BY <1>1, <1>3, SumConst
  <2>2. Sum(r, n) <= Sum(Const(r[p], n), n)
    BY <1>1, <2>1, SumLeq
  <2> QED BY <1>1, <2>1, <2>2
<1>5. r[p] >= 0 /\ (T > 0 => r[p] > 0)
  <2>1. \A x \in Int : (x < 0 => n * x < 0) /\ (x = 0 => n * x = 0)
    BY <1>1
  <2> QED BY <1>3, <1>4, <2>1
<1>6. ASSUME NEW a \in Selections(n), Sum(a, n) >= 1
      PROVE  Sum(Mul(a, d, n), n) <= m[n - Sum(a, n)]
  <2> DEFINE X == Sum(Mul(a, r, n), n)
             C == Sum(Mul(a, c, n), n)
  <2>1. PICK k \in 1..n : k = Sum(a, n)
    BY <1>1, <1>6, SelectionSize
  <2>2. X \in Int /\ C \in Int
    BY <1>1, MulVec
  <2>3. Sum(Mul(a, d, n), n) = X + (IF a[p] = 0 THEN 0 ELSE 0 - T)
    BY <1>1, SelectionPays
  <2>4. X <= C + T
    BY <1>1, SelectionGains
  <2>5. C <= m[n - k] /\ m[n - k] \in Int
    BY <1>6, <2>1 DEF Bounded, IsMost
  <2>6. CASE a[p] # 0
    <3> HIDE DEF X, C
    <3> QED BY <2>1, <2>2, <2>3, <2>4, <2>5, <2>6
  <2>7. CASE a[p] = 0
    <3> DEFINE b == Bump(a, p, 1, n)
               M == m[n - (k + 1)]
               B == Sum(Mul(b, c, n), n)
    <3>1. b \in Selections(n) /\ Sum(b, n) = k + 1 /\ Sum(Mul(b, r, n), n) = X + r[p]
      BY <1>1, <2>1, <2>7, SelectionJoined
    <3> HIDE DEF b
    <3>2. k + 1 \in 2..n
      BY <1>1, <2>1, <3>1, SelectionSize
    <3>3. Sum(Mul(b, r, n), n) <= B + T
      BY <1>1, <3>1, SelectionGains
    <3>4. B \in Int
      BY <1>1, <3>1, MulVec
    <3>5. B <= M
      BY <3>1, <3>2 DEF Bounded
    <3>6. M \in Int
      BY <3>2 DEF IsMost
    <3>7. X <= k * r[p]
      BY <1>1, <1>3, <2>1, SelectionBelow
    <3>8. m[n - k] = (k * (M + T)) \div (k + 1)
      <4> DEFINE j == n - (k + 1)
      <4>1. j \in 0..n - 2 /\ j + 1 = n - k /\ n - (j + 1) = k
        BY <3>2
      <4>2. m[j + 1] = ((n - (j + 1)) * (m[j] + T)) \div (n - (j + 1) + 1)
        BY <4>1 DEF IsMost
      <4> QED BY <4>1, <4>2
    <3> HIDE DEF X, B, M
    <3>9. X + r[p] <= M + T
      BY <1>3, <2>2, <3>1, <3>3, <3>4, <3>5, <3>6
    <3>10. X <= (k * (M + T)) \div (k + 1)
      <4>1. k \in Nat /\ M + T \in Int
        BY <3>6
      <4> QED BY <1>3, <2>2, <3>7, <3>9, <4>1, Average
    <3> QED BY <2>1, <2>2, <2>3, <2>7, <3>8, <3>10
  <2> QED BY <2>6, <2>7
<1>7. Bounded(d, m, n)
  BY <1>6 DEF Bounded
<1> QED BY <1>1, <1>2, <1>5, <1>7

\* A single peer is a selection.
LEMMA Single ==
    ASSUME NEW n \in Nat \ {0}, NEW c \in Vec(n), NEW m, Bounded(c, m, n), NEW p \in 0..n - 1
    PROVE  c[p] <= m[n - 1]
<1> DEFINE z == Const(0, n)
           a == Bump(z, p, 1, n)
<1>1. z \in Selections(n) /\ n \in Nat /\ z[p] = 0
  BY DEF Const, Selections
<1>2. Sum(z, n) = n * 0
  BY <1>1, SumConst
<1>3. Sum(Mul(z, c, n), n) = 0
  <2>1. /\ Mul(z, c, n) \in Vec(n)
        /\ \A i \in 0..n - 1 : Mul(z, c, n)[i] = IF z[i] = 0 THEN 0 ELSE c[i]
    BY <1>1, MulVec
  <2>2. \A i \in 0..n - 1 : z[i] = 0
    BY DEF Const
  <2>3. z \in Vec(n)
    BY <1>1, SumConst
  <2> HIDE DEF z
  <2>4. Mul(z, c, n) = z
    BY <1>1, <2>1, <2>2, <2>3, VecEqual
  <2> QED BY <1>1, <1>2, <2>4
<1> HIDE DEF z
<1>4. /\ a \in Selections(n) /\ Sum(a, n) = Sum(z, n) + 1
      /\ Sum(Mul(a, c, n), n) = Sum(Mul(z, c, n), n) + c[p]
  BY <1>1, SelectionJoined
<1> HIDE DEF a
<1>5. c[p] \in Int
  BY DEF Vec
<1>6. Sum(a, n) = 1 /\ Sum(Mul(a, c, n), n) = c[p]
  BY <1>1, <1>2, <1>3, <1>4, <1>5
<1> QED BY <1>4, <1>6 DEF Bounded

-----------------------------------------------------------------------------
(* Every remote gets its share                                             *)

\* What ExactCredit is about, and the weights as they are written.
Premise == strategy = "roundrobin" /\ JunkIsLast /\ Cardinality(Written) > 1 /\ Fits
Share == [p \in 0..Len(Parsed) - 1 |-> Owed(p)]

\* What is owed is a vector of naturals, with the total as its sum.
ShareWell ==
    /\ Share \in Vec(Len(Parsed)) /\ Leq(Const(0, Len(Parsed)), Share, Len(Parsed))
    /\ \A p \in 0..Len(Parsed) - 1 : Owed(p) = Parsed[p + 1] /\ Owed(p) \in 0..MaxWeight
    /\ Total = Sum(Share, Len(Parsed)) /\ Total \in Nat
    /\ Len(Parsed) \in Nat /\ Len(Parsed) = Cardinality(Written)
    /\ Written = 0..Len(Parsed) - 1

LEMMA TotalShare == ASSUME entries \in Text, JunkIsLast PROVE ShareWell
<1>1. ParsedWell /\ ParsedFirst
  BY ParsedCounts, JunkLast
<1>2. PICK n \in Nat : n = Len(Parsed)
  BY <1>1 DEF ParsedWell
<1>3. PICK l \in Nat : l = Len(entries)
  BY TextOf
<1>4. n <= l /\ Written = 0..n - 1 /\ n = Cardinality(Written)
  BY <1>1, <1>2, <1>3 DEF ParsedWell, ParsedFirst
<1>5. \A p \in 0..n - 1 : Owed(p) = Parsed[p + 1] /\ Owed(p) \in 0..MaxWeight
  <2> TAKE p \in 0..n - 1
  <2>1. p + 1 \in 1..Len(Parsed)
    BY <1>2
  <2>2. Parsed[p + 1] = entries[p + 1]
    BY <1>1, <2>1 DEF ParsedFirst
  <2>3. Parsed[p + 1] \in 0..MaxWeight
    BY <1>1, <2>1, ElementOfSeq DEF ParsedWell
  <2> QED BY <2>2, <2>3 DEF Owed
<1>6. Share \in Vec(n) /\ Leq(Const(0, n), Share, n)
  BY <1>2, <1>5 DEF Share, Vec, Leq, Const
<1> DEFINE g == [p \in 0..l - 1 |-> IF p \in Written THEN Owed(p) ELSE 0]
<1>7. Total = Sum(g, l)
  BY <1>3 DEF Total
<1>8. \A i \in 0..l - 1 : g[i] = IF i < n THEN Share[i] ELSE 0
  BY <1>2, <1>4 DEF Share
<1>9. g \in Vec(l)
  BY <1>4, <1>5 DEF Vec
<1> HIDE DEF g
<1>10. Total = Sum(Share, n)
  BY <1>4, <1>6, <1>7, <1>8, <1>9, SumExtend
<1>11. Total \in Nat
  <2>1. Const(0, n) \in Vec(n) /\ Sum(Const(0, n), n) = n * 0
    BY SumConst
  <2>2. Sum(Const(0, n), n) <= Sum(Share, n)
    BY <1>6, <2>1, SumLeq
  <2>3. Sum(Share, n) \in Int
    BY <1>6, SumInt
  <2> QED BY <1>10, <2>1, <2>2, <2>3
<1> QED BY <1>2, <1>4, <1>5, <1>6, <1>10, <1>11 DEF ShareWell

\* What Lead computes.
LEMMA LeadMost ==
    ASSUME NEW n \in Nat, n = Cardinality(Written), n > 1, Total \in Nat
    PROVE  \E m : IsMost(m, n, Total) /\ Lead = m[n - 1]
<1>0. PICK T \in Nat : T = Total
  OBVIOUS
<1> DEFINE N == n - 1
           step == [i \in 0..N - 1 |-> [v \in Nat |->
                       ((n - (i + 1)) * (v + T)) \div (n - (i + 1) + 1)]]
           P(m) == m = [j \in 0..N |-> IF j = 0 THEN 0
                           ELSE ((n - j) * (m[j - 1] + T)) \div (n - j + 1)]
           c == CHOOSE m : P(m)
<1>1. Lead = c[N]
  BY <1>0 DEF Lead
<1>2. N \in Nat
  OBVIOUS
<1>3. \A i \in 0..N - 1, v \in Nat : ((n - (i + 1)) * (v + T)) \div (n - (i + 1) + 1) \in Nat
  <2> TAKE i \in 0..N - 1, v \in Nat
  <2>1. n - (i + 1) \in Nat /\ v + T \in Nat
    OBVIOUS
  <2>2. (n - (i + 1)) * (v + T) \in Nat /\ n - (i + 1) + 1 \in Nat \ {0}
    BY <2>1
  <2>3. \A a \in Nat : \A b \in Nat \ {0} : a \div b \in Nat
    OBVIOUS
  <2> QED BY <2>2, <2>3
<1>4. step \in [0..N - 1 -> [Nat -> Nat]]
  BY <1>3
<1>5. \A i \in 0..N - 1, v \in Nat :
          step[i][v] = ((n - (i + 1)) * (v + T)) \div (n - (i + 1) + 1)
  OBVIOUS
<1> HIDE DEF step
<1>6. PICK s \in [0..N -> Nat] : Steps(s, 0, N, step)
  <2> DEFINE V == Nat
             k == N
  <2>1. 0 \in V /\ step \in [0..k - 1 -> [V -> V]] /\ k \in Nat
    BY <1>2, <1>4
  <2> HIDE DEF V, k
  <2>2. \E s \in [0..k -> V] : Steps(s, 0, k, step)
    BY <2>1, RecExists
  <2> QED BY <2>2 DEF V, k
<1>7. P(s)
  <2>1. ASSUME NEW j \in 0..N
        PROVE  s[j] = IF j = 0 THEN 0 ELSE ((n - j) * (s[j - 1] + T)) \div (n - j + 1)
    <3>1. CASE j = 0
      BY <1>6, <3>1 DEF Steps
    <3>2. CASE j # 0
      <4>1. j - 1 \in 0..N - 1 /\ (j - 1) + 1 = j /\ s[j - 1] \in Nat
        BY <3>2
      <4>2. s[j] = step[j - 1][s[j - 1]]
        BY <1>6, <4>1 DEF Steps
      <4> QED BY <1>5, <3>2, <4>1, <4>2
    <3> QED BY <3>1, <3>2
  <2> QED BY <2>1
<1>8. P(c)
  BY <1>7
<1> HIDE DEF c
<1>9. c[0] = 0 /\ DOMAIN c = 0..N
  BY <1>8
<1>10. ASSUME NEW j \in 0..N - 1
       PROVE  c[j + 1] = ((n - (j + 1)) * (c[j] + T)) \div (n - (j + 1) + 1)
  <2>1. j + 1 \in 0..N /\ j + 1 # 0 /\ (j + 1) - 1 = j
    OBVIOUS
  <2> QED BY <1>8, <2>1
<1>11. \A j \in 0..N : c[j] \in Nat
  <2> DEFINE S == {j \in 0..N : c[j] \in Nat}
  <2>1. 0 \in S
    BY <1>9
  <2>2. ASSUME NEW j \in 0..N - 1, j \in S PROVE j + 1 \in S
    <3>1. c[j + 1] \in Nat
      BY <1>3, <1>10, <2>2
    <3> QED BY <3>1
  <2> HIDE DEF S
  <2>3. 0..N \subseteq S
    BY <1>2, <2>1, <2>2, UpTo
  <2> QED BY <2>3 DEF S
<1>12. c \in [0..N -> Nat]
  <2>1. c = [j \in 0..N |-> c[j]]
    BY <1>8
  <2> QED BY <1>11, <2>1
<1>13. 0..n - 2 = 0..N - 1
  OBVIOUS
<1>14. IsMost(c, n, T)
  BY <1>9, <1>10, <1>12, <1>13 DEF IsMost
<1> QED BY <1>0, <1>1, <1>14

\* A current weight is what its peer is owed; the credits are 0 in all, none is
\* a total behind, and no selection of peers has more than it can.
ShareInv ==
    Premise =>
        /\ ew = weight /\ weight = Share
        /\ \A p \in 0..Len(Parsed) - 1 : cw[p] = calls * Owed(p) - Total * count[p]
        /\ Sum(cw, Len(Parsed)) = 0
        /\ \A p \in 0..Len(Parsed) - 1 : -Total <= cw[p] /\ (Total > 0 => -Total < cw[p])
        /\ \A m : IsMost(m, Len(Parsed), Total) => Bounded(cw, m, Len(Parsed))

\* It holds for new nodes.
LEMMA InitShare == Init => ShareInv
<1> SUFFICES ASSUME Init, Premise PROVE ShareInv
  BY DEF ShareInv
<1>1. TypeOK
  BY InitType DEF TypeInv
<1>2. ShareWell
  BY <1>1, EntriesText, TotalShare DEF Premise
<1>3. PICK n \in Nat : n = Len(Parsed) /\ n > 1
  BY <1>2 DEF ShareWell, Premise
<1>4. /\ weight = [p \in 0..n - 1 |-> Parsed[p + 1]] /\ ew = weight
      /\ cw = [p \in 0..n - 1 |-> 0] /\ calls = 0 /\ count = [p \in 0..n - 1 |-> 0]
  BY <1>3 DEF Init, New, Premise
<1>5. weight = Share
  BY <1>2, <1>3, <1>4 DEF Share, ShareWell
<1>6. cw = Const(0, n)
  BY <1>4 DEF Const
<1>7. cw \in Vec(n) /\ Sum(cw, n) = 0
  <2>1. Const(0, n) \in Vec(n) /\ Sum(Const(0, n), n) = n * 0
    BY SumConst
  <2> QED BY <1>6, <2>1
<1>8. Total \in Nat /\ \A p \in 0..n - 1 : Owed(p) \in Int
  BY <1>2, <1>3 DEF ShareWell
<1>9. \A p \in 0..n - 1 : cw[p] = calls * Owed(p) - Total * count[p]
  BY <1>4, <1>8
<1>10. \A p \in 0..n - 1 : -Total <= cw[p] /\ (Total > 0 => -Total < cw[p])
  BY <1>4, <1>8
<1>11. ASSUME NEW m, IsMost(m, n, Total) PROVE Bounded(cw, m, n)
  <2> SUFFICES ASSUME NEW a \in Selections(n), Sum(a, n) >= 1
               PROVE  Sum(Mul(a, cw, n), n) <= m[n - Sum(a, n)]
    BY DEF Bounded
  <2>1. /\ Mul(a, cw, n) \in Vec(n)
        /\ \A i \in 0..n - 1 : Mul(a, cw, n)[i] = IF a[i] = 0 THEN 0 ELSE cw[i]
    BY <1>7, MulVec
  <2>2. \A i \in 0..n - 1 : cw[i] = 0
    BY <1>4
  <2>3. Mul(a, cw, n) = cw
    BY <1>7, <2>1, <2>2, VecEqual
  <2>4. n - Sum(a, n) \in 0..n - 1
    BY SelectionSize
  <2>5. m[n - Sum(a, n)] \in Nat
    BY <1>11, <2>4 DEF IsMost
  <2> QED BY <1>7, <2>3, <2>5
<1> QED BY <1>3, <1>4, <1>5, <1>7, <1>9, <1>10, <1>11 DEF ShareInv

\* A call of next keeps it: nothing wraps, so the numbers are the exact ones.
LEMMA NextShare ==
    ASSUME TypeInv, ShareInv, Premise, NEW p \in Nodes, NextNode(p),
           UNCHANGED <<entries, strategy>>
    PROVE  ShareInv'
<1>1. ShareWell
  BY EntriesText, TotalShare DEF Premise, TypeInv
<1>2. PICK n \in Nat \ {0} : n = Len(Parsed) /\ n > 1
  BY <1>1 DEF ShareWell, Premise
<1>3. PICK T \in Nat : T = Total
  BY <1>1 DEF ShareWell
<1>4. /\ Parsed' = Parsed /\ Share' = Share /\ Total' = Total
      /\ \A q : Owed(q)' = Owed(q)
  BY DEF Parsed, Share, Total, Owed, Written, Sum
<1>5. Nodes = 0..n - 1 /\ Cardinality(Nodes) = n /\ n \in Nat
  <2>1. Nodes = 0..n - 1
    BY <1>2 DEF TypeInv, NodesInv, Tokens, Premise
  <2> QED BY <2>1, FS_Interval
<1>6. /\ calls \in Nat /\ count \in [0..n - 1 -> Nat] /\ cw \in Vec(n)
      /\ ew = Share /\ weight = Share
  <2>1. cw \in [0..n - 1 -> -Half..Half - 1]
    BY <1>5 DEF TypeInv, TypeOK
  <2>2. cw \in Vec(n)
    BY <2>1, HalfAssumption DEF Vec
  <2>3. calls \in Nat
    BY CallsAssumption DEF TypeInv, TypeOK
  <2>4. count \in [0..n - 1 -> Nat]
    <3>1. count \in [Nodes -> 0..MaxCalls]
      BY DEF TypeInv, TypeOK
    <3>2. 0..MaxCalls \subseteq Nat
      BY CallsAssumption
    <3> QED BY <1>5, <3>1, <3>2
  <2> QED BY <2>2, <2>3, <2>4 DEF ShareInv
<1>7. /\ \A q \in 0..n - 1 : cw[q] = calls * Owed(q) - T * count[q]
      /\ Sum(cw, n) = 0
      /\ \A q \in 0..n - 1 : -T <= cw[q] /\ (T > 0 => -T < cw[q])
      /\ \A m : IsMost(m, n, T) => Bounded(cw, m, n)
  BY <1>2, <1>3 DEF ShareInv
<1>8. /\ Share \in Vec(n) /\ Leq(Const(0, n), Share, n) /\ T = Sum(Share, n)
      /\ \A q \in 0..n - 1 : Share[q] = Owed(q) /\ Owed(q) \in 0..MaxWeight
  BY <1>1, <1>2, <1>3 DEF ShareWell, Share
<1>9. PICK M : IsMost(M, n, T) /\ Lead = M[n - 1]
  <2>1. n = Cardinality(Written) /\ Total \in Nat
    BY <1>1, <1>2 DEF ShareWell
  <2> QED BY <1>2, <1>3, <2>1, LeadMost
<1>10. T < Half /\ Lead + MaxWeight < Half /\ Lead \in Nat
  <2>1. M[n - 1] \in Nat
    BY <1>9 DEF IsMost
  <2> QED BY <1>3, <1>9, <2>1 DEF Premise, Fits
<1> DEFINE r == Plus(cw, Share, n)
           d == Bump(r, p, 0 - T, n)
<1>11. /\ r \in Vec(n)
       /\ \A q \in 0..n - 1 : r[q] = cw[q] + Owed(q) /\ -Half <= r[q] /\ r[q] < Half
  <2>1. r \in Vec(n)
    BY <1>6, <1>8, SumPlus
  <2>2. ASSUME NEW q \in 0..n - 1
        PROVE  r[q] = cw[q] + Owed(q) /\ -Half <= r[q] /\ r[q] < Half
    <3>1. r[q] = cw[q] + Owed(q)
      BY <1>8 DEF Plus
    <3>2. cw[q] <= Lead
      BY <1>6, <1>7, <1>9, Single
    <3>3. cw[q] \in Int
      BY <1>6 DEF Vec
    <3>4. -T <= cw[q]
      BY <1>7
    <3>5. Owed(q) \in 0..MaxWeight
      BY <1>8
    <3>6. Owed(q) \in Nat /\ Owed(q) <= MaxWeight
      BY <3>5, WeightAssumption
    <3> QED BY <1>10, <3>1, <3>2, <3>3, <3>4, <3>6, HalfAssumption, WeightAssumption
  <2> QED BY <2>1, <2>2
<1>12. Raised = r
  <2>1. \A q \in 0..n - 1 : cw[q] + ew[q] = r[q] /\ r[q] \in Int
    BY <1>6, <1>8, <1>11 DEF Vec
  <2>2. \A q \in 0..n - 1 : Wrap(r[q]) = r[q]
    BY <1>11, <2>1, WrapExact
  <2>3. Raised = [q \in 0..n - 1 |-> r[q]]
    BY <1>5, <2>1, <2>2 DEF Raised
  <2> QED BY <1>11, <2>3 DEF Vec
<1> HIDE DEF r
<1>13. p \in 0..n - 1 /\ \A q \in 0..n - 1 : r[q] <= r[p]
  <2>1. \A q \in 0..n - 1 : r[q] <= Half
    BY <1>11, HalfAssumption DEF Vec
  <2>2. \E b \in 0..n - 1 : /\ \A q \in 0..n - 1 : r[q] <= r[b]
                            /\ \A q \in 0..n - 1 : q < b => r[q] < r[b]
    <3>1. r \in [0..n - 1 -> Int] /\ Half \in Int
      BY <1>11, HalfAssumption DEF Vec
    <3> QED BY <2>1, <3>1, FirstLargest
  <2>3. p = Best(r)
    BY <1>12 DEF NextNode
  <2> QED BY <1>5, <2>2, <2>3 DEF Best
<1>14. Leq(r, Const(r[p], n), n)
  BY <1>13 DEF Leq, Const
<1>15. /\ d \in Vec(n) /\ Sum(d, n) = 0 /\ r[p] >= 0 /\ (T > 0 => r[p] > 0)
       /\ \A m : IsMost(m, n, T) => Bounded(d, m, n)
  <2>1. ASSUME NEW m, IsMost(m, n, T)
        PROVE  /\ d \in Vec(n) /\ Sum(d, n) = 0 /\ r[p] >= 0 /\ (T > 0 => r[p] > 0)
               /\ Bounded(d, m, n)
    <3>1. Bounded(cw, m, n)
      BY <1>7, <2>1
    <3>2. r = Plus(cw, Share, n) /\ Sum(cw, n) = 0
      BY <1>7 DEF r
    <3> QED BY <1>6, <1>8, <1>13, <1>14, <2>1, <3>1, <3>2, Turn
  <2> QED BY <1>9, <2>1
<1>16. \A q \in 0..n - 1 : d[q] = IF q = p THEN r[q] - T ELSE r[q]
  BY <1>11 DEF Bump, Vec
<1> HIDE DEF d
<1>17. cw' = d
  <2>1. Debit(p) = T
    <3>1. Wrap(T) = T
      BY <1>10, HalfAssumption, WrapExact
    <3> QED BY <1>5, <1>6, <1>8, <3>1 DEF Debit
  <2>2. Wrap(r[p] - T) = r[p] - T
    <3>1. r[p] \in Int /\ r[p] < Half
      BY <1>11, <1>13 DEF Vec
    <3>2. r[p] - T \in Int /\ -Half <= r[p] - T /\ r[p] - T < Half
      BY <1>10, <1>15, <3>1, HalfAssumption
    <3> QED BY <3>2, WrapExact
  <2>3. cw' = [r EXCEPT ![p] = r[p] - T]
    BY <1>12, <2>1, <2>2 DEF NextNode
  <2>4. cw' = [q \in 0..n - 1 |-> IF q = p THEN r[q] - T ELSE r[q]]
    BY <1>11, <2>3 DEF Vec
  <2>5. cw' = [q \in 0..n - 1 |-> d[q]]
    BY <1>16, <2>4
  <2> QED BY <1>15, <2>5 DEF Vec
<1>18. /\ calls' = calls + 1 /\ weight' = Share
       /\ \A q \in 0..n - 1 : count'[q] = IF q = p THEN count[q] + 1 ELSE count[q]
  BY <1>6, <1>13 DEF NextNode
<1>19. ew' = Share
  <2>1. ew' = [q \in Nodes |-> Recovered(q)]
    BY DEF NextNode
  <2>2. \A q \in 0..n - 1 : Recovered(q) = Share[q]
    BY <1>6, <1>8, WeightAssumption DEF Recovered
  <2>3. Share = [q \in 0..n - 1 |-> Share[q]]
    BY <1>8 DEF Vec
  <2> QED BY <1>5, <2>1, <2>2, <2>3
<1>20. ASSUME NEW q \in 0..n - 1
       PROVE  cw'[q] = calls' * Owed(q) - T * count'[q]
  <2>1. calls \in Nat /\ count[q] \in Nat /\ Owed(q) \in Nat
    BY <1>6, <1>8
  <2>2. \A x, y \in Nat : (x + 1) * y = x * y + y /\ y * (x + 1) = y * x + y
    OBVIOUS
  <2>3. /\ calls * Owed(q) \in Int /\ T * count[q] \in Int
        /\ (calls + 1) * Owed(q) = calls * Owed(q) + Owed(q)
        /\ T * (count[q] + 1) = T * count[q] + T
    BY <2>1, <2>2
  <2>4. r[q] = calls * Owed(q) - T * count[q] + Owed(q)
    BY <1>7, <1>11
  <2>5. cw'[q] = IF q = p THEN r[q] - T ELSE r[q]
    BY <1>16, <1>17
  <2>6. calls' = calls + 1 /\ count'[q] = IF q = p THEN count[q] + 1 ELSE count[q]
    BY <1>18
  <2>7. CASE q = p
    BY <2>1, <2>3, <2>4, <2>5, <2>6, <2>7
  <2>8. CASE q # p
    BY <2>1, <2>3, <2>4, <2>5, <2>6, <2>8
  <2> QED BY <2>7, <2>8
<1>21. ASSUME NEW q \in 0..n - 1
       PROVE  -T <= cw'[q] /\ (T > 0 => -T < cw'[q])
  <2>1. cw'[q] = IF q = p THEN r[q] - T ELSE r[q]
    BY <1>16, <1>17
  <2>2. r[q] = cw[q] + Owed(q) /\ cw[q] \in Int /\ Owed(q) \in Nat /\ r[q] \in Int
    BY <1>6, <1>8, <1>11 DEF Vec
  <2>3. -T <= cw[q] /\ (T > 0 => -T < cw[q])
    BY <1>7
  <2>4. CASE q = p
    BY <1>15, <2>1, <2>2, <2>4
  <2>5. CASE q # p
    BY <2>1, <2>2, <2>3, <2>5
  <2> QED BY <2>4, <2>5
<1>22. Sum(cw, Len(Parsed))' = Sum(cw', n)
  BY <1>2, <1>4 DEF Sum
<1>23. \A m : /\ IsMost(m, Len(Parsed), Total)' <=> IsMost(m, n, T)
              /\ Bounded(cw, m, Len(Parsed))' <=> Bounded(cw', m, n)
  BY <1>2, <1>3, <1>4 DEF IsMost, Bounded, Selections, Mul, Sum
<1>24. \A q \in 0..n - 1 : Owed(q)' = Owed(q)
  BY <1>4
<1>25. Len(Parsed)' = n /\ Total' = T
  BY <1>2, <1>3, <1>4
<1> QED BY <1>4, <1>15, <1>17, <1>18, <1>19, <1>20, <1>21, <1>22, <1>23, <1>24, <1>25 DEF ShareInv

\* Nothing else touches the nodes.
LEMMA ShareKept == TypeInv /\ ShareInv /\ [Next]_vars => ShareInv'
<1> SUFFICES ASSUME TypeInv, ShareInv, [Next]_vars PROVE ShareInv'
  OBVIOUS
<1>1. UNCHANGED <<entries, strategy>>
  BY DEF Next, vars
<1>2. Premise' = Premise
  BY <1>1 DEF Premise, JunkIsLast, Written, Fits, Lead, Total, Sum, Owed
<1>3. CASE ~Premise
  BY <1>2, <1>3 DEF ShareInv
<1>4. CASE Premise /\ UNCHANGED rrVars
  <2>1. /\ Parsed' = Parsed /\ Share' = Share /\ Total' = Total
        /\ \A q : Owed(q)' = Owed(q)
    BY <1>1 DEF Parsed, Share, Total, Owed, Written, Sum
  <2>2. Sum(cw, Len(Parsed))' = Sum(cw, Len(Parsed))
    BY <1>4, <2>1 DEF Sum, rrVars
  <2>3. \A m : /\ IsMost(m, Len(Parsed), Total)' <=> IsMost(m, Len(Parsed), Total)
               /\ Bounded(cw, m, Len(Parsed))' <=> Bounded(cw, m, Len(Parsed))
    BY <1>4, <2>1 DEF IsMost, Bounded, Selections, Mul, Sum, rrVars
  <2> QED BY <1>4, <2>1, <2>2, <2>3 DEF ShareInv, rrVars
<1>5. CASE Premise /\ NextRoundRobin
  <2>1. PICK p \in Nodes : NextNode(p)
    BY <1>5 DEF NextRoundRobin
  <2> QED BY <1>1, <1>5, <2>1, NextShare
<1> QED BY <1>3, <1>4, <1>5 DEF Next, NextOnly, NextIpHash, vars

\* Where the weights fit, no addition of next wraps and every remote is credited
\* with its weight: for any weights and any number of calls no peer is a whole
\* turn behind its share nor more than Lead ahead of it, and each round of as
\* many calls as the total serves every peer exactly (RoundRobin::next).
THEOREM SharesExact == Spec => []ExactCredit
<1>1. TypeInv /\ ShareInv => ExactCredit
  <2> SUFFICES ASSUME TypeInv, ShareInv, Premise
               PROVE  /\ Nodes = Written
                      /\ \A p \in Written :
                          /\ cw[p] = calls * Owed(p) - Total * count[p]
                          /\ Total > 0 => -Total < cw[p] /\ cw[p] <= Lead
                          /\ Total > 0 /\ calls % Total = 0 =>
                                 count[p] * Total = calls * Owed(p)
    BY DEF ExactCredit, Premise
  <2>1. ShareWell
    BY EntriesText, TotalShare DEF Premise, TypeInv
  <2>2. PICK n \in Nat \ {0} : n = Len(Parsed) /\ n > 1
    BY <2>1 DEF ShareWell, Premise
  <2>3. PICK T \in Nat : T = Total
    BY <2>1 DEF ShareWell
  <2>4. Nodes = Written /\ Written = 0..n - 1 /\ n \in Nat
    BY <2>1, <2>2 DEF TypeInv, NodesInv, Tokens, Premise, ShareWell
  <2>5. calls \in Nat /\ cw \in Vec(n) /\ \A q \in 0..n - 1 : count[q] \in Nat
    <3>1. cw \in [0..n - 1 -> -Half..Half - 1] /\ count \in [0..n - 1 -> 0..MaxCalls]
      BY <2>4 DEF TypeInv, TypeOK
    <3> QED BY <3>1, HalfAssumption, CallsAssumption DEF TypeInv, TypeOK, Vec
  <2>6. /\ \A q \in 0..n - 1 : cw[q] = calls * Owed(q) - T * count[q]
        /\ Sum(cw, n) = 0
        /\ \A q \in 0..n - 1 : -T <= cw[q] /\ (T > 0 => -T < cw[q])
        /\ \A m : IsMost(m, n, T) => Bounded(cw, m, n)
    BY <2>2, <2>3 DEF ShareInv
  <2>7. \A q \in 0..n - 1 : Owed(q) \in Nat
    BY <2>1, <2>2 DEF ShareWell
  <2>8. \A q \in 0..n - 1 : cw[q] <= Lead
    <3>1. n = Cardinality(Written) /\ Total \in Nat
      BY <2>1, <2>2 DEF ShareWell
    <3>2. PICK m : IsMost(m, n, T) /\ Lead = m[n - 1]
      BY <2>2, <2>3, <3>1, LeadMost
    <3> QED BY <2>5, <2>6, <3>2, Single
  <2>9. ASSUME T > 0, calls % T = 0, NEW p \in 0..n - 1
        PROVE  count[p] * T = calls * Owed(p)
    <3>1. PICK k \in Nat : calls = k * T
      <4>1. PICK j \in Int : calls = T * j
        BY <2>5, <2>9, Divides
      <4>2. \A x \in Int : T * x = x * T /\ (x < 0 => x * T < 0)
        BY <2>9
      <4>3. calls = j * T /\ ~(j < 0)
        BY <2>5, <4>1, <4>2
      <4> QED BY <4>3
    <3>2. ASSUME NEW q \in 0..n - 1 PROVE 0 <= cw[q]
      <4> DEFINE z == k * Owed(q) - count[q]
      <4>1. Owed(q) \in Nat /\ count[q] \in Nat
        BY <2>5, <2>7
      <4>2. z \in Int
        BY <4>1
      <4>3. \A o, c \in Nat : (k * T) * o - T * c = T * (k * o - c)
        OBVIOUS
      <4>4. cw[q] = T * z
        BY <2>6, <3>1, <4>1, <4>3
      <4>5. -T < T * z
        BY <2>6, <2>9, <4>4
      <4> HIDE DEF z
      <4>6. z >= 0
        <5>1. \A x \in Int : x <= -1 => T * x <= -T
          OBVIOUS
        <5> QED BY <4>2, <4>5, <5>1
      <4>7. T * z >= 0
        BY <4>2, <4>6
      <4> QED BY <4>4, <4>7
    <3>3. Leq(Const(0, n), cw, n)
      BY <3>2 DEF Leq, Const
    <3>4. cw[p] = 0
      BY <2>4, <2>5, <2>6, <3>3, SumZero
    <3>5. calls * Owed(p) \in Int /\ T * count[p] \in Int /\ T * count[p] = count[p] * T
      BY <2>5, <2>7
    <3>6. cw[p] = calls * Owed(p) - T * count[p]
      BY <2>6
    <3> QED BY <3>4, <3>5, <3>6
  <2> QED BY <2>3, <2>4, <2>6, <2>8, <2>9
<1>2. Init => TypeInv /\ TokensNameRemotes /\ ShareInv
  BY InitType, InitShare
<1>3. TypeInv /\ TokensNameRemotes /\ ShareInv /\ [Next]_vars
          => TypeInv' /\ TokensNameRemotes' /\ ShareInv'
  BY NextType, ShareKept
<1> QED BY <1>1, <1>2, <1>3, PTL DEF Spec

=============================================================================
