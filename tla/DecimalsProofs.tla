--------------------------- MODULE DecimalsProofs ---------------------------
(***************************************************************************)
(* What can be said of Decimals at any precision.                          *)
(*                                                                         *)
(* The powers of ten, the digits of a number and the sum of a function are *)
(* defined by recursion.  That there are such functions, and what holds of *)
(* all their values, follows from the least element of a set of numbers    *)
(* (Induction, Recursion).                                                 *)
(*                                                                         *)
(* Then: rounded results are in the order of what was rounded, although    *)
(* their exponents may differ (OverInOrder); and every operation is off by *)
(* no more than half a unit of the last digit, one of 2 * 10^(Precision -  *)
(* 1) parts (OperationsAreNear), so that what a computation is off can be  *)
(* counted.                                                                *)
(***************************************************************************)
EXTENDS Decimals, FiniteSetTheorems, WellFoundedInduction, Functions, TLAPS

-----------------------------------------------------------------------------
(* Induction.                                                              *)

\* A set of numbers has a least element.
LEMMA LeastElement ==
    ASSUME NEW S \in SUBSET Nat, S # {}
    PROVE  \E m \in S : \A n \in S : m <= n
<1>1. PICK m \in S : \A n \in S : <<n, m>> \notin OpToRel(<, Nat)
  BY WFMin, NatLessThanWellFounded, Zenon
<1>2. \A n \in S : ~(n < m)
  BY <1>1, Zenon DEF OpToRel
<1>3. QED
  BY <1>2

\* Induction, for a set: what is true of n if it is true of all smaller
\* numbers is true of all.
LEMMA Induction ==
    ASSUME NEW S, \A n \in Nat : (\A m \in 0..(n - 1) : m \in S) => n \in S
    PROVE  Nat \subseteq S
<1> SUFFICES ASSUME Nat \ S # {} PROVE FALSE
  OBVIOUS
<1>1. PICK m \in Nat \ S : \A n \in Nat \ S : m <= n
  <2>1. Nat \ S \in SUBSET Nat
    OBVIOUS
  <2>2. QED
    BY <2>1, LeastElement
<1>2. QED
  BY <1>1

\* f at n is computed from f at P[n], which is smaller than n.
Decreasing(P) == P \in [Nat -> Nat] /\ \A n \in Nat \ {0} : P[n] < n

Computes(f, V, a, G, P) ==
    /\ f \in [Nat -> V]
    /\ \A n \in Nat : f[n] = IF n = 0 THEN a ELSE G[f[P[n]]]

\* There is such a function.
LEMMA Recursion ==
    ASSUME NEW V, NEW a, NEW G, NEW P,
           a \in V, G \in [V -> V], Decreasing(P)
    PROVE  \E f : Computes(f, V, a, G, P)
<1> USE DEF Decreasing
<1> DEFINE Upto(n, f) ==
              /\ f \in [0..n -> V]
              /\ \A m \in 0..n : f[m] = IF m = 0 THEN a ELSE G[f[P[m]]]
           E == {n \in Nat : \E f : Upto(n, f)}
<1>1. ASSUME NEW n \in Nat, \A m \in 0..(n - 1) : m \in E PROVE n \in E
  <2>1. CASE n = 0
    <3>1. Upto(0, [m \in 0..0 |-> a])
      OBVIOUS
    <3>2. QED
      BY <2>1, <3>1
  <2>2. CASE n # 0
    <3>1. PICK f : Upto(n - 1, f)
      <4>1. n - 1 \in 0..(n - 1)
        BY <2>2
      <4>2. n - 1 \in E
        BY <1>1, <4>1
      <4>3. QED
        BY <4>2
    <3> DEFINE g == [m \in 0..n |-> IF m = n THEN G[f[P[n]]] ELSE f[m]]
    <3>2. P[n] \in 0..(n - 1)
      BY <2>2
    <3>3. g \in [0..n -> V]
      <4>1. f[P[n]] \in V /\ \A m \in 0..n : m # n => f[m] \in V
        BY <3>1, <3>2
      <4>2. QED
        BY <4>1
    <3>4. ASSUME NEW m \in 0..n
          PROVE  g[m] = IF m = 0 THEN a ELSE G[g[P[m]]]
      <4>1. m # 0 => P[m] \in 0..n /\ P[m] # n /\ P[m] < m
        OBVIOUS
      <4>2. m # 0 => g[P[m]] = f[P[m]]
        BY <4>1
      <4>3. CASE m = n
        BY <2>2, <4>2, <4>3
      <4>4. CASE m # n
        <5>1. m \in 0..(n - 1)
          BY <4>4
        <5>2. g[m] = f[m]
          BY <4>4
        <5>3. f[m] = IF m = 0 THEN a ELSE G[f[P[m]]]
          BY <3>1, <5>1
        <5>4. QED
          BY <4>2, <5>2, <5>3
      <4>5. QED
        BY <4>3, <4>4
    <3> HIDE DEF g
    <3>5. QED
      BY <3>3, <3>4
  <2>3. QED
    BY <2>1, <2>2
<1>2. Nat \subseteq E
  <2> HIDE DEF E
  <2>1. QED
    BY <1>1, Induction
<1> DEFINE p == [n \in Nat |-> CHOOSE f : Upto(n, f)]
<1>3. \A n \in Nat : Upto(n, p[n])
  BY <1>2
<1> HIDE DEF p
<1>4. \A n \in Nat : p[n] \in [0..n -> V]
  BY <1>3
<1>5. ASSUME NEW n \in Nat, NEW m \in 0..n
      PROVE  p[n][m] = IF m = 0 THEN a ELSE G[p[n][P[m]]]
  BY <1>3
<1>6. ASSUME NEW n \in Nat, NEW m \in Nat
      PROVE  \A k \in 0..n : k <= m => p[n][k] = p[m][k]
  <2> DEFINE S == {k \in Nat : k <= n /\ k <= m => p[n][k] = p[m][k]}
  <2>1. ASSUME NEW k \in Nat, \A j \in 0..(k - 1) : j \in S PROVE k \in S
    <3> SUFFICES ASSUME k <= n, k <= m PROVE p[n][k] = p[m][k]
      OBVIOUS
    <3>1. /\ p[n][k] = IF k = 0 THEN a ELSE G[p[n][P[k]]]
          /\ p[m][k] = IF k = 0 THEN a ELSE G[p[m][P[k]]]
      BY <1>5
    <3>2. k # 0 => P[k] \in 0..(k - 1)
      OBVIOUS
    <3>3. k # 0 => p[n][P[k]] = p[m][P[k]]
      BY <2>1, <3>2
    <3>4. QED
      BY <3>1, <3>3
  <2>2. Nat \subseteq S
    <3> HIDE DEF S
    <3>1. QED
      BY <2>1, Induction
  <2>3. QED
    BY <2>2
<1> DEFINE t == [n \in Nat |-> p[n][n]]
<1>7. t \in [Nat -> V]
  BY <1>4
<1>8. ASSUME NEW n \in Nat PROVE t[n] = IF n = 0 THEN a ELSE G[t[P[n]]]
  <2>1. p[n][n] = IF n = 0 THEN a ELSE G[p[n][P[n]]]
    BY <1>5
  <2>2. n # 0 => P[n] \in 0..n /\ P[n] \in 0..P[n]
    OBVIOUS
  <2>3. n # 0 => p[n][P[n]] = p[P[n]][P[n]]
    BY <1>6, <2>2
  <2>4. QED
    BY <2>1, <2>3
<1>9. QED
  BY <1>7, <1>8 DEF Computes

\* A sum over a finite set, taken apart.
LEMMA Sums ==
    ASSUME NEW S, IsFiniteSet(S), NEW f \in [S -> Nat]
    PROVE  SumFunction(f) \in Nat
<1> DEFINE Some(s) == CHOOSE x \in s : TRUE
           Def(g, D) == [s \in D |-> IF s = {} THEN 0
                                     ELSE f[Some(s)] + g[s \ {Some(s)}]]
           D(n) == {s \in SUBSET S : Cardinality(s) <= n}
           E == {n \in Nat : \E g : g = Def(g, D(n))}
<1>1. SumFunction(f) = (CHOOSE g : g = Def(g, SUBSET S))[S]
  BY Zenon DEF SumFunction, SumFunctionOnSet, FoldFunctionOnSet, MapThenFoldSet
<1>2. \A s \in SUBSET S : s # {} =>
         /\ Some(s) \in s
         /\ s \ {Some(s)} \in SUBSET S
         /\ Cardinality(s) \in Nat
         /\ Cardinality(s \ {Some(s)}) = Cardinality(s) - 1
  BY FS_RemoveElement, FS_Subset, FS_CardinalityType
<1> HIDE DEF Some
<1>3. D(0) = {{}}
  <2>1. ASSUME NEW s \in SUBSET S, Cardinality(s) <= 0 PROVE s = {}
    <3>1. IsFiniteSet(s)
      BY FS_Subset
    <3>2. Cardinality(s) = 0
      BY <2>1, <3>1, FS_CardinalityType
    <3>3. QED
      BY <3>1, <3>2, FS_EmptySet
  <2>2. {} \in SUBSET S /\ Cardinality({}) = 0
    BY FS_EmptySet
  <2>3. QED
    BY <2>1, <2>2
<1>4. 0 \in E
  <2> DEFINE g == [s \in {{}} |-> 0]
  <2>1. g = Def(g, {{}})
    OBVIOUS
  <2>2. QED
    BY <1>3, <2>1
<1>5. ASSUME NEW n \in E PROVE n + 1 \in E
  <2>1. PICK g : g = Def(g, D(n))
    OBVIOUS
  <2> DEFINE h == [s \in D(n + 1) |->
                     IF Cardinality(s) <= n THEN g[s]
                     ELSE f[Some(s)] + g[s \ {Some(s)}]]
  <2>2. ASSUME NEW s \in D(n + 1), s # {}
        PROVE  s \ {Some(s)} \in D(n) /\ h[s] = f[Some(s)] + h[s \ {Some(s)}]
    <3>1. /\ Cardinality(s) \in Nat
          /\ Cardinality(s \ {Some(s)}) = Cardinality(s) - 1
          /\ s \ {Some(s)} \in SUBSET S
          /\ Cardinality(s) <= n + 1
      BY <1>2, <2>2
    <3>2. /\ s \ {Some(s)} \in D(n)
          /\ s \ {Some(s)} \in D(n + 1)
      BY <3>1
    <3>3. h[s \ {Some(s)}] = g[s \ {Some(s)}]
      BY <3>2
    <3>4. CASE s \in D(n)
      <4>1. h[s] = g[s]
        BY <3>1, <3>4
      <4>2. g[s] = f[Some(s)] + g[s \ {Some(s)}]
        BY <2>1, <2>2, <3>4
      <4>3. QED
        BY <3>2, <3>3, <4>1, <4>2
    <3>5. CASE s \notin D(n)
      <4>1. h[s] = f[Some(s)] + g[s \ {Some(s)}]
        BY <3>1, <3>5
      <4>2. QED
        BY <3>2, <3>3, <4>1
    <3>6. QED
      BY <3>4, <3>5
  <2>3. {} \in D(n + 1) => h[{}] = 0
    <3>1. {} \in D(n)
      BY FS_EmptySet
    <3>2. QED
      BY <2>1, <3>1
  <2>4. h = [s \in D(n + 1) |-> h[s]]
    OBVIOUS
  <2> HIDE DEF h
  <2>5. h = Def(h, D(n + 1))
    BY <2>2, <2>3, <2>4
  <2>6. \E k : k = Def(k, D(n + 1))
    BY <2>5
  <2>7. n + 1 \in Nat
    OBVIOUS
  <2> HIDE DEF Def, D
  <2>8. QED
    BY <2>6, <2>7
<1>6. Nat \subseteq E
  <2> HIDE DEF E
  <2>1. ASSUME NEW n \in Nat, \A m \in 0..(n - 1) : m \in E PROVE n \in E
    <3>1. CASE n = 0
      BY <1>4, <3>1
    <3>2. CASE n # 0
      <4>1. n - 1 \in E
        BY <2>1, <3>2
      <4>2. (n - 1) + 1 \in E
        BY <1>5, <4>1
      <4>3. QED
        BY <4>2
    <3>3. QED
      BY <3>1, <3>2
  <2>2. QED
    BY <2>1, Induction
<1>7. \E g : g = Def(g, SUBSET S)
  <2>1. D(Cardinality(S)) = SUBSET S /\ Cardinality(S) \in Nat
    BY FS_Subset, FS_CardinalityType
  <2>2. QED
    BY <1>6, <2>1
<1> DEFINE iter == CHOOSE g : g = Def(g, SUBSET S)
<1>8. iter = Def(iter, SUBSET S)
  BY <1>7
<1>9. SumFunction(f) = iter[S]
  BY <1>1
<1> HIDE DEF iter
<1> DEFINE F == {n \in Nat : \A s \in D(n) : iter[s] \in Nat}
<1>10. ASSUME NEW n \in Nat, \A m \in 0..(n - 1) : m \in F PROVE n \in F
  <2>1. ASSUME NEW s \in D(n), s # {} PROVE iter[s] \in Nat
    <3>1. /\ Some(s) \in s /\ s \ {Some(s)} \in SUBSET S
          /\ Cardinality(s) \in Nat /\ Cardinality(s) <= n
          /\ Cardinality(s \ {Some(s)}) = Cardinality(s) - 1
          /\ Cardinality(s \ {Some(s)}) \in Nat
      BY <1>2, <2>1, FS_Subset, FS_CardinalityType
    <3>2. n - 1 \in F
      BY <1>10, <3>1
    <3>3. iter[s \ {Some(s)}] \in Nat
      BY <3>1, <3>2
    <3>4. f[Some(s)] \in Nat
      BY <3>1
    <3>5. iter[s] = f[Some(s)] + iter[s \ {Some(s)}]
      BY <1>8, <2>1
    <3>6. QED
      BY <3>3, <3>4, <3>5
  <2>2. iter[{}] = 0
    BY <1>8
  <2>3. ASSUME NEW s \in D(n) PROVE iter[s] \in Nat
    BY <2>1, <2>2
  <2> HIDE DEF D
  <2>4. QED
    BY <2>3
<1>11. Nat \subseteq F
  <2> HIDE DEF F
  <2>1. QED
    BY <1>10, Induction
<1>12. Cardinality(S) \in Nat /\ S \in D(Cardinality(S))
  BY FS_CardinalityType
<1>13. QED
  BY <1>9, <1>11, <1>12

-----------------------------------------------------------------------------
(* Powers of ten, and digits.                                              *)

\* The powers of ten.
LEMMA TenDef ==
    \A k \in Nat : Ten[k] = IF k = 0 THEN 1 ELSE 10 * Ten[k - 1]
<1> DEFINE G == [v \in Nat |-> 10 * v]
           P == [n \in Nat |-> IF n = 0 THEN 0 ELSE n - 1]
           Is(f) == f = [k \in Nat |-> IF k = 0 THEN 1 ELSE 10 * f[k - 1]]
<1>1. \E f : Is(f)
  <2>1. 1 \in Nat /\ G \in [Nat -> Nat] /\ Decreasing(P)
    BY DEF Decreasing
  <2> HIDE DEF G, P
  <2>2. PICK f : Computes(f, Nat, 1, G, P)
    BY <2>1, Recursion, Zenon
  <2>3. ASSUME NEW n \in Nat
        PROVE  f[n] = IF n = 0 THEN 1 ELSE 10 * f[n - 1]
    <3>1. n # 0 => P[n] = n - 1 /\ G[f[n - 1]] = 10 * f[n - 1]
      BY <2>2 DEF G, P, Computes
    <3>2. QED
      BY <2>2, <3>1 DEF Computes
  <2>4. f = [n \in Nat |-> f[n]]
    BY <2>2 DEF Computes
  <2>5. QED
    BY <2>3, <2>4
<1>2. Ten = CHOOSE f : Is(f)
  BY DEF Ten
<1> HIDE DEF Is
<1>3. Is(Ten)
  BY <1>1, <1>2
<1>4. QED
  BY <1>3 DEF Is

\* The number of digits.
LEMMA SizeDef ==
    \A n \in Nat : Size[n] = IF n = 0 THEN 0 ELSE 1 + Size[n \div 10]
<1> DEFINE G == [v \in Nat |-> 1 + v]
           P == [n \in Nat |-> n \div 10]
           Is(f) == f = [n \in Nat |-> IF n = 0 THEN 0
                                       ELSE 1 + f[n \div 10]]
<1>1. \E f : Is(f)
  <2>1. 0 \in Nat /\ G \in [Nat -> Nat] /\ Decreasing(P)
    BY DEF Decreasing
  <2> HIDE DEF G, P
  <2>2. PICK f : Computes(f, Nat, 0, G, P)
    BY <2>1, Recursion, Zenon
  <2>3. ASSUME NEW n \in Nat
        PROVE  f[n] = IF n = 0 THEN 0 ELSE 1 + f[n \div 10]
    <3>1. P[n] = n \div 10 /\ G[f[n \div 10]] = 1 + f[n \div 10]
      BY <2>2 DEF G, P, Computes
    <3>2. QED
      BY <2>2, <3>1 DEF Computes
  <2>4. f = [n \in Nat |-> f[n]]
    BY <2>2 DEF Computes
  <2>5. QED
    BY <2>3, <2>4
<1>2. Size = CHOOSE f : Is(f)
  BY DEF Size
<1> HIDE DEF Is
<1>3. Is(Size)
  BY <1>1, <1>2
<1>4. QED
  BY <1>3 DEF Is

\* Powers of ten are positive numbers, and all but the first are even.
LEMMA TenType ==
    /\ \A k \in Nat : Ten[k] \in Nat \ {0}
    /\ Ten[0] = 1
    /\ \A k \in Nat : Ten[k + 1] = 10 * Ten[k]
    /\ \A k \in Nat \ {0} : Ten[k] % 2 = 0 /\ Ten[k] = 10 * Ten[k - 1]
<1> DEFINE S == {k \in Nat : Ten[k] \in Nat \ {0}}
<1>1. ASSUME NEW k \in Nat, \A j \in 0..(k - 1) : j \in S PROVE k \in S
  <2>1. k # 0 => Ten[k - 1] \in Nat \ {0}
    BY <1>1
  <2>2. QED
    BY <2>1, TenDef
<1>2. Nat \subseteq S
  <2> HIDE DEF S
  <2>1. QED
    BY <1>1, Induction
<1>3. \A k \in Nat \ {0} : Ten[k - 1] \in Nat /\ Ten[k] = 10 * Ten[k - 1]
  BY <1>2, TenDef
<1>4. ASSUME NEW k \in Nat \ {0} PROVE Ten[k] % 2 = 0
  BY <1>3
<1>5. \A k \in Nat : k + 1 # 0 /\ (k + 1) - 1 = k
  OBVIOUS
<1>6. QED
  BY <1>2, <1>3, <1>4, <1>5, TenDef

\* Exponents are added.
LEMMA TenSum ==
    \A j, k \in Nat : Ten[j + k] = Ten[j] * Ten[k]
<1> SUFFICES ASSUME NEW j \in Nat
             PROVE  \A k \in Nat : Ten[j + k] = Ten[j] * Ten[k]
  OBVIOUS
<1> DEFINE S == {k \in Nat : Ten[j + k] = Ten[j] * Ten[k]}
<1>1. ASSUME NEW k \in Nat, \A i \in 0..(k - 1) : i \in S PROVE k \in S
  <2>1. CASE k = 0
    BY <2>1, TenType
  <2>2. CASE k # 0
    <3>1. Ten[j + (k - 1)] = Ten[j] * Ten[k - 1]
      BY <1>1, <2>2
    <3>2. j + k = (j + (k - 1)) + 1 /\ j + (k - 1) \in Nat
      BY <2>2
    <3>3. Ten[j + k] = 10 * Ten[j + (k - 1)] /\ Ten[k] = 10 * Ten[k - 1]
      BY <2>2, <3>2, TenType
    <3>4. Ten[j] \in Nat /\ Ten[k - 1] \in Nat
      BY <2>2, TenType
    <3>5. QED
      BY <3>1, <3>3, <3>4
  <2>3. QED
    BY <2>1, <2>2
<1>2. Nat \subseteq S
  <2> HIDE DEF S
  <2>1. QED
    BY <1>1, Induction
<1>3. QED
  BY <1>2

\* Factors keep an order.
LEMMA TimesOrder ==
    ASSUME NEW m \in Nat, NEW n \in Nat, NEW f \in Nat, m <= n
    PROVE  m * f <= n * f /\ f * m <= f * n
OBVIOUS

\* Larger exponents, larger powers.
LEMMA TenOrder ==
    \A j, k \in Nat : /\ j <= k => Ten[j] <= Ten[k]
                      /\ j < k => 10 * Ten[j] <= Ten[k]
<1>1. ASSUME NEW j \in Nat, NEW k \in Nat, j <= k PROVE Ten[j] <= Ten[k]
  <2>1. k - j \in Nat /\ j + (k - j) = k
    BY <1>1
  <2>2. Ten[k] = Ten[j] * Ten[k - j]
    BY <2>1, TenSum
  <2>3. Ten[j] \in Nat /\ Ten[k - j] \in Nat /\ 1 <= Ten[k - j]
    BY <2>1, TenType
  <2>4. Ten[j] * 1 <= Ten[j] * Ten[k - j]
    BY <2>3, TimesOrder
  <2>5. QED
    BY <2>2, <2>3, <2>4
<1>2. ASSUME NEW j \in Nat, NEW k \in Nat, j < k PROVE 10 * Ten[j] <= Ten[k]
  BY <1>1, <1>2, TenType
<1>3. QED
  BY <1>1, <1>2

\* A number of s digits is at least the power with s - 1 zeros, and less than
\* the next.
LEMMA SizeBounds ==
    /\ \A n \in Nat : Size[n] \in Nat
    /\ Size[0] = 0
    /\ \A n \in Nat \ {0} : /\ Size[n] # 0
                            /\ Ten[Size[n] - 1] <= n
                            /\ n < Ten[Size[n]]
<1> DEFINE S == {n \in Nat : /\ Size[n] \in Nat
                             /\ n # 0 => /\ Size[n] # 0
                                         /\ Ten[Size[n] - 1] <= n
                                         /\ n < Ten[Size[n]]}
<1>1. ASSUME NEW n \in Nat, \A m \in 0..(n - 1) : m \in S PROVE n \in S
  <2> DEFINE m == n \div 10
  <2>1. CASE n = 0
    BY <2>1, SizeDef
  <2>2. CASE n \in 1..9
    <3>1. n \div 10 = 0 /\ n # 0
      BY <2>2
    <3>2. Size[0] = 0
      BY SizeDef
    <3>3. Size[n] = 1
      BY <3>1, <3>2, SizeDef
    <3>4. Ten[0] = 1 /\ Ten[1] = 10
      BY TenDef
    <3>5. QED
      BY <2>2, <3>3, <3>4
  <2>3. CASE n >= 10
    <3>1. m \in 1..(n - 1) /\ 10 * m <= n /\ n < 10 * m + 10
      BY <2>3
    <3>2. Size[n] = 1 + Size[m]
      BY <2>3, SizeDef
    <3> HIDE DEF m
    <3>3. /\ Size[m] \in Nat /\ Size[m] # 0
          /\ Ten[Size[m] - 1] <= m /\ m < Ten[Size[m]]
      BY <1>1, <3>1
    <3>4. /\ Ten[Size[m]] = 10 * Ten[Size[m] - 1]
          /\ Ten[Size[n]] = 10 * Ten[Size[m]]
          /\ Ten[Size[m]] \in Nat /\ Ten[Size[m] - 1] \in Nat
      BY <3>2, <3>3, TenType
    <3>5. Size[n] - 1 = Size[m] /\ Size[n] \in Nat
      BY <3>2, <3>3
    <3>6. Ten[Size[n] - 1] <= n /\ n < Ten[Size[n]]
      BY <3>1, <3>3, <3>4, <3>5
    <3>7. QED
      BY <3>2, <3>3, <3>5, <3>6
  <2>4. QED
    BY <2>1, <2>2, <2>3
<1>2. Nat \subseteq S
  <2> HIDE DEF S
  <2>1. QED
    BY <1>1, Induction
<1>3. QED
  BY <1>2, SizeDef

\* How many digits follow from the bounds.
LEMMA SizeFits ==
    ASSUME NEW n \in Nat, NEW k \in Nat
    PROVE  /\ n < Ten[k] => Size[n] <= k
           /\ Ten[k] <= n => k < Size[n]
<1>1. ASSUME n < Ten[k], k < Size[n] PROVE FALSE
  <2>1. n # 0 /\ Size[n] \in Nat
    BY <1>1, SizeBounds
  <2>2. Ten[Size[n] - 1] <= n
    BY <2>1, SizeBounds
  <2>3. Size[n] - 1 \in Nat /\ k <= Size[n] - 1
    BY <1>1, <2>1
  <2>4. Ten[k] <= Ten[Size[n] - 1]
    BY <2>3, TenOrder
  <2>5. Ten[k] \in Nat /\ Ten[Size[n] - 1] \in Nat
    BY <2>3, TenType
  <2>6. QED
    BY <1>1, <2>2, <2>4, <2>5
<1>2. ASSUME Ten[k] <= n, Size[n] <= k PROVE FALSE
  <2>1. Ten[k] \in Nat \ {0} /\ Size[n] \in Nat
    BY TenType, SizeBounds
  <2>2. n < Ten[Size[n]]
    BY <1>2, <2>1, SizeBounds
  <2>3. Ten[Size[n]] <= Ten[k] /\ Ten[Size[n]] \in Nat
    BY <1>2, <2>1, TenOrder, TenType
  <2>4. QED
    BY <1>2, <2>1, <2>2, <2>3
<1>3. Size[n] \in Nat
  BY SizeBounds
<1>4. QED
  BY <1>1, <1>2, <1>3

-----------------------------------------------------------------------------
(* Rounding.                                                               *)

\* The digits that are too many.
Dropped(n) == IF Size[n] > Precision THEN Size[n] - Precision ELSE 0

\* c is p / w, rounded to the nearest number, halves to the even one.
Nearest(c, w, p) ==
    /\ 2 * (c * w) <= 2 * p + w
    /\ 2 * p <= 2 * (c * w) + w
    /\ \/ 2 * (c * w) = 2 * p + w
       \/ 2 * p = 2 * (c * w) + w
       => c % 2 = 0

\* There are digits too many if there are more than Precision.
LEMMA DroppedType ==
    \A n \in Nat : /\ Dropped(n) \in Nat
                   /\ Dropped(n) # 0 <=> Size[n] > Precision
BY SizeBounds, PrecisionAssumption DEF Dropped

\* The quotient or its successor, by what is left over.
LEMMA NearestOf ==
    ASSUME NEW q \in Nat, NEW w \in Nat \ {0}, NEW t \in Nat, t < w,
           NEW c \in Nat,
           2 * t > w => c = q + 1,
           2 * t < w => c = q,
           2 * t = w => c = IF q % 2 = 1 THEN q + 1 ELSE q
    PROVE  Nearest(c, w, q * w + t)
<1>1. (q + 1) * w = q * w + w /\ q * w \in Nat
  OBVIOUS
<1>2. q % 2 \in {0, 1} /\ (q % 2 = 1 => (q + 1) % 2 = 0)
  OBVIOUS
<1>3. c * w = IF c = q THEN q * w ELSE q * w + w
  BY <1>1
<1> DEFINE v == q * w
<1> HIDE DEF v
<1>4. /\ v \in Nat
      /\ c * w = IF c = q THEN v ELSE v + w
  BY <1>1, <1>3 DEF v
<1>5. c # q => c = q + 1
  OBVIOUS
<1>6. 2 * t = w => c % 2 = 0
  BY <1>2
<1>7. /\ 2 * (c * w) <= 2 * (v + t) + w
      /\ 2 * (v + t) <= 2 * (c * w) + w
      /\ \/ 2 * (c * w) = 2 * (v + t) + w
         \/ 2 * (v + t) = 2 * (c * w) + w
         => 2 * t = w
  <2>1. CASE c = q
    <3>1. 2 * t <= w
      BY <2>1
    <3>2. QED
      BY <1>4, <2>1, <3>1
  <2>2. CASE c # q
    <3>1. 2 * t >= w
      BY <2>2
    <3>2. QED
      BY <1>4, <2>2, <3>1
  <2>3. QED
    BY <2>1, <2>2
<1>8. QED
  BY <1>6, <1>7 DEF Nearest, v

\* What Rounded computes from n and a remainder s / y.
LEMMA RoundedIs ==
    ASSUME NEW n \in Nat \ {0}, NEW e \in Int, NEW remainder \in BOOLEAN
    PROVE  LET x == Rounded(n, e, remainder)
               d == Dropped(n)
               q == n \div Ten[d]
               r == n % Ten[d]
           IN  /\ x.e = e + d
               /\ x = [c |-> x.c, e |-> x.e]
               /\ x.c \in {q, q + 1}
               /\ 2 * r > Ten[d] => x.c = q + 1
               /\ 2 * r < Ten[d] => x.c = q
               /\ 2 * r = Ten[d] /\ d > 0 =>
                     x.c = IF remainder \/ q % 2 = 1 THEN q + 1 ELSE q
<1> DEFINE d == Dropped(n)
           q == n \div Ten[d]
           r == n % Ten[d]
           up == \/ 2 * r > Ten[d]
                 \/ 2 * r = Ten[d] /\ d > 0 /\ (remainder \/ q % 2 = 1)
           c == IF up THEN q + 1 ELSE q
<1>1. Rounded(n, e, remainder) = [c |-> c, e |-> e + d]
  BY DEF Rounded, Dropped
<1>2. d \in Nat /\ Ten[d] \in Nat \ {0}
  BY DroppedType, TenType
<1>3. r \in Nat /\ q \in Nat
  BY <1>2
<1> HIDE DEF d, q, r
<1>4. /\ c \in {q, q + 1}
      /\ 2 * r > Ten[d] => c = q + 1
      /\ 2 * r < Ten[d] => c = q
      /\ 2 * r = Ten[d] /\ d > 0 =>
            c = IF remainder \/ q % 2 = 1 THEN q + 1 ELSE q
  BY <1>2, <1>3
<1> HIDE DEF c
<1>5. QED
  BY <1>1, <1>4 DEF d, q, r

\* Rounded to Precision digits, n and a remainder s / y give the nearest
\* number of units.
LEMMA RoundedNearest ==
    ASSUME NEW n \in Nat \ {0}, NEW e \in Int,
           NEW y \in Nat \ {0}, NEW s \in 0..(y - 1),
           Dropped(n) # 0 \/ s = 0
    PROVE  LET x == Rounded(n, e, s # 0)
           IN  /\ x \in [c : Nat, e : Int]
               /\ x.e = e + Dropped(n)
               /\ Nearest(x.c, Ten[Dropped(n)] * y, n * y + s)
<1> DEFINE x == Rounded(n, e, s # 0)
           d == Dropped(n)
           T == Ten[d]
           q == n \div T
           r == n % T
           w == T * y
           t == r * y + s
<1>1. /\ d \in Nat /\ T \in Nat \ {0}
      /\ d # 0 => T % 2 = 0
      /\ d = 0 => T = 1
  BY DroppedType, TenType
<1>2. (s # 0) \in BOOLEAN
  OBVIOUS
<1>3. /\ x.e = e + d
      /\ x = [c |-> x.c, e |-> x.e]
      /\ x.c \in {q, q + 1}
      /\ 2 * r > T => x.c = q + 1
      /\ 2 * r < T => x.c = q
      /\ 2 * r = T /\ d > 0 =>
            x.c = IF (s # 0) \/ q % 2 = 1 THEN q + 1 ELSE q
  BY <1>2, RoundedIs
<1> HIDE DEF x, d, T
<1>4. q \in Nat /\ r \in Nat /\ r < T /\ n = q * T + r
  BY <1>1
<1> HIDE DEF q, r
<1>5. n * y + s = q * w + t
  <2>1. (q * T) * y = q * (T * y) /\ (q * T + r) * y = (q * T) * y + r * y
    BY <1>1, <1>4
  <2>2. q * T \in Nat /\ r * y \in Nat /\ q * (T * y) \in Nat
    BY <1>1, <1>4
  <2>3. QED
    BY <1>4, <2>1, <2>2
<1>6. t \in Nat /\ w \in Nat \ {0} /\ t < w
  <2>1. (r + 1) * y <= T * y
    BY <1>1, <1>4, TimesOrder
  <2>2. (r + 1) * y = r * y + y /\ r * y \in Nat /\ T * y \in Nat
    BY <1>1, <1>4
  <2>3. QED
    BY <2>1, <2>2
<1>7. 2 * r > T => 2 * t > w
  <2> SUFFICES ASSUME 2 * r > T PROVE 2 * t > w
    OBVIOUS
  <2>1. (T + 1) * y <= (2 * r) * y
    BY <1>1, <1>4, TimesOrder
  <2>2. (T + 1) * y = T * y + y /\ (2 * r) * y = 2 * (r * y)
    BY <1>1, <1>4
  <2>3. T * y \in Nat /\ r * y \in Nat
    BY <1>1, <1>4
  <2>4. QED
    BY <2>1, <2>2, <2>3
<1>8. 2 * r < T => 2 * t < w
  <2> SUFFICES ASSUME 2 * r < T PROVE 2 * t < w
    OBVIOUS
  <2>1. CASE d = 0
    BY <1>1, <1>4, <2>1 DEF d
  <2>2. CASE d # 0
    <3>1. 2 * r + 2 <= T
      BY <1>1, <1>4, <2>2
    <3>2. (2 * r + 2) * y <= T * y
      BY <1>1, <1>4, <3>1, TimesOrder
    <3>3. (2 * r + 2) * y = 2 * (r * y) + 2 * y
      BY <1>4
    <3>4. T * y \in Nat /\ r * y \in Nat
      BY <1>1, <1>4
    <3>5. QED
      BY <3>2, <3>3, <3>4
  <2>3. QED
    BY <2>1, <2>2
<1>9. 2 * r = T => d # 0 /\ 2 * t = w + 2 * s
  <2> SUFFICES ASSUME 2 * r = T PROVE d # 0 /\ 2 * t = w + 2 * s
    OBVIOUS
  <2>1. d # 0
    BY <1>1, <1>4
  <2>2. T * y = (2 * r) * y /\ (2 * r) * y = 2 * (r * y) /\ r * y \in Nat
    BY <1>4
  <2>3. QED
    BY <2>1, <2>2
<1>10. Nearest(x.c, w, q * w + t)
  <2>1. x.c \in Nat
    BY <1>3, <1>4
  <2>2. 2 * t > w => x.c = q + 1
    <3>1. CASE 2 * r > T
      BY <1>3, <3>1
    <3>2. CASE 2 * r = T
      BY <1>1, <1>3, <1>6, <1>9, <3>2
    <3>3. CASE 2 * r < T
      BY <1>6, <1>8, <3>3
    <3>4. QED
      BY <1>1, <1>4, <3>1, <3>2, <3>3
  <2>3. 2 * t < w => x.c = q
    <3>1. CASE 2 * r > T
      BY <1>6, <1>7, <3>1
    <3>2. CASE 2 * r = T
      BY <1>6, <1>9, <3>2
    <3>3. CASE 2 * r < T
      BY <1>3, <3>3
    <3>4. QED
      BY <1>1, <1>4, <3>1, <3>2, <3>3
  <2>4. 2 * t = w => x.c = IF q % 2 = 1 THEN q + 1 ELSE q
    <3>1. CASE 2 * r > T
      BY <1>6, <1>7, <3>1
    <3>2. CASE 2 * r = T
      BY <1>1, <1>3, <1>6, <1>9, <3>2
    <3>3. CASE 2 * r < T
      BY <1>6, <1>8, <3>3
    <3>4. QED
      BY <1>1, <1>4, <3>1, <3>2, <3>3
  <2> HIDE DEF w, t
  <2>5. QED
    BY <1>4, <1>6, <2>1, <2>2, <2>3, <2>4, NearestOf
<1>11. x \in [c : Nat, e : Int]
  BY <1>1, <1>3, <1>4
<1>12. QED
  BY <1>3, <1>5, <1>10, <1>11 DEF x, d, T, w

\* A result that is rounded has Precision digits, or is the next power.
Full(c, w, p) == /\ Ten[Precision - 1] * w <= p /\ p < Ten[Precision] * w
                 /\ c \in Ten[Precision - 1]..Ten[Precision]

\* Before and after rounding the number has Precision digits, or is the next
\* power.
LEMMA RoundedFull ==
    ASSUME NEW n \in Nat \ {0}, NEW e \in Int,
           NEW y \in Nat \ {0}, NEW s \in 0..(y - 1), Dropped(n) # 0
    PROVE  Full(Rounded(n, e, s # 0).c, Ten[Dropped(n)] * y, n * y + s)
<1> DEFINE c == Rounded(n, e, s # 0).c
           d == Dropped(n)
           T == Ten[d]
           q == n \div T
           H == Ten[Precision]
           L == Ten[Precision - 1]
<1>1. /\ d \in Nat /\ Size[n] \in Nat
      /\ Size[n] = Precision + d /\ Size[n] - 1 = (Precision - 1) + d
      /\ Precision \in Nat /\ Precision - 1 \in Nat
  BY DroppedType, SizeBounds, PrecisionAssumption DEF Dropped
<1>2. T \in Nat \ {0} /\ L \in Nat /\ H \in Nat
  BY <1>1, TenType
<1>3. L * T <= n /\ n < H * T
  <2>1. Ten[Size[n] - 1] = L * T /\ Ten[Size[n]] = H * T
    BY <1>1, TenSum
  <2>2. QED
    BY <2>1, SizeBounds
<1>4. c \in {q, q + 1}
  <2>1. (s # 0) \in BOOLEAN
    OBVIOUS
  <2>2. QED
    BY <2>1, RoundedIs
<1> HIDE DEF c, d, T, H, L
<1>5. q \in Nat /\ q * T <= n /\ n < (q + 1) * T
  BY <1>2
<1> HIDE DEF q
<1>6. L <= q
  <2> SUFFICES ASSUME q + 1 <= L PROVE FALSE
    BY <1>2, <1>5
  <2>1. (q + 1) * T <= L * T
    BY <1>2, <1>5, TimesOrder
  <2>2. L * T \in Nat /\ (q + 1) * T \in Nat
    BY <1>2, <1>5
  <2>3. QED
    BY <1>3, <1>5, <2>1, <2>2
<1>7. q + 1 <= H
  <2> SUFFICES ASSUME H <= q PROVE FALSE
    BY <1>2, <1>5
  <2>1. H * T <= q * T
    BY <1>2, <1>5, TimesOrder
  <2>2. H * T \in Nat /\ q * T \in Nat
    BY <1>2, <1>5
  <2>3. QED
    BY <1>3, <1>5, <2>1, <2>2
<1>8. L * (T * y) <= n * y + s
  <2>1. (L * T) * y <= n * y
    BY <1>2, <1>3, TimesOrder
  <2>2. (L * T) * y = L * (T * y) /\ (L * T) * y \in Nat /\ n * y \in Nat
    BY <1>2
  <2>3. QED
    BY <2>1, <2>2
<1>9. n * y + s < H * (T * y)
  <2>1. (n + 1) * y <= (H * T) * y
    <3>1. n + 1 <= H * T /\ H * T \in Nat
      BY <1>2, <1>3
    <3>2. QED
      BY <3>1, TimesOrder
  <2>2. (H * T) * y = H * (T * y) /\ (n + 1) * y = n * y + y
    BY <1>2
  <2>3. n * y \in Nat /\ H * (T * y) \in Nat
    BY <1>2
  <2>4. QED
    BY <2>1, <2>2, <2>3
<1>10. c \in L..H
  BY <1>2, <1>4, <1>5, <1>6, <1>7
<1>11. QED
  BY <1>8, <1>9, <1>10 DEF Full, c, d, T, H, L

Decimal == [c : Nat, e : Int]

\* Digits that are added before a division.
Added(x, y) == IF Precision + 1 + Size[y.c] > Size[x.c]
               THEN Precision + 1 + Size[y.c] - Size[x.c] ELSE 0

\* The quotient of two numbers is rounded, whatever they are.
LEMMA OverNearest ==
    ASSUME NEW x \in Decimal, NEW y \in Decimal, x.c # 0, y.c # 0
    PROVE  LET k == Added(x, y)
               d == Dropped((x.c * Ten[k]) \div y.c)
               z == Over(x, y)
           IN  /\ z \in Decimal
               /\ k \in Nat /\ d \in Nat
               /\ z.e = (x.e - y.e - k) + d
               /\ Nearest(z.c, Ten[d] * y.c, x.c * Ten[k])
               /\ Full(z.c, Ten[d] * y.c, x.c * Ten[k])
<1> DEFINE k == Added(x, y)
           a == x.c
           b == y.c
           m == a * Ten[k]
           n == m \div b
           s == m % b
           e == x.e - y.e - k
<1>1. a \in Nat \ {0} /\ b \in Nat \ {0} /\ x.e \in Int /\ y.e \in Int
  BY DEF Decimal
<1>2. /\ k \in Nat
      /\ Size[b] \in Nat \ {0} /\ Size[a] \in Nat \ {0}
      /\ Precision + Size[b] <= (Size[a] - 1) + k
      /\ Precision \in Nat
  BY <1>1, SizeBounds, PrecisionAssumption DEF Added
<1>3. Over(x, y) = Rounded(n, e, s # 0)
  BY DEF Over, Added
<1> HIDE DEF k, a, b
<1>4. Ten[k] \in Nat \ {0} /\ m \in Nat
  BY <1>1, <1>2, TenType
<1> HIDE DEF m
<1>5. n \in Nat /\ s \in 0..(b - 1) /\ n * b + s = m /\ e \in Int
  BY <1>1, <1>2, <1>4
<1>6. Ten[Precision] * Ten[Size[b]] <= m
  <2>1. Ten[Precision + Size[b]] <= Ten[(Size[a] - 1) + k]
    BY <1>2, TenOrder
  <2>2. /\ Ten[Precision + Size[b]] = Ten[Precision] * Ten[Size[b]]
        /\ Ten[(Size[a] - 1) + k] = Ten[Size[a] - 1] * Ten[k]
    <3>1. Size[b] \in Nat /\ Size[a] - 1 \in Nat
      BY <1>2
    <3>2. QED
      BY <1>2, <3>1, TenSum
  <2>3. Ten[Size[a] - 1] <= a /\ Ten[Size[a] - 1] \in Nat
    BY <1>1, <1>2, SizeBounds, TenType
  <2>4. Ten[Size[a] - 1] * Ten[k] <= a * Ten[k]
    BY <1>1, <1>4, <2>3, TimesOrder
  <2>5. /\ Ten[Precision] * Ten[Size[b]] \in Nat
        /\ Ten[Size[a] - 1] * Ten[k] \in Nat
    BY <1>2, <1>4, <2>3, TenType
  <2>6. QED
    BY <1>4, <2>1, <2>2, <2>4, <2>5 DEF m
<1> HIDE DEF n, s, e
<1>7. Ten[Precision] <= n
  <2> SUFFICES ASSUME n + 1 <= Ten[Precision] PROVE FALSE
    BY <1>2, <1>5, TenType
  <2>1. /\ Ten[Precision] \in Nat /\ Ten[Size[b]] \in Nat
        /\ b <= Ten[Size[b]]
    BY <1>1, <1>2, TenType, SizeBounds
  <2>2. (n + 1) * b <= Ten[Precision] * b
    BY <1>1, <1>5, <2>1, TimesOrder
  <2>3. Ten[Precision] * b <= Ten[Precision] * Ten[Size[b]]
    BY <1>1, <2>1, TimesOrder
  <2>4. (n + 1) * b = n * b + b /\ n * b \in Nat
    BY <1>1, <1>5
  <2>5. /\ Ten[Precision] * b \in Nat
        /\ Ten[Precision] * Ten[Size[b]] \in Nat
    BY <1>1, <2>1
  <2>6. QED
    BY <1>1, <1>4, <1>5, <1>6, <2>2, <2>3, <2>4, <2>5
<1>8. n \in Nat \ {0} /\ Dropped(n) # 0 /\ Dropped(n) \in Nat
  <2>1. Ten[Precision] \in Nat \ {0}
    BY <1>2, TenType
  <2>2. Precision < Size[n]
    BY <1>2, <1>5, <1>7, SizeFits
  <2>3. QED
    BY <1>5, <1>7, <2>1, <2>2, DroppedType
<1>9. /\ Over(x, y) \in [c : Nat, e : Int]
      /\ Over(x, y).e = e + Dropped(n)
      /\ Nearest(Over(x, y).c, Ten[Dropped(n)] * b, n * b + s)
  BY <1>1, <1>3, <1>5, <1>8, RoundedNearest
<1>10. Full(Over(x, y).c, Ten[Dropped(n)] * b, n * b + s)
  BY <1>1, <1>3, <1>5, <1>8, RoundedFull
<1>11. QED
  BY <1>2, <1>5, <1>8, <1>9, <1>10 DEF k, a, b, m, n, e, Decimal

-----------------------------------------------------------------------------
(* Numbers are in order, whatever the exponents.                           *)

\* A coefficient at a smaller exponent.
LEMMA AtScale ==
    ASSUME NEW x \in Decimal, NEW e \in Int, NEW f \in Int, f <= e, e <= x.e
    PROVE  /\ At(x, e) \in Nat
           /\ At(x, f) = At(x, e) * Ten[e - f]
           /\ Ten[e - f] \in Nat \ {0}
<1>1. x.c \in Nat /\ x.e \in Int
  BY DEF Decimal
<1>2. /\ x.e - e \in Nat /\ e - f \in Nat
      /\ x.e - f = (x.e - e) + (e - f)
  BY <1>1
<1>3. Ten[x.e - f] = Ten[x.e - e] * Ten[e - f]
  BY <1>2, TenSum
<1>4. Ten[x.e - e] \in Nat \ {0} /\ Ten[e - f] \in Nat \ {0}
  BY <1>2, TenType
<1>5. x.c * (Ten[x.e - e] * Ten[e - f]) = (x.c * Ten[x.e - e]) * Ten[e - f]
  BY <1>1, <1>4
<1>6. QED
  BY <1>1, <1>3, <1>4, <1>5 DEF At

\* A positive factor changes no order.
LEMMA Scaling ==
    ASSUME NEW a \in Nat, NEW b \in Nat, NEW s \in Nat \ {0}
    PROVE  a <= b <=> a * s <= b * s
<1>1. a <= b => a * s <= b * s
  BY TimesOrder
<1>2. ASSUME b < a PROVE b * s < a * s
  <2>1. (b + 1) * s <= a * s
    BY <1>2, TimesOrder
  <2>2. (b + 1) * s = b * s + s /\ b * s \in Nat /\ a * s \in Nat
    OBVIOUS
  <2>3. QED
    BY <2>1, <2>2
<1>3. a * s \in Nat /\ b * s \in Nat
  OBVIOUS
<1>4. QED
  BY <1>1, <1>2, <1>3

\* Any common exponent serves to compare two numbers.
LEMMA AtMostAt ==
    ASSUME NEW x \in Decimal, NEW y \in Decimal,
           NEW f \in Int, f <= x.e, f <= y.e
    PROVE  AtMost(x, y) <=> At(x, f) <= At(y, f)
<1> DEFINE e == Least(x.e, y.e)
<1>1. x.e \in Int /\ y.e \in Int
  BY DEF Decimal
<1>2. e \in Int /\ f <= e /\ e <= x.e /\ e <= y.e
  BY <1>1 DEF Least
<1> HIDE DEF e
<1>3. /\ At(x, e) \in Nat /\ At(y, e) \in Nat /\ Ten[e - f] \in Nat \ {0}
      /\ At(x, f) = At(x, e) * Ten[e - f]
      /\ At(y, f) = At(y, e) * Ten[e - f]
  BY <1>2, AtScale
<1>4. At(x, e) <= At(y, e) <=> At(x, f) <= At(y, f)
  BY <1>3, Scaling
<1>5. QED
  BY <1>4 DEF AtMost, e

\* Rounding does not depend on the scale.
LEMMA NearestScaled ==
    ASSUME NEW c \in Nat, NEW w \in Nat, NEW p \in Nat, NEW s \in Nat \ {0}
    PROVE  /\ Nearest(c, w, p) => Nearest(c, w * s, p * s)
           /\ Full(c, w, p) => Full(c, w * s, p * s)
<1>1. /\ c * (w * s) = (c * w) * s /\ c * w \in Nat
      /\ 2 * ((c * w) * s) = (2 * (c * w)) * s
      /\ 2 * (p * s) = (2 * p) * s
      /\ 2 * (p * s) + w * s = (2 * p + w) * s
      /\ 2 * (c * (w * s)) + w * s = (2 * (c * w) + w) * s
  OBVIOUS
<1>2. ASSUME Nearest(c, w, p) PROVE Nearest(c, w * s, p * s)
  <2>1. \A a, b \in Nat : /\ a <= b => a * s <= b * s
                          /\ a * s = b * s => a = b
    <3>1. \A a, b \in Nat : a <= b <=> a * s <= b * s
      BY Scaling
    <3>2. ASSUME NEW a \in Nat, NEW b \in Nat, a * s = b * s PROVE a = b
      <4>1. a * s \in Nat /\ b * s \in Nat
        OBVIOUS
      <4>2. a <= b /\ b <= a
        BY <3>1, <3>2, <4>1
      <4>3. QED
        BY <4>2
    <3>3. QED
      BY <3>1, <3>2
  <2>2. 2 * (c * w) \in Nat /\ 2 * p + w \in Nat
        /\ 2 * p \in Nat /\ 2 * (c * w) + w \in Nat
    BY <1>1
  <2> HIDE <1>1
  <2>3. /\ (2 * (c * w)) * s <= (2 * p + w) * s
        /\ (2 * p) * s <= (2 * (c * w) + w) * s
        /\ \/ (2 * (c * w)) * s = (2 * p + w) * s
           \/ (2 * p) * s = (2 * (c * w) + w) * s
           => c % 2 = 0
    BY <1>2, <2>1, <2>2 DEF Nearest
  <2>4. QED
    BY <1>1, <2>3 DEF Nearest
<1>3. ASSUME Full(c, w, p) PROVE Full(c, w * s, p * s)
  <2> DEFINE L == Ten[Precision - 1]
             H == Ten[Precision]
  <2>1. L \in Nat /\ H \in Nat
    BY PrecisionAssumption, TenType
  <2>2. L * w <= p /\ p + 1 <= H * w /\ c \in L..H
    BY <1>3, <2>1 DEF Full
  <2> HIDE DEF L, H
  <2>3. L * w \in Nat /\ H * w \in Nat
    BY <2>1
  <2>4. (L * w) * s <= p * s /\ (p + 1) * s <= (H * w) * s
    BY <2>2, <2>3, TimesOrder
  <2>5. /\ (L * w) * s = L * (w * s) /\ (H * w) * s = H * (w * s)
        /\ (p + 1) * s = p * s + s
        /\ p * s \in Nat /\ H * (w * s) \in Nat
    BY <2>1
  <2>6. L * (w * s) <= p * s /\ p * s < H * (w * s)
    BY <2>4, <2>5
  <2>7. QED
    BY <2>2, <2>6 DEF Full, L, H
<1>4. QED
  BY <1>2, <1>3

\* Of two numbers the smaller does not get the larger result, rounded to the
\* same units.
LEMMA NearestInOrder ==
    ASSUME NEW c \in Nat, NEW d \in Nat, NEW w \in Nat \ {0},
           NEW p \in Nat, NEW q \in Nat, p <= q,
           Nearest(c, w, p), Nearest(d, w, q)
    PROVE  c <= d
<1> SUFFICES ASSUME d < c PROVE FALSE
  OBVIOUS
<1>1. c * w \in Nat /\ d * w \in Nat
  OBVIOUS
<1>2. 2 * (c * w) <= 2 * p + w /\ 2 * q <= 2 * (d * w) + w
  BY DEF Nearest
<1>3. CASE c = d + 1
  <2>1. c * w = d * w + w
    BY <1>3
  <2>2. 2 * (c * w) = 2 * p + w /\ 2 * q = 2 * (d * w) + w
    BY <1>1, <1>2, <2>1
  <2>3. c % 2 = 0 /\ d % 2 = 0
    BY <2>2 DEF Nearest
  <2>4. QED
    BY <1>3, <2>3
<1>4. CASE d + 2 <= c
  <2>1. (d + 2) * w <= c * w
    BY <1>4, TimesOrder
  <2>2. (d + 2) * w = d * w + 2 * w
    OBVIOUS
  <2>3. QED
    BY <1>1, <1>2, <2>1, <2>2
<1>5. QED
  BY <1>3, <1>4

\* The same of different units, if both results are full.
LEMMA FullInOrder ==
    ASSUME NEW c \in Nat, NEW d \in Nat,
           NEW a \in Nat \ {0}, NEW b \in Nat \ {0}, NEW y \in Nat \ {0},
           a = b \/ 10 * a <= b \/ 10 * b <= a,
           NEW p \in Nat, NEW q \in Nat, p <= q,
           Nearest(c, a * y, p), Full(c, a * y, p),
           Nearest(d, b * y, q), Full(d, b * y, q)
    PROVE  c * a <= d * b
<1> DEFINE L == Ten[Precision - 1]
           H == Ten[Precision]
<1>1. L \in Nat \ {0} /\ H = 10 * L
  BY PrecisionAssumption, TenType
<1>2. /\ L * (a * y) <= p /\ p < H * (a * y) /\ c \in L..H
      /\ L * (b * y) <= q /\ q < H * (b * y) /\ d \in L..H
  BY DEF Full
<1> HIDE DEF L, H
<1>3. CASE a = b
  <2>1. a * y \in Nat \ {0}
    OBVIOUS
  <2>2. c <= d
    BY <1>3, <2>1, NearestInOrder
  <2>3. QED
    BY <1>3, <2>2, TimesOrder
<1>4. CASE 10 * a <= b
  <2>1. c * a <= H * a
    BY <1>1, <1>2, TimesOrder
  <2>2. H * a = L * (10 * a)
    BY <1>1
  <2>3. L * (10 * a) <= L * b
    BY <1>1, <1>4, TimesOrder
  <2>4. L * b <= d * b
    BY <1>1, <1>2, TimesOrder
  <2>5. /\ c * a \in Nat /\ H * a \in Nat /\ L * (10 * a) \in Nat
        /\ L * b \in Nat /\ d * b \in Nat
    BY <1>1
  <2>6. QED
    BY <2>1, <2>2, <2>3, <2>4, <2>5
<1>5. CASE 10 * b <= a
  <2>1. H * (b * y) = (L * (10 * b)) * y
    BY <1>1
  <2>2. L * (10 * b) <= L * a
    BY <1>1, <1>5, TimesOrder
  <2>3. (L * (10 * b)) * y <= (L * a) * y
    <3>1. L * (10 * b) \in Nat /\ L * a \in Nat
      BY <1>1
    <3>2. QED
      BY <2>2, <3>1, TimesOrder
  <2>4. (L * a) * y = L * (a * y)
    BY <1>1
  <2>5. H * (b * y) \in Nat /\ L * (a * y) \in Nat
    BY <1>1
  <2>6. QED
    BY <1>2, <2>1, <2>3, <2>4, <2>5
<1>6. QED
  BY <1>3, <1>4, <1>5

\* Two powers of ten are the same, or one is ten times the other or more.
LEMMA TenApart ==
    \A j, k \in Nat :
        \/ Ten[j] = Ten[k]
        \/ 10 * Ten[j] <= Ten[k]
        \/ 10 * Ten[k] <= Ten[j]
<1> SUFFICES ASSUME NEW j \in Nat, NEW k \in Nat
             PROVE  \/ Ten[j] = Ten[k]
                    \/ 10 * Ten[j] <= Ten[k]
                    \/ 10 * Ten[k] <= Ten[j]
  OBVIOUS
<1>1. j = k \/ j < k \/ k < j
  OBVIOUS
<1>2. QED
  BY <1>1, TenOrder

\* A quotient, at any exponent that is small enough.
LEMMA OverScaled ==
    ASSUME NEW x \in Decimal, NEW y \in Decimal, x.c # 0, y.c # 0,
           NEW f \in Int, f <= x.e - y.e - Added(x, y)
    PROVE  LET z == Over(x, y)
               u == Ten[z.e - f]
           IN  /\ z \in Decimal
               /\ z.e - f \in Nat /\ f + y.e <= x.e
               /\ Nearest(z.c, u * y.c, At(x, f + y.e))
               /\ Full(z.c, u * y.c, At(x, f + y.e))
<1> DEFINE z == Over(x, y)
           k == Added(x, y)
           d == Dropped((x.c * Ten[k]) \div y.c)
           e == x.e - y.e - k
           s == Ten[e - f]
<1>1. /\ z \in Decimal
      /\ k \in Nat /\ d \in Nat
      /\ z.e = e + d
      /\ Nearest(z.c, Ten[d] * y.c, x.c * Ten[k])
      /\ Full(z.c, Ten[d] * y.c, x.c * Ten[k])
  BY OverNearest
<1>2. /\ x.c \in Nat /\ x.e \in Int /\ y.c \in Nat \ {0} /\ y.e \in Int
      /\ z.c \in Nat
  BY <1>1 DEF Decimal
<1> HIDE DEF z, d, k
<1>3. /\ e \in Int /\ e - f \in Nat /\ z.e - f = d + (e - f)
      /\ z.e - f \in Nat
      /\ f + y.e <= x.e /\ x.e - (f + y.e) = k + (e - f)
  BY <1>1, <1>2 DEF k
<1> HIDE DEF e
<1>4. /\ s \in Nat \ {0} /\ Ten[d] \in Nat /\ Ten[k] \in Nat
      /\ Ten[z.e - f] = Ten[d] * s
      /\ Ten[x.e - (f + y.e)] = Ten[k] * s
  <2>1. Ten[d + (e - f)] = Ten[d] * s /\ Ten[k + (e - f)] = Ten[k] * s
    BY <1>1, <1>3, TenSum
  <2>2. s \in Nat \ {0} /\ Ten[d] \in Nat /\ Ten[k] \in Nat
    BY <1>1, <1>3, TenType
  <2>3. QED
    BY <1>3, <2>1, <2>2
<1> HIDE DEF s
<1>5. /\ Nearest(z.c, (Ten[d] * y.c) * s, (x.c * Ten[k]) * s)
      /\ Full(z.c, (Ten[d] * y.c) * s, (x.c * Ten[k]) * s)
  <2>1. Ten[d] * y.c \in Nat /\ x.c * Ten[k] \in Nat
    BY <1>2, <1>4
  <2>2. QED
    BY <1>1, <1>2, <1>4, <2>1, NearestScaled
<1>6. /\ (Ten[d] * y.c) * s = (Ten[d] * s) * y.c
      /\ (x.c * Ten[k]) * s = x.c * (Ten[k] * s)
  BY <1>2, <1>4
<1>7. /\ Nearest(z.c, Ten[z.e - f] * y.c, At(x, f + y.e))
      /\ Full(z.c, Ten[z.e - f] * y.c, At(x, f + y.e))
  BY <1>4, <1>5, <1>6 DEF At
<1>8. QED
  BY <1>1, <1>3, <1>7 DEF z

\* Zero is zero at any exponent, and nothing else is.
LEMMA ZeroAt ==
    ASSUME NEW x \in Decimal, NEW f \in Int, f <= x.e
    PROVE  At(x, f) = 0 <=> x.c = 0
<1>1. x.c \in Nat /\ x.e - f \in Nat
  BY DEF Decimal
<1>2. Ten[x.e - f] \in Nat \ {0}
  BY <1>1, TenType
<1>3. QED
  BY <1>1, <1>2 DEF At

\* Nothing divided is nothing.
LEMMA ZeroOver ==
    ASSUME NEW x \in Decimal, NEW y \in Decimal, x.c = 0, y.c # 0
    PROVE  Over(x, y) = [c |-> 0, e |-> 0]
<1> DEFINE k == Added(x, y)
<1>1. k \in Nat
  <2>1. Size[x.c] \in Nat /\ Size[y.c] \in Nat /\ Precision \in Nat
    BY SizeBounds, PrecisionAssumption DEF Decimal
  <2>2. QED
    BY <2>1 DEF Added
<1>2. Ten[k] \in Nat
  BY <1>1, TenType
<1>3. x.c * Ten[k] = 0 /\ y.c \in Nat \ {0}
  BY <1>2 DEF Decimal
<1>4. (x.c * Ten[k]) \div y.c = 0
  BY <1>3
<1>5. QED
  BY <1>4 DEF Over, Added, Rounded, Int2Dec

\* The larger the dividend, the larger the quotient.
THEOREM OverInOrder ==
    ASSUME NEW x1 \in Decimal, NEW x2 \in Decimal, NEW y \in Decimal,
           y.c # 0, AtMost(x1, x2)
    PROVE  /\ Over(x1, y) \in Decimal
           /\ Over(x2, y) \in Decimal
           /\ AtMost(Over(x1, y), Over(x2, y))
<1>1. ASSUME NEW x \in Decimal PROVE Over(x, y) \in Decimal
  <2>1. CASE x.c = 0
    BY <2>1, ZeroOver DEF Decimal
  <2>2. CASE x.c # 0
    BY <2>2, OverNearest
  <2>3. QED
    BY <2>1, <2>2
<1>2. CASE x1.c = 0
  <2> DEFINE z1 == Over(x1, y)
             z2 == Over(x2, y)
             f == Least(z1.e, z2.e)
  <2>1. z1 \in Decimal /\ z2 \in Decimal /\ z1.c = 0
    BY <1>1, <1>2, ZeroOver
  <2> HIDE DEF z1, z2
  <2>2. f \in Int /\ f <= z1.e /\ f <= z2.e
    BY <2>1 DEF Least, Decimal
  <2> HIDE DEF f
  <2>3. At(z1, f) = 0
    BY <2>1, <2>2, ZeroAt
  <2>4. At(z2, f) \in Nat
    <3>1. z2.c \in Nat /\ z2.e - f \in Nat
      BY <2>1, <2>2 DEF Decimal
    <3>2. Ten[z2.e - f] \in Nat
      BY <3>1, TenType
    <3>3. QED
      BY <3>1, <3>2 DEF At
  <2>5. AtMost(z1, z2)
    BY <2>1, <2>2, <2>3, <2>4, AtMostAt
  <2>6. QED
    BY <1>1, <2>5 DEF z1, z2
<1>3. CASE x1.c # 0
  <2> DEFINE z1 == Over(x1, y)
             z2 == Over(x2, y)
             g1 == x1.e - y.e - Added(x1, y)
             g2 == x2.e - y.e - Added(x2, y)
             f == Least(g1, g2)
             a == Ten[z1.e - f]
             b == Ten[z2.e - f]
  <2>1. x2.c # 0
    <3> DEFINE e == Least(x1.e, x2.e)
    <3>1. e \in Int /\ e <= x1.e /\ e <= x2.e
      BY DEF Least, Decimal
    <3> HIDE DEF e
    <3>2. At(x1, e) # 0 /\ At(x1, e) \in Nat /\ At(x2, e) \in Nat
      BY <1>3, <3>1, ZeroAt, AtScale
    <3>3. At(x1, e) <= At(x2, e)
      BY <3>1, AtMostAt
    <3>4. At(x2, e) # 0
      BY <3>2, <3>3
    <3>5. QED
      BY <3>1, <3>4, ZeroAt
  <2>2. Added(x1, y) \in Nat /\ Added(x2, y) \in Nat
    BY <1>3, <2>1, OverNearest
  <2>3. /\ f \in Int /\ f <= g1 /\ f <= g2
        /\ y.e \in Int /\ y.c \in Nat \ {0}
    BY <2>2 DEF Least, Decimal
  <2> HIDE DEF f, z1, z2
  <2>4. /\ z1 \in Decimal /\ z1.e - f \in Nat /\ f + y.e <= x1.e
        /\ Nearest(z1.c, a * y.c, At(x1, f + y.e))
        /\ Full(z1.c, a * y.c, At(x1, f + y.e))
    BY <1>3, <2>3, OverScaled DEF z1
  <2>5. /\ z2 \in Decimal /\ z2.e - f \in Nat /\ f + y.e <= x2.e
        /\ Nearest(z2.c, b * y.c, At(x2, f + y.e))
        /\ Full(z2.c, b * y.c, At(x2, f + y.e))
    BY <2>1, <2>3, OverScaled DEF z2
  <2>6. /\ a \in Nat \ {0} /\ b \in Nat \ {0}
        /\ a = b \/ 10 * a <= b \/ 10 * b <= a
    BY <2>4, <2>5, TenType, TenApart
  <2>7. /\ At(x1, f + y.e) <= At(x2, f + y.e)
        /\ At(x1, f + y.e) \in Nat /\ At(x2, f + y.e) \in Nat
    <3>1. f + y.e \in Int
      BY <2>3
    <3>2. QED
      BY <2>4, <2>5, <3>1, AtMostAt, AtScale
  <2>8. z1.c \in Nat /\ z2.c \in Nat /\ z1.e \in Int /\ z2.e \in Int
    BY <2>4, <2>5 DEF Decimal
  <2> HIDE DEF a, b, g1, g2
  <2>9. z1.c * a <= z2.c * b
    BY <2>3, <2>4, <2>5, <2>6, <2>7, <2>8, FullInOrder
  <2>10. At(z1, f) <= At(z2, f) /\ f <= z1.e /\ f <= z2.e
    BY <2>3, <2>4, <2>5, <2>8, <2>9 DEF At, a, b
  <2>11. AtMost(z1, z2)
    BY <2>3, <2>4, <2>5, <2>10, AtMostAt
  <2>12. QED
    BY <1>1, <2>11 DEF z1, z2
<1>4. QED
  BY <1>2, <1>3

\* A number is rounded to Precision digits; without superfluous ones it is not
\* changed, and only zero becomes zero.
LEMMA RoundedNumber ==
    ASSUME NEW n \in Nat \ {0}, NEW e \in Int
    PROVE  LET x == Rounded(n, e, FALSE)
               d == Dropped(n)
           IN  /\ x \in Decimal
               /\ x.e = e + d
               /\ Nearest(x.c, Ten[d], n)
               /\ d # 0 => Full(x.c, Ten[d], n)
               /\ d = 0 => x.c = n
               /\ x.c # 0
<1> DEFINE x == Rounded(n, e, FALSE)
           d == Dropped(n)
           y == 1
           s == 0
<1>1. y \in Nat \ {0} /\ s \in 0..(y - 1) /\ (s # 0) = FALSE
  OBVIOUS
<1>2. d \in Nat /\ Ten[d] \in Nat \ {0} /\ Ten[0] = 1
  BY DroppedType, TenType
<1>3. /\ d = 0 \/ d # 0
      /\ s = 0
      /\ n * y + s = n /\ Ten[d] * y = Ten[d]
  BY <1>2
<1> HIDE DEF y, s, d
<1>4. LET z == Rounded(n, e, s # 0)
      IN  /\ z \in [c : Nat, e : Int]
          /\ z.e = e + Dropped(n)
          /\ Nearest(z.c, Ten[Dropped(n)] * y, n * y + s)
  BY <1>1, <1>3, RoundedNearest
<1>5. Dropped(n) # 0 =>
         Full(Rounded(n, e, s # 0).c, Ten[Dropped(n)] * y, n * y + s)
  BY <1>1, RoundedFull
<1>6. Rounded(n, e, s # 0) = x
  BY <1>1
<1> HIDE DEF x
<1>7. /\ x \in Decimal
      /\ x.e = e + d
      /\ Nearest(x.c, Ten[d], n)
      /\ d # 0 => Full(x.c, Ten[d], n)
  BY <1>3, <1>4, <1>5, <1>6 DEF d, Decimal
<1>8. x.c \in Nat
  BY <1>7 DEF Decimal
<1>9. CASE d = 0
  <2>1. 2 * x.c <= 2 * n + 1 /\ 2 * n <= 2 * x.c + 1
    BY <1>2, <1>7, <1>8, <1>9 DEF Nearest
  <2>2. x.c = n
    BY <1>8, <2>1
  <2>3. QED
    BY <1>7, <1>9, <2>2 DEF x, d
<1>10. CASE d # 0
  <2>1. Ten[Precision - 1] \in Nat \ {0} /\ Ten[Precision - 1] <= x.c
    BY <1>7, <1>8, <1>10, PrecisionAssumption, TenType DEF Full
  <2>2. x.c # 0
    BY <1>8, <2>1
  <2>3. QED
    BY <1>7, <1>10, <2>2 DEF x, d
<1>11. QED
  BY <1>9, <1>10

\* Rounding is of type Decimal, and keeps what is not zero.
LEMMA RoundedType ==
    ASSUME NEW n \in Nat, NEW e \in Int
    PROVE  /\ Rounded(n, e, FALSE) \in Decimal
           /\ Rounded(n, e, FALSE).c = 0 <=> n = 0
<1>1. CASE n = 0
  BY <1>1 DEF Rounded, Int2Dec, Decimal
<1>2. CASE n # 0
  BY <1>2, RoundedNumber
<1>3. QED
  BY <1>1, <1>2

\* Rounding keeps the order.
LEMMA RoundedInOrder ==
    ASSUME NEW m \in Nat, NEW n \in Nat, m <= n, NEW e \in Int
    PROVE  AtMost(Rounded(m, e, FALSE), Rounded(n, e, FALSE))
<1> DEFINE x == Rounded(m, e, FALSE)
           y == Rounded(n, e, FALSE)
<1>1. x \in Decimal /\ y \in Decimal
  BY RoundedType
<1>2. CASE m = 0
  <2>1. x.c = 0
    BY <1>2, RoundedType
  <2> HIDE DEF x, y
  <2> DEFINE f == Least(x.e, y.e)
  <2>2. f \in Int /\ f <= x.e /\ f <= y.e
    BY <1>1 DEF Least, Decimal
  <2> HIDE DEF f
  <2>3. At(x, f) = 0 /\ At(y, f) \in Nat
    BY <1>1, <2>1, <2>2, ZeroAt, AtScale
  <2>4. AtMost(x, y)
    BY <1>1, <2>2, <2>3, AtMostAt
  <2>5. QED
    BY <2>4 DEF x, y
<1>3. CASE m # 0
  <2> DEFINE j == Dropped(m)
             k == Dropped(n)
             a == Ten[j]
             b == Ten[k]
  <2>1. m \in Nat \ {0} /\ n \in Nat \ {0}
    BY <1>3
  <2>2. /\ j \in Nat /\ k \in Nat /\ a \in Nat \ {0} /\ b \in Nat \ {0}
        /\ j = 0 => a = 1
        /\ k = 0 => b = 1
    BY DroppedType, TenType
  <2>3. /\ x.e = e + j /\ Nearest(x.c, a, m)
        /\ j # 0 => Full(x.c, a, m)
        /\ j = 0 => x.c = m
    BY <2>1, RoundedNumber
  <2>4. /\ y.e = e + k /\ Nearest(y.c, b, n)
        /\ k # 0 => Full(y.c, b, n)
        /\ k = 0 => y.c = n
    BY <2>1, RoundedNumber
  <2>6. /\ j = 0 => m < Ten[Precision]
        /\ j # 0 => Ten[Precision] <= m
        /\ k = 0 => n < Ten[Precision]
        /\ k # 0 => Ten[Precision] <= n
    <3>1. ASSUME NEW i \in Nat
          PROVE  Dropped(i) # 0 <=> Ten[Precision] <= i
      <4>1. Dropped(i) # 0 <=> Precision < Size[i]
        BY DroppedType
      <4>2. Precision \in Nat /\ Size[i] \in Nat /\ Ten[Precision] \in Nat
        BY PrecisionAssumption, SizeBounds, TenType
      <4>3. QED
        BY <4>1, <4>2, SizeFits
    <3>2. Ten[Precision] \in Nat
      BY PrecisionAssumption, TenType
    <3>3. QED
      BY <3>1, <3>2
  <2> HIDE DEF x, y, j, k, a, b
  <2>7. x.c \in Nat /\ y.c \in Nat
    BY <1>1 DEF Decimal
  <2>8. x.c * a <= y.c * b
    <3>1. CASE j # 0
      <4>1. k # 0
        BY <2>6, <3>1, PrecisionAssumption, TenType
      <4>2. a = b \/ 10 * a <= b \/ 10 * b <= a
        BY <2>2, TenApart DEF a, b
      <4> DEFINE o == 1
      <4>3. o \in Nat \ {0} /\ a * o = a /\ b * o = b
        BY <2>2
      <4> HIDE DEF o
      <4>4. /\ Nearest(x.c, a * o, m) /\ Full(x.c, a * o, m)
            /\ Nearest(y.c, b * o, n) /\ Full(y.c, b * o, n)
        BY <2>3, <2>4, <3>1, <4>1, <4>3
      <4>5. QED
        BY <2>2, <2>7, <4>2, <4>3, <4>4, FullInOrder
    <3>2. CASE j = 0 /\ k = 0
      BY <2>1, <2>2, <2>3, <2>4, <3>2
    <3>3. CASE j = 0 /\ k # 0
      <4>1. Ten[Precision - 1] \in Nat
            /\ Ten[Precision] = 10 * Ten[Precision - 1]
            /\ Ten[Precision - 1] <= y.c
        BY <2>4, <3>3, PrecisionAssumption, TenType DEF Full
      <4>2. 10 <= b
        BY <2>2, <3>3, TenOrder, TenType DEF b
      <4>3. Ten[Precision - 1] * b <= y.c * b
        BY <2>2, <2>7, <4>1, TimesOrder
      <4>4. Ten[Precision - 1] * 10 <= Ten[Precision - 1] * b
        BY <2>2, <4>1, <4>2, TimesOrder
      <4>5. /\ y.c * b \in Nat /\ Ten[Precision - 1] * b \in Nat
            /\ x.c * a = m
        BY <2>1, <2>2, <2>3, <2>7, <3>3, <4>1
      <4>6. QED
        BY <2>6, <3>3, <4>1, <4>3, <4>4, <4>5
    <3>4. QED
      BY <3>1, <3>2, <3>3
  <2>9. At(x, e) <= At(y, e) /\ e <= x.e /\ e <= y.e
    BY <2>2, <2>3, <2>4, <2>8 DEF At, a, b
  <2>10. AtMost(x, y)
    BY <1>1, <2>9, AtMostAt
  <2>11. QED
    BY <2>10 DEF x, y
<1>4. QED
  BY <1>2, <1>3

\* Rounding half up to a whole number, at any exponent.
LEMMA HalfUpAt ==
    ASSUME NEW x \in Decimal, NEW f \in Int, f <= x.e, f <= 0
    PROVE  LET h == HalfUp(x)
               u == Ten[-f]
           IN  /\ h \in Nat /\ u \in Nat \ {0}
               /\ 2 * (h * u) <= 2 * At(x, f) + u
               /\ 2 * At(x, f) + u < 2 * (h * u) + 2 * u
<1> DEFINE h == HalfUp(x)
           u == Ten[-f]
<1>1. x.c \in Nat /\ x.e \in Int /\ -f \in Nat
  BY DEF Decimal
<1>2. u \in Nat \ {0}
  BY <1>1, TenType
<1>3. CASE x.e >= 0
  <2>1. h = x.c * Ten[x.e]
    BY <1>3 DEF HalfUp
  <2>2. x.e \in Nat /\ x.e - f = x.e + (-f)
    BY <1>1, <1>3
  <2>3. Ten[x.e - f] = Ten[x.e] * u /\ Ten[x.e] \in Nat
    BY <1>1, <2>2, TenSum, TenType
  <2> HIDE DEF h, u
  <2>4. At(x, f) = h * u /\ h \in Nat
    BY <1>1, <1>2, <2>1, <2>3 DEF At
  <2>5. h * u \in Nat
    BY <1>2, <2>4
  <2>6. QED
    BY <1>2, <2>4, <2>5 DEF h, u
<1>4. CASE x.e < 0
  <2> DEFINE v == Ten[-x.e]
             g == Ten[-x.e - 1]
             s == Ten[x.e - f]
  <2>1. h = (x.c + 5 * g) \div v
    BY <1>1, <1>4 DEF HalfUp
  <2>2. /\ -x.e \in Nat \ {0} /\ x.e - f \in Nat
        /\ -f = (-x.e) + (x.e - f)
    BY <1>1, <1>4
  <2>3. /\ v = 10 * g /\ g \in Nat \ {0} /\ s \in Nat \ {0}
        /\ u = v * s /\ v \in Nat \ {0}
    <3>1. -x.e \in Nat
      BY <2>2
    <3>2. Ten[-f] = Ten[-x.e] * Ten[x.e - f]
      BY <2>2, <3>1, TenSum
    <3>3. v = 10 * g /\ v \in Nat \ {0} /\ s \in Nat \ {0}
      BY <2>2, <3>1, TenType
    <3>4. -x.e - 1 \in Nat
      BY <2>2
    <3>5. g \in Nat \ {0}
      BY <3>4, TenType
    <3>6. QED
      BY <3>2, <3>3, <3>5
  <2> HIDE DEF h, u, v, g, s
  <2>4. /\ h \in Nat
        /\ 2 * (h * v) <= 2 * x.c + v
        /\ 2 * x.c + v + 1 <= 2 * (h * v) + 2 * v
    <3>1. x.c + 5 * g \in Nat
      BY <1>1, <2>3
    <3>2. h \in Nat /\ h * v <= x.c + 5 * g /\ x.c + 5 * g < h * v + v
      BY <2>1, <2>3, <3>1
    <3>3. QED
      BY <1>1, <2>3, <3>2
  <2>5. /\ (2 * (h * v)) * s <= (2 * x.c + v) * s
        /\ (2 * x.c + v + 1) * s <= (2 * (h * v) + 2 * v) * s
    <3>1. /\ 2 * (h * v) \in Nat /\ 2 * x.c + v \in Nat
          /\ 2 * x.c + v + 1 \in Nat /\ 2 * (h * v) + 2 * v \in Nat
      BY <1>1, <2>3, <2>4
    <3>2. QED
      BY <2>3, <2>4, <3>1, TimesOrder
  <2>6. /\ (2 * (h * v)) * s = 2 * (h * u)
        /\ (2 * x.c + v) * s = 2 * (x.c * s) + u
        /\ (2 * x.c + v + 1) * s = 2 * (x.c * s) + u + s
        /\ (2 * (h * v) + 2 * v) * s = 2 * (h * u) + 2 * u
    BY <1>1, <2>3, <2>4
  <2>7. At(x, f) = x.c * s
    BY DEF At, s
  <2>8. x.c * s \in Nat /\ h * u \in Nat
    BY <1>1, <1>2, <2>3, <2>4
  <2>9. QED
    BY <1>2, <2>3, <2>4, <2>5, <2>6, <2>7, <2>8 DEF h, u
<1>5. QED
  BY <1>1, <1>3, <1>4

\* It keeps the order, too.
LEMMA HalfUpInOrder ==
    ASSUME NEW x \in Decimal, NEW y \in Decimal, AtMost(x, y)
    PROVE  HalfUp(x) \in Nat /\ HalfUp(y) \in Nat /\ HalfUp(x) <= HalfUp(y)
<1> DEFINE f == Least(0, Least(x.e, y.e))
           u == Ten[-f]
           g == HalfUp(x)
           h == HalfUp(y)
<1>1. f \in Int /\ f <= 0 /\ f <= x.e /\ f <= y.e
  BY DEF Least, Decimal
<1> HIDE DEF f
<1>2. /\ At(x, f) \in Nat /\ At(y, f) \in Nat
      /\ At(x, f) <= At(y, f)
  BY <1>1, AtMostAt, AtScale
<1>3. /\ g \in Nat /\ h \in Nat /\ u \in Nat \ {0}
      /\ 2 * (g * u) <= 2 * At(x, f) + u
      /\ 2 * At(y, f) + u < 2 * (h * u) + 2 * u
  BY <1>1, HalfUpAt
<1> HIDE DEF u, g, h
<1>4. g * u \in Nat /\ h * u \in Nat
  BY <1>3
<1>5. g * u < (h + 1) * u
  BY <1>2, <1>3, <1>4
<1>6. g <= h
  <2> SUFFICES ASSUME h + 1 <= g PROVE FALSE
    BY <1>3
  <2>1. (h + 1) * u <= g * u /\ (h + 1) * u \in Nat
    BY <1>3, TimesOrder
  <2>2. QED
    BY <1>4, <1>5, <2>1
<1>7. QED
  BY <1>3, <1>6 DEF g, h

\* A product is a number, and not 0 if neither factor is.
LEMMA TimesType ==
    ASSUME NEW x \in Decimal, NEW y \in Decimal
    PROVE  /\ Times(x, y) \in Decimal
           /\ x.c # 0 /\ y.c # 0 => Times(x, y).c # 0
<1>1. /\ x.c \in Nat /\ y.c \in Nat /\ x.c * y.c \in Nat
      /\ x.e + y.e \in Int
      /\ x.c # 0 /\ y.c # 0 => x.c * y.c # 0
  BY DEF Decimal
<1>2. QED
  BY <1>1, RoundedType DEF Times

\* So is a quotient, and it is not 0 if the dividend is not.
LEMMA OverType ==
    ASSUME NEW x \in Decimal, NEW y \in Decimal, y.c # 0
    PROVE  /\ Over(x, y) \in Decimal
           /\ x.c # 0 => Over(x, y).c # 0
<1>1. CASE x.c = 0
  BY <1>1, ZeroOver DEF Decimal
<1>2. CASE x.c # 0
  <2>1. /\ Over(x, y) \in Decimal
        /\ Over(x, y).c \in Ten[Precision - 1]..Ten[Precision]
    BY <1>2, OverNearest DEF Full
  <2>2. Ten[Precision - 1] \in Nat \ {0}
    BY PrecisionAssumption, TenType
  <2>3. Over(x, y).c # 0
    BY <2>1, <2>2
  <2>4. QED
    BY <2>1, <2>3
<1>3. QED
  BY <1>1, <1>2

\* So is a sum.
LEMMA PlusType ==
    ASSUME NEW x \in Decimal, NEW y \in Decimal
    PROVE  Plus(x, y) \in Decimal
<1> DEFINE e == Least(x.e, y.e)
<1>1. e \in Int /\ e <= x.e /\ e <= y.e
  BY DEF Least, Decimal
<1> HIDE DEF e
<1>2. At(x, e) + At(y, e) \in Nat
  BY <1>1, AtScale
<1>3. QED
  BY <1>1, <1>2, RoundedType DEF Plus, e

-----------------------------------------------------------------------------
(* How far apart two numbers are.                                          *)

\* Of this many parts, a rounding adds or takes no more than one.
Parts == 2 * Ten[Precision - 1]

\* x is not above y by more than m parts.
Under(x, y, m) == x * (Parts - m) <= y * Parts

\* x and y are within m parts of each other.
Close(x, y, m) == Under(x, y, m) /\ Under(y, x, m)

\* There are parts.
LEMMA PartsType == Parts \in Nat /\ Parts >= 2
<1>1. Precision - 1 \in Nat
  BY PrecisionAssumption
<1>2. Ten[Precision - 1] \in Nat \ {0}
  BY <1>1, TenType
<1>3. QED
  BY <1>2 DEF Parts

\* Of products, the parts add up.
LEMMA UnderProduct ==
    ASSUME NEW x \in Nat, NEW y \in Nat, NEW u \in Nat, NEW v \in Nat,
           NEW m \in Nat, NEW k \in Nat, m + k <= Parts,
           Under(x, y, m), Under(u, v, k)
    PROVE  Under(x * u, y * v, m + k)
<1> DEFINE a == Parts
           b == a - m
           c == a - k
           d == a - (m + k)
<1>1. a \in Nat \ {0} /\ b \in Nat /\ c \in Nat /\ d \in Nat
  BY PartsType
<1>2. x * b <= y * a /\ u * c <= v * a
  BY DEF Under
<1>3. b * c = a * d + m * k /\ m * k \in Nat
  BY <1>1
<1>4. a * d <= b * c
  BY <1>1, <1>3
<1> HIDE DEF a, b, c, d
<1>5. (x * b) * (u * c) <= (y * a) * (v * a)
  <2>1. x * b \in Nat /\ y * a \in Nat /\ u * c \in Nat /\ v * a \in Nat
    BY <1>1
  <2>2. (x * b) * (u * c) <= (y * a) * (u * c)
    BY <1>2, <2>1, TimesOrder
  <2>3. (y * a) * (u * c) <= (y * a) * (v * a)
    BY <1>2, <2>1, TimesOrder
  <2>4. /\ (x * b) * (u * c) \in Nat /\ (y * a) * (u * c) \in Nat
        /\ (y * a) * (v * a) \in Nat
    BY <2>1
  <2>5. QED
    BY <2>2, <2>3, <2>4
<1>6. (a * d) * (x * u) <= (b * c) * (x * u)
  <2>1. a * d \in Nat /\ b * c \in Nat /\ x * u \in Nat
    BY <1>1
  <2>2. QED
    BY <1>4, <2>1, TimesOrder
<1>7. /\ (a * d) * (x * u) = ((x * u) * d) * a
      /\ (b * c) * (x * u) = (x * b) * (u * c)
      /\ (y * a) * (v * a) = ((y * v) * a) * a
  BY <1>1
<1>8. ((x * u) * d) * a <= ((y * v) * a) * a
  <2>1. /\ (a * d) * (x * u) \in Nat /\ (b * c) * (x * u) \in Nat
        /\ (y * a) * (v * a) \in Nat
    BY <1>1
  <2>2. QED
    BY <1>5, <1>6, <1>7, <2>1
<1>9. (x * u) * d <= (y * v) * a
  <2>1. (x * u) * d \in Nat /\ (y * v) * a \in Nat
    BY <1>1
  <2>2. QED
    BY <1>1, <1>8, <2>1, Scaling
<1>10. QED
  BY <1>9 DEF Under, a, d

\* A positive factor changes nothing.
LEMMA UnderScaled ==
    ASSUME NEW x \in Nat, NEW y \in Nat, NEW s \in Nat \ {0}, NEW m \in Nat,
           m <= Parts
    PROVE  Under(x, y, m) <=> Under(x * s, y * s, m)
<1> DEFINE a == Parts
           b == a - m
<1>1. a \in Nat /\ b \in Nat
  BY PartsType
<1> HIDE DEF a, b
<1>2. x * b \in Nat /\ y * a \in Nat
  BY <1>1
<1>3. x * b <= y * a <=> (x * b) * s <= (y * a) * s
  BY <1>2, Scaling
<1>4. (x * b) * s = (x * s) * b /\ (y * a) * s = (y * s) * a
  BY <1>1
<1>5. QED
  BY <1>3, <1>4 DEF Under, a, b

\* One after the other, the parts add up.
LEMMA UnderThrough ==
    ASSUME NEW x \in Nat, NEW y \in Nat, NEW z \in Nat,
           NEW m \in Nat, NEW k \in Nat, m + k < Parts,
           Under(x, y, m), Under(y, z, k)
    PROVE  Under(x, z, m + k)
<1>1. CASE y = 0
  <2> DEFINE b == Parts - m
  <2>1. b \in Nat \ {0}
    BY PartsType
  <2>2. x * b <= 0
    BY <1>1, PartsType DEF Under
  <2> HIDE DEF b
  <2>3. x = 0
    BY <2>1, <2>2
  <2>4. Parts - (m + k) \in Nat /\ z * Parts \in Nat
    BY PartsType
  <2>5. QED
    BY <2>3, <2>4 DEF Under
<1>2. CASE y # 0
  <2>1. Under(x * y, y * z, m + k)
    BY UnderProduct, PartsType
  <2>2. y * z = z * y
    OBVIOUS
  <2>3. m + k \in Nat /\ m + k <= Parts
    BY PartsType
  <2>4. QED
    BY <1>2, <2>1, <2>2, <2>3, UnderScaled
<1>3. QED
  BY <1>1, <1>2

\* More parts are no harder to keep.
LEMMA UnderMore ==
    ASSUME NEW x \in Nat, NEW y \in Nat, NEW m \in Nat, NEW k \in Nat,
           m <= k, k <= Parts, Under(x, y, m)
    PROVE  Under(x, y, k)
<1> DEFINE b == Parts - m
           c == Parts - k
           d == y * Parts
<1>1. b \in Nat /\ c \in Nat /\ c <= b /\ x * b <= d /\ d \in Nat
  BY PartsType DEF Under
<1> HIDE DEF b, c, d
<1>2. x * c <= x * b
  BY <1>1, TimesOrder
<1>3. x * c <= d
  BY <1>1, <1>2
<1>4. QED
  BY <1>3 DEF Under, c, d

\* What is not larger is not above.
LEMMA UnderLess ==
    ASSUME NEW x \in Nat, NEW y \in Nat, x <= y, NEW m \in Nat, m <= Parts
    PROVE  Under(x, y, m)
<1> DEFINE a == Parts
           b == a - m
<1>1. a \in Nat /\ b \in Nat /\ b <= a
  BY PartsType
<1> HIDE DEF a, b
<1>2. x * b <= y * b /\ y * b <= y * a
  BY <1>1, TimesOrder
<1>3. x * b <= y * a
  BY <1>1, <1>2
<1>4. QED
  BY <1>3 DEF Under, a, b

\* Of sums, they are those of the summands.
LEMMA UnderSum ==
    ASSUME NEW x \in Nat, NEW y \in Nat, NEW u \in Nat, NEW v \in Nat,
           NEW m \in Nat, m <= Parts, Under(x, y, m), Under(u, v, m)
    PROVE  Under(x + u, y + v, m)
<1> DEFINE a == Parts
           b == a - m
<1>1. a \in Nat /\ b \in Nat /\ x * b <= y * a /\ u * b <= v * a
  BY PartsType DEF Under
<1> HIDE DEF a, b
<1>2. (x + u) * b <= (y + v) * a
  BY <1>1
<1>3. QED
  BY <1>2 DEF Under, a, b

\* It holds of less than x, and of more than y.
LEMMA UnderBound ==
    ASSUME NEW x \in Nat, NEW y \in Nat, NEW z \in Nat,
           NEW m \in Nat, m <= Parts
    PROVE  /\ x <= y /\ Under(y, z, m) => Under(x, z, m)
           /\ Under(x, y, m) /\ y <= z => Under(x, z, m)
<1> DEFINE a == Parts
           b == a - m
<1>1. a \in Nat /\ b \in Nat
  BY PartsType
<1> HIDE DEF a, b
<1>2. ASSUME x <= y, y * b <= z * a
      PROVE  x * b <= z * a
  <2>1. x * b <= y * b
    BY <1>1, <1>2, TimesOrder
  <2>2. QED
    BY <1>1, <1>2, <2>1
<1>3. ASSUME x * b <= y * a, y <= z
      PROVE  x * b <= z * a
  <2>1. y * a <= z * a
    BY <1>1, <1>3, TimesOrder
  <2>2. QED
    BY <1>1, <1>3, <2>1
<1>4. QED
  BY <1>2, <1>3 DEF Under, a, b

\* Rounding to the nearest number of full precision moves by no more than one
\* part.
LEMMA NearestIsClose ==
    ASSUME NEW c \in Nat, NEW w \in Nat, NEW p \in Nat,
           Nearest(c, w, p), Full(c, w, p)
    PROVE  Close(c * w, p, 1)
<1> DEFINE t == Ten[Precision - 1]
           a == c * w
<1>1. t \in Nat \ {0} /\ a \in Nat
  BY PrecisionAssumption, TenType
<1>2. t * w <= p /\ c >= t /\ Parts = 2 * t
  <2>1. Ten[Precision] \in Nat
    BY PrecisionAssumption, TenType
  <2>2. QED
    BY <1>1, <2>1 DEF Full, Parts
<1>3. t * w <= a
  <2> HIDE DEF t
  <2>1. t * w <= c * w
    BY <1>1, <1>2, TimesOrder
  <2>2. QED
    BY <2>1
<1>4. 2 * a <= 2 * p + w /\ 2 * p <= 2 * a + w
  BY DEF Nearest
<1> DEFINE v == t * w
<1> HIDE DEF a, t
<1>5. v \in Nat /\ v <= p /\ v <= a
  BY <1>1, <1>2, <1>3
<1>6. /\ (2 * a) * t <= (2 * p + w) * t
      /\ (2 * p) * t <= (2 * a + w) * t
  <2>1. 2 * a \in Nat /\ 2 * p + w \in Nat /\ 2 * p \in Nat /\ 2 * a + w \in Nat
    BY <1>1
  <2>2. QED
    BY <1>1, <1>4, <2>1, TimesOrder
<1>7. (2 * p + w) * t = 2 * p * t + v /\ (2 * a + w) * t = 2 * a * t + v
  BY <1>1
<1>8. /\ a * (2 * t - 1) = (2 * a) * t - a
      /\ p * (2 * t - 1) = (2 * p) * t - p
      /\ a * (2 * t) = (2 * a) * t /\ p * (2 * t) = (2 * p) * t
      /\ 2 * p * t = (2 * p) * t /\ 2 * a * t = (2 * a) * t
  BY <1>1
<1> DEFINE i == (2 * a) * t
           j == (2 * p) * t
<1>9. i \in Nat /\ j \in Nat
  BY <1>1
<1> HIDE DEF i, j, v
<1>10. a * (2 * t - 1) <= p * (2 * t) /\ p * (2 * t - 1) <= a * (2 * t)
  <2>1. i <= j + v /\ j <= i + v
    BY <1>6, <1>7, <1>8 DEF i, j
  <2>2. i - a <= j /\ j - p <= i
    BY <1>1, <1>5, <1>9, <2>1
  <2>3. QED
    BY <1>8, <2>2 DEF i, j
<1>11. QED
  BY <1>2, <1>10 DEF Close, Under, a

\* The same for both directions: of products, the parts add up;
LEMMA CloseProduct ==
    ASSUME NEW x \in Nat, NEW y \in Nat, NEW u \in Nat, NEW v \in Nat,
           NEW m \in Nat, NEW k \in Nat, m + k <= Parts,
           Close(x, y, m), Close(u, v, k)
    PROVE  Close(x * u, y * v, m + k)
BY UnderProduct DEF Close

\* a positive factor changes nothing;
LEMMA CloseScaled ==
    ASSUME NEW x \in Nat, NEW y \in Nat, NEW s \in Nat \ {0}, NEW m \in Nat,
           m <= Parts
    PROVE  Close(x, y, m) <=> Close(x * s, y * s, m)
BY UnderScaled DEF Close

\* one after the other, the parts add up;
LEMMA CloseThrough ==
    ASSUME NEW x \in Nat, NEW y \in Nat, NEW z \in Nat,
           NEW m \in Nat, NEW k \in Nat, m + k < Parts,
           Close(x, y, m), Close(y, z, k)
    PROVE  Close(x, z, m + k)
<1>1. Under(x, z, m + k)
  BY UnderThrough DEF Close
<1>2. Under(z, x, k + m)
  BY UnderThrough DEF Close
<1>3. k + m = m + k
  OBVIOUS
<1>4. QED
  BY <1>1, <1>2, <1>3 DEF Close

\* more parts are no harder to keep;
LEMMA CloseMore ==
    ASSUME NEW x \in Nat, NEW y \in Nat, NEW m \in Nat, NEW k \in Nat,
           m <= k, k <= Parts, Close(x, y, m)
    PROVE  Close(x, y, k)
BY UnderMore DEF Close

\* of sums, they are those of the summands;
LEMMA CloseSum ==
    ASSUME NEW x \in Nat, NEW y \in Nat, NEW u \in Nat, NEW v \in Nat,
           NEW m \in Nat, m <= Parts, Close(x, y, m), Close(u, v, m)
    PROVE  Close(x + u, y + v, m)
BY UnderSum DEF Close

\* and a number is close to itself.
LEMMA CloseSelf ==
    ASSUME NEW x \in Nat, NEW m \in Nat, m <= Parts
    PROVE  Close(x, x, m)
BY UnderLess DEF Close

\* What lies between two numbers is close to both.
LEMMA CloseBetween ==
    ASSUME NEW x \in Nat, NEW y \in Nat, NEW z \in Nat, x <= y, y <= z,
           NEW m \in Nat, m <= Parts, Close(x, z, m) \/ Close(z, x, m)
    PROVE  Close(x, y, m) /\ Close(y, z, m)
<1>1. Under(x, y, m) /\ Under(y, z, m)
  BY UnderLess
<1>2. Under(z, x, m)
  BY DEF Close
<1>3. Under(y, x, m) /\ Under(z, y, m)
  BY <1>2, UnderBound
<1>4. QED
  BY <1>1, <1>3 DEF Close

\* One rounding, scaled.
LEMMA RoundingScaled ==
    ASSUME NEW x \in Nat, NEW y \in Nat, NEW s \in Nat \ {0}
    PROVE  Close(x, y, 1) <=> Close(x * s, y * s, 1)
<1> DEFINE m == 1
<1>1. m \in Nat /\ m <= Parts
  BY PartsType
<1> HIDE DEF m
<1>2. Close(x, y, m) <=> Close(x * s, y * s, m)
  BY <1>1, CloseScaled
<1>3. QED
  BY <1>2 DEF m

\* Powers of ten multiply by adding up.
LEMMA TenProduct ==
    ASSUME NEW i \in Nat, NEW j \in Nat
    PROVE  Ten[i] * Ten[j] = Ten[i + j]
BY TenSum

\* Four digits are enough for all of this.
LEMMA PartsMany == ASSUME Precision >= 4 PROVE Parts >= 2000
<1>1. Ten[0 + 1] = 10 * Ten[0] /\ Ten[1 + 1] = 10 * Ten[1]
      /\ Ten[2 + 1] = 10 * Ten[2] /\ Ten[0] = 1
  BY TenType
<1>2. Ten[3] = 1000
  BY <1>1
<1> DEFINE three == 3
           p == Precision - 1
<1>3. three \in Nat /\ p \in Nat /\ three <= p
  BY PrecisionAssumption
<1> HIDE DEF three, p
<1>4. Ten[three] <= Ten[p] /\ Ten[p] \in Nat
  BY <1>3, TenOrder, TenType
<1>5. QED
  BY <1>2, <1>4 DEF Parts, three, p

\* Numbers small enough to add up.
LEMMA PartsRoom ==
    ASSUME Precision >= 4
    PROVE  \A m \in 0..30 : m \in Nat /\ m < Parts /\ m <= Parts
BY PartsMany, PartsType

\* Nineteen parts are less than twenty of a thousand.
LEMMA UnderOff ==
    ASSUME Precision >= 4, NEW a \in Nat, NEW b \in Nat
    PROVE  /\ Under(a, b, 19) => Parts * a <= Parts * b + 20 * b
           /\ Under(b, a, 19) => Parts * b <= Parts * a + 20 * b
<1> DEFINE p == Parts
           q == p - 19
<1>1. p \in Nat /\ q \in Nat /\ q >= 361 /\ p = q + 19
  BY PartsMany, PartsType
<1> HIDE DEF p, q
<1>2. ASSUME a * q <= b * p PROVE p * a <= p * b + 20 * b
  <2>1. CASE a <= b
    <3>1. p * a <= p * b
      BY <1>1, <2>1, TimesOrder
    <3>2. p * a \in Nat /\ p * b \in Nat
      BY <1>1
    <3>3. QED
      BY <3>1, <3>2
  <2>2. CASE a > b
    <3> DEFINE e == a - b
               f == e * q
    <3>1. e \in Nat /\ a = b + e
      BY <2>2
    <3>2. f \in Nat
      BY <1>1, <3>1
    <3>3. (b + e) * q = b * q + f /\ b * p = b * q + 19 * b
      BY <1>1, <3>1
    <3>4. b * q \in Nat
      BY <1>1
    <3>5. f <= 19 * b
      <4> HIDE DEF e, f
      <4>1. (b + e) * q <= b * p
        BY <1>2, <3>1
      <4>2. QED
        BY <3>2, <3>3, <3>4, <4>1
    <3>6. e * 361 <= e * q
      <4> HIDE DEF e
      <4> DEFINE c == 361
      <4>1. c \in Nat /\ c <= q
        BY <1>1
      <4> HIDE DEF c
      <4>2. e * c <= e * q
        BY <1>1, <3>1, <4>1, TimesOrder
      <4>3. QED
        BY <4>2 DEF c
    <3>7. 19 * e <= b
      <4> HIDE DEF e
      <4>1. 361 * e <= 19 * b
        BY <3>1, <3>2, <3>5, <3>6 DEF f
      <4>2. QED
        BY <3>1, <4>1
    <3>8. p * a = p * b + f + 19 * e
      <4> HIDE DEF e
      <4>1. p * (b + e) = p * b + e * q + 19 * e
        BY <1>1, <3>1
      <4>2. QED
        BY <3>1, <4>1
    <3>9. p * b \in Nat
      BY <1>1
    <3> HIDE DEF e, f
    <3>10. QED
      BY <3>1, <3>2, <3>5, <3>7, <3>8, <3>9
  <2>3. QED
    BY <2>1, <2>2
<1>3. ASSUME b * q <= a * p PROVE p * b <= p * a + 20 * b
  <2>1. p * b = b * q + 19 * b /\ a * p = p * a
    BY <1>1
  <2>2. b * q \in Nat /\ p * a \in Nat
    BY <1>1
  <2>3. QED
    BY <1>3, <2>1, <2>2
<1>4. QED
  BY <1>2, <1>3 DEF Under, p, q

-----------------------------------------------------------------------------
(* Decimals as fractions.                                                  *)

Floor(x) == Least(0, x.e)
Num(x) == x.c * Ten[x.e - Floor(x)]
Den(x) == Ten[-Floor(x)]

\* The fraction is one, and 0 only for 0.
LEMMA FractionType ==
    ASSUME NEW x \in Decimal
    PROVE  /\ Floor(x) \in Int /\ Floor(x) <= 0 /\ Floor(x) <= x.e
           /\ Num(x) \in Nat /\ Den(x) \in Nat \ {0}
           /\ Num(x) = 0 <=> x.c = 0
           /\ Num(x) = At(x, Floor(x))
<1>1. /\ Floor(x) \in Int /\ Floor(x) <= 0 /\ Floor(x) <= x.e
      /\ x.c \in Nat /\ x.e \in Int
  BY DEF Floor, Least, Decimal
<1>2. x.e - Floor(x) \in Nat /\ -Floor(x) \in Nat
  BY <1>1
<1>3. Ten[x.e - Floor(x)] \in Nat \ {0} /\ Ten[-Floor(x)] \in Nat \ {0}
  BY <1>2, TenType
<1>4. QED
  BY <1>1, <1>3 DEF Num, Den, At

\* The rounding of n * 10^e, as a fraction.
LEMMA RoundedFraction ==
    ASSUME NEW n \in Nat, NEW e \in Int,
           NEW f \in Nat, e + f \in Nat
    PROVE  LET z == Rounded(n, e, FALSE)
           IN  Close(Num(z) * Ten[f], (n * Ten[e + f]) * Den(z), 1)
<1> DEFINE z == Rounded(n, e, FALSE)
           d == Dropped(n)
           i == z.e - Floor(z)
           j == -Floor(z)
           k == e + f + j
<1>1. z \in Decimal /\ (z.c = 0 <=> n = 0)
  BY RoundedType
<1>2. /\ z.c \in Nat /\ z.e \in Int
      /\ i \in Nat /\ j \in Nat /\ k \in Nat
      /\ Num(z) = z.c * Ten[i] /\ Den(z) = Ten[j]
  <2> HIDE DEF z
  <2>1. /\ z.c \in Nat /\ z.e \in Int
        /\ Floor(z) \in Int /\ Floor(z) <= 0 /\ Floor(z) <= z.e
    BY <1>1, FractionType DEF Decimal
  <2>2. QED
    BY <2>1 DEF Num, Den
<1>3. Ten[e + f] \in Nat /\ Ten[f] \in Nat /\ Den(z) \in Nat
  BY <1>1, TenType, FractionType
<1>4. CASE n = 0
  <2>1. z.c = 0 /\ Num(z) = 0
    BY <1>1, <1>4, FractionType
  <2> HIDE DEF z
  <2>2. Num(z) * Ten[f] = 0 /\ (n * Ten[e + f]) * Den(z) = 0
    BY <1>3, <1>4, <2>1
  <2>3. Close(0, 0, 1)
    BY CloseSelf, PartsType
  <2>4. QED
    BY <2>2, <2>3 DEF z
<1>5. CASE n # 0
  <2>1. /\ z.e = e + d /\ d \in Nat
        /\ Nearest(z.c, Ten[d], n)
        /\ d # 0 => Full(z.c, Ten[d], n)
        /\ d = 0 => z.c = n
    BY <1>5, RoundedNumber, DroppedType
  <2> HIDE DEF z, d
  <2>2. Ten[d] \in Nat /\ Ten[k] \in Nat \ {0}
    BY <1>2, <2>1, TenType
  <2>3. Close(z.c * Ten[d], n, 1)
    <3>1. CASE d # 0
      BY <1>2, <2>1, <2>2, <3>1, NearestIsClose
    <3>2. CASE d = 0
      <4>1. Ten[d] = 1
        BY <3>2, TenType
      <4>2. z.c * Ten[d] = n
        BY <1>2, <2>1, <3>2, <4>1
      <4>3. QED
        BY <4>2, CloseSelf, PartsType
    <3>3. QED
      BY <3>1, <3>2
  <2> HIDE DEF i, j, k
  <2>4. Close((z.c * Ten[d]) * Ten[k], n * Ten[k], 1)
    <3>1. z.c * Ten[d] \in Nat
      BY <1>2, <2>2
    <3>2. QED
      BY <2>2, <2>3, <3>1, RoundingScaled
  <2>5. Ten[d] * Ten[k] = Ten[i] * Ten[f]
    <3>1. d + k = i + f
      <4>1. Floor(z) \in Int
        BY <1>1, FractionType DEF z
      <4>2. QED
        BY <1>2, <2>1, <4>1 DEF i, j, k
    <3> HIDE DEF i, k
    <3>2. Ten[d] * Ten[k] = Ten[d + k] /\ Ten[i] * Ten[f] = Ten[i + f]
      BY <1>2, <2>1, TenProduct
    <3>3. QED
      BY <3>1, <3>2
  <2>6. Ten[k] = Ten[e + f] * Ten[j]
    BY <1>2, TenSum DEF k
  <2>7. (z.c * Ten[d]) * Ten[k] = Num(z) * Ten[f]
    <3>1. Ten[i] \in Nat
      BY <1>2, TenType
    <3>2. (z.c * Ten[d]) * Ten[k] = z.c * (Ten[d] * Ten[k])
      BY <1>2, <2>2
    <3>3. (z.c * Ten[i]) * Ten[f] = z.c * (Ten[i] * Ten[f])
      BY <1>2, <1>3, <3>1
    <3>4. QED
      BY <1>2, <2>5, <3>2, <3>3
  <2>8. n * Ten[k] = (n * Ten[e + f]) * Den(z)
    BY <1>2, <1>3, <2>6
  <2>9. QED
    BY <2>4, <2>7, <2>8 DEF z
<1>6. QED
  BY <1>4, <1>5

\* A product is off by one part.
LEMMA TimesFraction ==
    ASSUME NEW x \in Decimal, NEW y \in Decimal
    PROVE  LET z == Times(x, y)
           IN  Close(Num(z) * (Den(x) * Den(y)),
                     (Num(x) * Num(y)) * Den(z), 1)
<1> DEFINE z == Times(x, y)
           n == x.c * y.c
           e == x.e + y.e
           i == -Floor(x)
           j == -Floor(y)
           f == i + j
           a == x.e + i
           b == y.e + j
<1>1. /\ n \in Nat /\ e \in Int /\ i \in Nat /\ j \in Nat
      /\ f \in Nat /\ e + f \in Nat
      /\ a \in Nat /\ b \in Nat /\ e + f = a + b
      /\ x.c \in Nat /\ y.c \in Nat
  BY FractionType DEF Decimal
<1>2. /\ Num(x) = x.c * Ten[a] /\ Num(y) = y.c * Ten[b]
      /\ Den(x) = Ten[i] /\ Den(y) = Ten[j]
  <2>1. x.e - Floor(x) = a /\ y.e - Floor(y) = b
    BY FractionType DEF Decimal
  <2>2. QED
    BY <2>1 DEF Num, Den
<1>3. Close(Num(z) * Ten[f], (n * Ten[e + f]) * Den(z), 1)
  <2>1. z = Rounded(n, e, FALSE)
    BY DEF Times
  <2> HIDE DEF n, e, f, z
  <2>2. QED
    BY <1>1, <2>1, RoundedFraction
<1>4. Ten[f] = Den(x) * Den(y)
  <2> HIDE DEF i, j
  <2>1. QED
    BY <1>1, <1>2, TenProduct
<1>5. n * Ten[e + f] = Num(x) * Num(y)
  <2>1. Ten[e + f] = Ten[a] * Ten[b]
    BY <1>1, TenSum
  <2>2. Ten[a] \in Nat /\ Ten[b] \in Nat
    BY <1>1, TenType
  <2> HIDE DEF a, b, e, f
  <2>3. (x.c * y.c) * (Ten[a] * Ten[b]) = (x.c * Ten[a]) * (y.c * Ten[b])
    BY <1>1, <2>2
  <2>4. QED
    BY <1>2, <2>1, <2>3
<1>6. QED
  BY <1>3, <1>4, <1>5

\* A sum is off by one part.
LEMMA PlusFraction ==
    ASSUME NEW x \in Decimal, NEW y \in Decimal
    PROVE  LET z == Plus(x, y)
           IN  Close(Num(z) * (Den(x) * Den(y)),
                     (Num(x) * Den(y) + Num(y) * Den(x)) * Den(z), 1)
<1> DEFINE z == Plus(x, y)
           e == Least(x.e, y.e)
           n == At(x, e) + At(y, e)
           i == -Floor(x)
           j == -Floor(y)
           f == i + j
           g == x.e - e
           h == y.e - e
           a == x.e + i
           b == y.e + j
           k == e + f
<1>1. /\ e \in Int /\ i \in Nat /\ j \in Nat
      /\ f \in Nat /\ k \in Nat
      /\ g \in Nat /\ h \in Nat
      /\ a \in Nat /\ b \in Nat
      /\ g + k = a + j /\ h + k = b + i
      /\ x.c \in Nat /\ y.c \in Nat
  BY FractionType DEF Decimal, Least
<1>2. /\ Num(x) = x.c * Ten[a] /\ Num(y) = y.c * Ten[b]
      /\ Den(x) = Ten[i] /\ Den(y) = Ten[j]
  <2>1. x.e - Floor(x) = a /\ y.e - Floor(y) = b
    BY FractionType DEF Decimal
  <2>2. QED
    BY <2>1 DEF Num, Den
<1>3. n = x.c * Ten[g] + y.c * Ten[h]
  BY DEF At
<1> HIDE DEF e, g, h, a, b, i, j
<1>4. /\ Ten[g] \in Nat /\ Ten[h] \in Nat /\ Ten[a] \in Nat /\ Ten[b] \in Nat
      /\ Ten[i] \in Nat /\ Ten[j] \in Nat /\ Ten[k] \in Nat
  BY <1>1, TenType
<1>5. n \in Nat
  BY <1>1, <1>3, <1>4
<1>6. z = Rounded(n, e, FALSE)
  BY DEF Plus, e
<1> HIDE DEF n, z
<1>7. Close(Num(z) * Ten[f], (n * Ten[k]) * Den(z), 1)
  BY <1>1, <1>5, <1>6, RoundedFraction
<1>8. Ten[f] = Den(x) * Den(y)
  BY <1>1, <1>2, TenSum
<1> HIDE DEF f, k
<1>9. n * Ten[k] = Num(x) * Den(y) + Num(y) * Den(x)
  <2>1. Ten[g] * Ten[k] = Ten[a] * Ten[j] /\ Ten[h] * Ten[k] = Ten[b] * Ten[i]
    <3>1. Ten[g] * Ten[k] = Ten[g + k] /\ Ten[a] * Ten[j] = Ten[a + j]
      BY <1>1, TenProduct
    <3>2. Ten[h] * Ten[k] = Ten[h + k] /\ Ten[b] * Ten[i] = Ten[b + i]
      BY <1>1, TenProduct
    <3>3. QED
      BY <1>1, <3>1, <3>2
  <2>2. n * Ten[k] = x.c * (Ten[g] * Ten[k]) + y.c * (Ten[h] * Ten[k])
    BY <1>1, <1>3, <1>4
  <2>3. (x.c * Ten[a]) * Ten[j] = x.c * (Ten[a] * Ten[j])
    BY <1>1, <1>4
  <2>4. (y.c * Ten[b]) * Ten[i] = y.c * (Ten[b] * Ten[i])
    BY <1>1, <1>4
  <2>5. QED
    BY <1>2, <2>1, <2>2, <2>3, <2>4
<1>10. QED
  BY <1>7, <1>8, <1>9 DEF z

\* A quotient is off by one part.
LEMMA OverFraction ==
    ASSUME NEW x \in Decimal, NEW y \in Decimal, y.c # 0
    PROVE  LET z == Over(x, y)
           IN  Close(Num(z) * (Den(x) * Num(y)),
                     (Num(x) * Den(y)) * Den(z), 1)
<1> DEFINE z == Over(x, y)
<1>1. CASE x.c = 0
  <2>1. z = [c |-> 0, e |-> 0]
    BY <1>1, ZeroOver
  <2>2. z \in Decimal /\ z.c = 0
    BY <2>1 DEF Decimal
  <2>3. Num(z) = 0 /\ Num(x) = 0 /\ Den(x) * Num(y) \in Nat
        /\ Den(y) \in Nat /\ Den(z) \in Nat
    BY <1>1, <2>2, FractionType
  <2> HIDE DEF z
  <2>4. Num(z) * (Den(x) * Num(y)) = 0 /\ (Num(x) * Den(y)) * Den(z) = 0
    BY <2>3
  <2>5. Close(0, 0, 1)
    BY CloseSelf, PartsType
  <2>6. QED
    BY <2>4, <2>5 DEF z
<1>2. CASE x.c # 0
  <2> DEFINE k == Added(x, y)
             d == Dropped((x.c * Ten[k]) \div y.c)
             i == -Floor(x)
             j == -Floor(y)
             l == -Floor(z)
             a == x.e + i
             b == y.e + j
             c == z.e + l
             g == a + j + l
  <2>1. /\ z \in Decimal
        /\ k \in Nat /\ d \in Nat
        /\ z.e = (x.e - y.e - k) + d
        /\ Nearest(z.c, Ten[d] * y.c, x.c * Ten[k])
        /\ Full(z.c, Ten[d] * y.c, x.c * Ten[k])
    BY <1>2, OverNearest
  <2> HIDE DEF z, k, d
  <2>2. /\ i \in Nat /\ j \in Nat /\ l \in Nat
        /\ a \in Nat /\ b \in Nat /\ c \in Nat /\ g \in Nat
        /\ c + i + b + k = d + g
        /\ x.c \in Nat /\ y.c \in Nat /\ z.c \in Nat
    BY <2>1, FractionType DEF Decimal
  <2>3. /\ Num(x) = x.c * Ten[a] /\ Num(y) = y.c * Ten[b]
        /\ Num(z) = z.c * Ten[c]
        /\ Den(x) = Ten[i] /\ Den(y) = Ten[j] /\ Den(z) = Ten[l]
    <3>1. /\ x.e - Floor(x) = a /\ y.e - Floor(y) = b
          /\ z.e - Floor(z) = c
      BY <2>1, FractionType DEF Decimal
    <3>2. QED
      BY <3>1 DEF Num, Den
  <2> HIDE DEF a, b, c, i, j, l
  <2>4. /\ Ten[a] \in Nat /\ Ten[b] \in Nat /\ Ten[c] \in Nat
        /\ Ten[i] \in Nat /\ Ten[j] \in Nat /\ Ten[l] \in Nat
        /\ Ten[d] \in Nat /\ Ten[k] \in Nat \ {0} /\ Ten[g] \in Nat \ {0}
    BY <2>1, <2>2, TenType
  <2> DEFINE u == z.c * (Ten[d] * y.c)
             v == x.c * Ten[k]
             s == Num(z) * (Den(x) * Num(y))
             t == (Num(x) * Den(y)) * Den(z)
  <2>5. Close(u, v, 1)
    <3>1. Ten[d] * y.c \in Nat /\ x.c * Ten[k] \in Nat
      BY <2>2, <2>4
    <3>2. QED
      BY <2>1, <2>2, <3>1, NearestIsClose
  <2>6. u * Ten[g] = s * Ten[k]
    <3>1. ((Ten[c] * Ten[i]) * Ten[b]) * Ten[k] = Ten[d] * Ten[g]
      <4>1. /\ Ten[c] * Ten[i] = Ten[c + i]
            /\ Ten[c + i] * Ten[b] = Ten[c + i + b]
            /\ Ten[c + i + b] * Ten[k] = Ten[c + i + b + k]
            /\ Ten[d + g] = Ten[d] * Ten[g]
        <5> HIDE DEF g
        <5>1. c + i \in Nat /\ c + i + b \in Nat
          BY <2>2
        <5>2. QED
          BY <2>1, <2>2, <5>1, TenProduct
      <4>2. QED
        BY <2>2, <4>1
    <3>2. u * Ten[g] = (z.c * y.c) * (Ten[d] * Ten[g])
      BY <2>2, <2>4
    <3>3. ((z.c * Ten[c]) * (Ten[i] * (y.c * Ten[b]))) * Ten[k]
             = (z.c * y.c) * (((Ten[c] * Ten[i]) * Ten[b]) * Ten[k])
      BY <2>2, <2>4
    <3>4. QED
      BY <2>3, <3>1, <3>2, <3>3
  <2>7. v * Ten[g] = t * Ten[k]
    <3>1. (Ten[a] * Ten[j]) * Ten[l] = Ten[g]
      <4>1. a + j \in Nat
        BY <2>2
      <4>2. (Ten[a] * Ten[j]) * Ten[l] = Ten[a + j] * Ten[l]
        BY <2>2, TenProduct
      <4>3. QED
        BY <2>2, <4>1, <4>2, TenProduct
    <3> HIDE DEF g
    <3>2. ((x.c * Ten[a]) * Ten[j]) * Ten[l]
             = x.c * ((Ten[a] * Ten[j]) * Ten[l])
      BY <2>2, <2>4
    <3>3. (x.c * Ten[k]) * Ten[g] = (x.c * Ten[g]) * Ten[k]
      BY <2>2, <2>4
    <3>4. QED
      BY <2>3, <3>1, <3>2, <3>3
  <2>8. u \in Nat /\ v \in Nat /\ s \in Nat /\ t \in Nat
    <3>1. Num(x) \in Nat /\ Num(y) \in Nat /\ Num(z) \in Nat
      BY <2>1, FractionType
    <3>2. QED
      BY <2>2, <2>3, <2>4, <3>1
  <2> HIDE DEF u, v, s, t, g
  <2>9. Close(u * Ten[g], v * Ten[g], 1)
    BY <2>4, <2>5, <2>8, RoundingScaled
  <2>10. Close(s, t, 1)
    BY <2>4, <2>6, <2>7, <2>8, <2>9, RoundingScaled
  <2>11. QED
    BY <2>10 DEF s, t, z
<1>3. QED
  BY <1>1, <1>2

-----------------------------------------------------------------------------
(* How far apart two fractions are.                                        *)

Fraction == Nat \X (Nat \ {0})
FTimes(f, g) == <<f[1] * g[1], f[2] * g[2]>>
FFlip(f) == <<f[2], f[1]>>
FPlus(f, g) == <<f[1] * g[2] + g[1] * f[2], f[2] * g[2]>>
FAtMost(f, g) == f[1] * g[2] <= g[1] * f[2]
FSame(f, g) == f[1] * g[2] = g[1] * f[2]

\* Two fractions are within m parts of each other.
Near(f, g, m) == Close(f[1] * g[2], g[1] * f[2], m)

Positive == {f \in Fraction : f[1] # 0}

\* Numerator and denominator.
LEMMA FractionParts ==
    ASSUME NEW f \in Fraction
    PROVE  f[1] \in Nat /\ f[2] \in Nat \ {0} /\ f = <<f[1], f[2]>>
BY DEF Fraction

\* A product is 0 only if a factor is.
LEMMA ProductType ==
    ASSUME NEW a \in Nat, NEW b \in Nat
    PROVE  a * b \in Nat /\ (a * b = 0 <=> a = 0 \/ b = 0)
OBVIOUS

\* The operations yield fractions.
LEMMA FType ==
    ASSUME NEW f \in Fraction, NEW g \in Fraction
    PROVE  /\ FTimes(f, g) \in Fraction
           /\ FPlus(f, g) \in Fraction
           /\ f \in Positive => FFlip(f) \in Positive
           /\ f \in Positive /\ g \in Positive => FTimes(f, g) \in Positive
<1>1. /\ f[1] \in Nat /\ f[2] \in Nat /\ f[2] # 0
      /\ g[1] \in Nat /\ g[2] \in Nat /\ g[2] # 0
  BY FractionParts
<1>2. /\ f[1] * g[1] \in Nat /\ f[2] * g[2] \in Nat \ {0}
      /\ f[1] * g[2] \in Nat /\ g[1] * f[2] \in Nat
      /\ f[1] # 0 /\ g[1] # 0 => f[1] * g[1] # 0
  BY <1>1, ProductType
<1>3. f[1] * g[2] + g[1] * f[2] \in Nat
  BY <1>2
<1>4. QED
  BY <1>1, <1>2, <1>3 DEF FTimes, FPlus, FFlip, Fraction, Positive

\* Either is as near to the other.
LEMMA NearBack ==
    ASSUME NEW f \in Fraction, NEW g \in Fraction, NEW m
    PROVE  Near(f, g, m) <=> Near(g, f, m)
BY DEF Near, Close

\* The same fraction, written otherwise, is near.
LEMMA NearSelf ==
    ASSUME NEW f \in Fraction, NEW g \in Fraction, NEW m \in Nat, m <= Parts,
           FSame(f, g)
    PROVE  Near(f, g, m)
<1>1. f[1] * g[2] \in Nat
  BY FractionParts, ProductType
<1>2. QED
  BY <1>1, CloseSelf DEF Near, FSame

\* More parts are no harder to keep.
LEMMA NearMore ==
    ASSUME NEW f \in Fraction, NEW g \in Fraction, NEW m \in Nat, NEW k \in Nat,
           m <= k, k <= Parts, Near(f, g, m)
    PROVE  Near(f, g, k)
<1>1. f[1] * g[2] \in Nat /\ g[1] * f[2] \in Nat
  BY FractionParts, ProductType
<1>2. QED
  BY <1>1, CloseMore DEF Near

\* One after the other, the parts add up.
LEMMA NearThrough ==
    ASSUME NEW f \in Fraction, NEW g \in Fraction, NEW h \in Fraction,
           NEW m \in Nat, NEW k \in Nat, m + k < Parts,
           Near(f, g, m), Near(g, h, k)
    PROVE  Near(f, h, m + k)
<1> DEFINE a == f[1]
           b == f[2]
           c == g[1]
           d == g[2]
           p == h[1]
           q == h[2]
<1>1. /\ a \in Nat /\ b \in Nat \ {0} /\ c \in Nat /\ d \in Nat \ {0}
      /\ p \in Nat /\ q \in Nat \ {0}
  BY FractionParts
<1>2. Close(a * d, c * b, m) /\ Close(c * q, p * d, k)
  BY DEF Near
<1>3. m <= Parts /\ k <= Parts
  BY PartsType
<1> HIDE DEF a, b, c, d, p, q
<1>4. /\ a * d \in Nat /\ c * b \in Nat /\ c * q \in Nat /\ p * d \in Nat
      /\ a * q \in Nat /\ p * b \in Nat
  BY <1>1
<1>5. Close((a * d) * q, (c * b) * q, m)
  BY <1>1, <1>2, <1>3, <1>4, CloseScaled
<1>6. Close((c * q) * b, (p * d) * b, k)
  BY <1>1, <1>2, <1>3, <1>4, CloseScaled
<1>7. /\ (a * d) * q = (a * q) * d /\ (c * b) * q = (c * q) * b
      /\ (p * d) * b = (p * b) * d
  BY <1>1
<1>8. Close((a * q) * d, (p * b) * d, m + k)
  <2>1. (a * d) * q \in Nat /\ (c * b) * q \in Nat /\ (p * d) * b \in Nat
    BY <1>1, <1>4
  <2> DEFINE u == (a * d) * q
             v == (c * b) * q
             w == (p * d) * b
  <2>2. Close(u, v, m) /\ Close(v, w, k)
    BY <1>5, <1>6, <1>7
  <2>3. u \in Nat /\ v \in Nat /\ w \in Nat
    BY <2>1
  <2> HIDE DEF u, v, w
  <2>4. Close(u, w, m + k)
    BY <2>2, <2>3, CloseThrough
  <2>5. QED
    BY <1>7, <2>4 DEF u, w
<1>9. Close(a * q, p * b, m + k)
  <2>1. m + k \in Nat /\ m + k <= Parts
    BY PartsType
  <2>2. QED
    BY <1>1, <1>4, <1>8, <2>1, CloseScaled
<1>10. QED
  BY <1>9 DEF Near, a, b, p, q

\* Of products, the parts add up.
LEMMA NearTimes ==
    ASSUME NEW f \in Fraction, NEW g \in Fraction,
           NEW h \in Fraction, NEW i \in Fraction,
           NEW m \in Nat, NEW k \in Nat, m + k <= Parts,
           Near(f, g, m), Near(h, i, k)
    PROVE  Near(FTimes(f, h), FTimes(g, i), m + k)
<1> DEFINE a == f[1]
           b == f[2]
           c == g[1]
           d == g[2]
           p == h[1]
           q == h[2]
           r == i[1]
           s == i[2]
<1>1. /\ a \in Nat /\ b \in Nat /\ c \in Nat /\ d \in Nat
      /\ p \in Nat /\ q \in Nat /\ r \in Nat /\ s \in Nat
  BY FractionParts
<1>2. Close(a * d, c * b, m) /\ Close(p * s, r * q, k)
  BY DEF Near
<1>3. /\ FTimes(f, h)[1] = a * p /\ FTimes(f, h)[2] = b * q
      /\ FTimes(g, i)[1] = c * r /\ FTimes(g, i)[2] = d * s
  BY DEF FTimes
<1> HIDE DEF a, b, c, d, p, q, r, s
<1>4. a * d \in Nat /\ c * b \in Nat /\ p * s \in Nat /\ r * q \in Nat
  BY <1>1
<1>5. Close((a * d) * (p * s), (c * b) * (r * q), m + k)
  BY <1>2, <1>4, CloseProduct
<1>6. /\ (a * d) * (p * s) = (a * p) * (d * s)
      /\ (c * b) * (r * q) = (c * r) * (b * q)
  BY <1>1
<1>7. QED
  BY <1>3, <1>5, <1>6 DEF Near

\* The reciprocals are as near.
LEMMA NearFlip ==
    ASSUME NEW f \in Positive, NEW g \in Positive, NEW m, Near(f, g, m)
    PROVE  Near(FFlip(f), FFlip(g), m)
<1>1. /\ f[1] \in Nat /\ f[2] \in Nat /\ g[1] \in Nat /\ g[2] \in Nat
  BY FractionParts DEF Positive
<1>2. f[2] * g[1] = g[1] * f[2] /\ g[2] * f[1] = f[1] * g[2]
  BY <1>1
<1>3. QED
  BY <1>2 DEF Near, FFlip, Close

\* Of sums, they are those of the summands.
LEMMA NearPlus ==
    ASSUME NEW f \in Fraction, NEW g \in Fraction,
           NEW h \in Fraction, NEW i \in Fraction,
           NEW m \in Nat, m <= Parts,
           Near(f, g, m), Near(h, i, m)
    PROVE  Near(FPlus(f, h), FPlus(g, i), m)
<1> DEFINE a == f[1]
           b == f[2]
           c == g[1]
           d == g[2]
           p == h[1]
           q == h[2]
           r == i[1]
           s == i[2]
<1>1. /\ a \in Nat /\ b \in Nat \ {0} /\ c \in Nat /\ d \in Nat \ {0}
      /\ p \in Nat /\ q \in Nat \ {0} /\ r \in Nat /\ s \in Nat \ {0}
  BY FractionParts
<1>2. Close(a * d, c * b, m) /\ Close(p * s, r * q, m)
  BY DEF Near
<1>3. /\ FPlus(f, h)[1] = a * q + p * b /\ FPlus(f, h)[2] = b * q
      /\ FPlus(g, i)[1] = c * s + r * d /\ FPlus(g, i)[2] = d * s
  BY DEF FPlus
<1> HIDE DEF a, b, c, d, p, q, r, s
<1>4. /\ a * d \in Nat /\ c * b \in Nat /\ p * s \in Nat /\ r * q \in Nat
      /\ q * s \in Nat \ {0} /\ b * d \in Nat \ {0}
  BY <1>1, ProductType
<1>5. /\ Close((a * d) * (q * s), (c * b) * (q * s), m)
      /\ Close((p * s) * (b * d), (r * q) * (b * d), m)
  BY <1>2, <1>4, CloseScaled
<1>6. /\ (a * d) * (q * s) \in Nat /\ (c * b) * (q * s) \in Nat
      /\ (p * s) * (b * d) \in Nat /\ (r * q) * (b * d) \in Nat
  BY <1>4
<1>7. Close((a * d) * (q * s) + (p * s) * (b * d),
            (c * b) * (q * s) + (r * q) * (b * d), m)
  BY <1>5, <1>6, CloseSum
<1>8. /\ (a * d) * (q * s) + (p * s) * (b * d)
            = (a * q + p * b) * (d * s)
      /\ (c * b) * (q * s) + (r * q) * (b * d)
            = (c * s + r * d) * (b * q)
  BY <1>1
<1>9. QED
  BY <1>3, <1>7, <1>8 DEF Near

\* What lies between two fractions is as near to either as they are.
LEMMA NearBetween ==
    ASSUME NEW f \in Fraction, NEW g \in Fraction, NEW h \in Fraction,
           FAtMost(f, g), FAtMost(g, h), NEW m \in Nat, m <= Parts,
           Near(f, h, m)
    PROVE  Near(f, g, m) /\ Near(g, h, m)
<1> DEFINE a == f[1]
           b == f[2]
           c == g[1]
           d == g[2]
           p == h[1]
           q == h[2]
<1>1. /\ a \in Nat /\ b \in Nat \ {0} /\ c \in Nat /\ d \in Nat \ {0}
      /\ p \in Nat /\ q \in Nat \ {0}
  BY FractionParts
<1>2. Close(a * q, p * b, m) /\ a * d <= c * b /\ c * q <= p * d
  BY DEF Near, FAtMost
<1> HIDE DEF a, b, c, d, p, q
<1>3. /\ a * q \in Nat /\ p * b \in Nat /\ a * d \in Nat /\ c * b \in Nat
      /\ c * q \in Nat /\ p * d \in Nat
  BY <1>1
<1> DEFINE x == (a * q) * d
           y == (c * b) * q
           z == (p * b) * d
<1>4. /\ x = (a * d) * q /\ y = (c * q) * b /\ z = (p * d) * b
      /\ x \in Nat /\ y \in Nat /\ z \in Nat
  BY <1>1, <1>3
<1>5. Close(x, z, m)
  BY <1>1, <1>2, <1>3, CloseScaled
<1>6. x <= y /\ y <= z
  <2>1. (a * d) * q <= (c * b) * q
    BY <1>1, <1>2, <1>3, TimesOrder
  <2>2. (c * q) * b <= (p * d) * b
    BY <1>1, <1>2, <1>3, TimesOrder
  <2>3. QED
    BY <1>4, <2>1, <2>2
<1> HIDE DEF x, y, z
<1>7. Close(x, y, m) /\ Close(y, z, m)
  BY <1>4, <1>5, <1>6, CloseBetween
<1>8. Close(a * d, c * b, m)
  <2>1. Close((a * d) * q, (c * b) * q, m)
    BY <1>4, <1>7 DEF y
  <2>2. QED
    BY <1>1, <1>3, <2>1, CloseScaled
<1>9. Close(c * q, p * d, m)
  <2>1. Close((c * q) * b, (p * d) * b, m)
    BY <1>4, <1>7
  <2>2. QED
    BY <1>1, <1>3, <2>1, CloseScaled
<1>10. QED
  BY <1>8, <1>9 DEF Near, a, b, c, d, p, q

-----------------------------------------------------------------------------
(* What an operation is off.                                               *)

AsFraction(x) == <<Num(x), Den(x)>>

\* Every operation is off by one part.
THEOREM OperationsAreNear ==
    ASSUME NEW x \in Decimal, NEW y \in Decimal
    PROVE  /\ AsFraction(x) \in Fraction
           /\ x.c # 0 <=> AsFraction(x) \in Positive
           /\ Near(AsFraction(Times(x, y)),
                   FTimes(AsFraction(x), AsFraction(y)), 1)
           /\ Near(AsFraction(Plus(x, y)),
                   FPlus(AsFraction(x), AsFraction(y)), 1)
           /\ y.c # 0 => Near(AsFraction(Over(x, y)),
                              FTimes(AsFraction(x), FFlip(AsFraction(y))), 1)
<1>1. AsFraction(x) \in Fraction /\ (x.c # 0 <=> AsFraction(x) \in Positive)
  BY FractionType DEF AsFraction, Fraction, Positive
<1>2. Near(AsFraction(Times(x, y)), FTimes(AsFraction(x), AsFraction(y)), 1)
  BY TimesFraction DEF AsFraction, FTimes, Near
<1>3. Near(AsFraction(Plus(x, y)), FPlus(AsFraction(x), AsFraction(y)), 1)
  BY PlusFraction DEF AsFraction, FPlus, Near
<1>4. ASSUME y.c # 0
      PROVE  Near(AsFraction(Over(x, y)),
                  FTimes(AsFraction(x), FFlip(AsFraction(y))), 1)
  BY <1>4, OverFraction DEF AsFraction, FTimes, FFlip, Near
<1>5. QED
  BY <1>1, <1>2, <1>3, <1>4

\* Decimals are in the order of their fractions.
LEMMA OrderOfFractions ==
    ASSUME NEW x \in Decimal, NEW y \in Decimal
    PROVE  AtMost(x, y) <=> FAtMost(AsFraction(x), AsFraction(y))
<1> DEFINE i == Floor(x)
           j == Floor(y)
           f == Least(i, j)
           a == Ten[i - f]
           b == Ten[j - f]
           m == Num(x)
           n == Num(y)
           c == Den(x)
           d == Den(y)
<1>1. /\ i \in Int /\ j \in Int /\ f \in Int
      /\ f <= i /\ f <= j /\ i <= 0 /\ j <= 0
      /\ i <= x.e /\ j <= y.e /\ f <= x.e /\ f <= y.e
      /\ m \in Nat /\ n \in Nat /\ c \in Nat \ {0} /\ d \in Nat \ {0}
      /\ m = At(x, i) /\ n = At(y, j)
  <2>1. /\ i \in Int /\ i <= 0 /\ i <= x.e
        /\ m \in Nat /\ c \in Nat \ {0} /\ m = At(x, i)
    BY FractionType
  <2>2. /\ j \in Int /\ j <= 0 /\ j <= y.e
        /\ n \in Nat /\ d \in Nat \ {0} /\ n = At(y, j)
    BY FractionType
  <2>3. x.e \in Int /\ y.e \in Int
    BY DEF Decimal
  <2> HIDE DEF i, j, m, n, c, d
  <2>4. QED
    BY <2>1, <2>2, <2>3 DEF Least
<1>2. At(x, f) = m * a /\ At(y, f) = n * b
  <2> HIDE DEF i, j, f
  <2>1. At(x, f) = At(x, i) * Ten[i - f]
    BY <1>1, AtScale
  <2>2. At(y, f) = At(y, j) * Ten[j - f]
    BY <1>1, AtScale
  <2>3. QED
    BY <1>1, <2>1, <2>2
<1>3. c * a = d * b
  <2>1. c = Ten[-i] /\ d = Ten[-j]
    BY DEF Den
  <2> HIDE DEF i, j, f, c, d
  <2>2. -i \in Nat /\ -j \in Nat /\ i - f \in Nat /\ j - f \in Nat
    BY <1>1
  <2>3. c * a = Ten[-i + (i - f)] /\ d * b = Ten[-j + (j - f)]
    BY <2>1, <2>2, TenProduct
  <2>4. -i + (i - f) = -j + (j - f)
    BY <1>1
  <2>5. QED
    BY <2>3, <2>4
<1>4. a \in Nat \ {0} /\ b \in Nat \ {0}
  <2> HIDE DEF i, j, f
  <2>1. i - f \in Nat /\ j - f \in Nat
    BY <1>1
  <2>2. QED
    BY <2>1, TenType
<1>5. AtMost(x, y) <=> m * a <= n * b
  <2> HIDE DEF f, m, n, a, b
  <2>1. QED
    BY <1>1, <1>2, AtMostAt
<1>6. AsFraction(x)[1] = m /\ AsFraction(x)[2] = c
      /\ AsFraction(y)[1] = n /\ AsFraction(y)[2] = d
  BY DEF AsFraction
<1> HIDE DEF a, b, c, d, m, n
<1>7. m * a <= n * b <=> m * d <= n * c
  <2>1. m * a <= n * b <=> (m * a) * c <= (n * b) * c
    BY <1>1, <1>4, ProductType, Scaling
  <2>2. m * d <= n * c <=> (m * d) * b <= (n * c) * b
    BY <1>1, <1>4, ProductType, Scaling
  <2>3. (m * a) * c = m * (c * a) /\ (m * d) * b = m * (d * b)
    BY <1>1, <1>4
  <2>4. (n * b) * c = (n * c) * b
    BY <1>1, <1>4
  <2>5. QED
    BY <1>3, <2>1, <2>2, <2>3, <2>4
<1>8. QED
  BY <1>5, <1>6, <1>7 DEF FAtMost

\* Fractions are in order.
LEMMA FOrder ==
    ASSUME NEW f \in Fraction, NEW g \in Fraction, NEW h \in Fraction
    PROVE  /\ FAtMost(f, g) \/ FAtMost(g, f)
           /\ FSame(f, g) <=> FAtMost(f, g) /\ FAtMost(g, f)
           /\ FAtMost(f, g) /\ FAtMost(g, h) => FAtMost(f, h)
<1> DEFINE a == f[1]
           b == f[2]
           c == g[1]
           d == g[2]
           p == h[1]
           q == h[2]
<1>1. /\ a \in Nat /\ b \in Nat \ {0} /\ c \in Nat /\ d \in Nat \ {0}
      /\ p \in Nat /\ q \in Nat \ {0}
  BY FractionParts
<1> HIDE DEF a, b, c, d, p, q
<1>2. /\ a * d \in Nat /\ c * b \in Nat /\ c * q \in Nat /\ p * d \in Nat
      /\ a * q \in Nat /\ p * b \in Nat
  BY <1>1
<1>3. ASSUME a * d <= c * b, c * q <= p * d PROVE a * q <= p * b
  <2>1. (a * d) * q <= (c * b) * q /\ (c * q) * b <= (p * d) * b
    BY <1>1, <1>2, <1>3, TimesOrder
  <2>2. /\ (a * d) * q = (a * q) * d /\ (c * b) * q = (c * q) * b
        /\ (p * d) * b = (p * b) * d
    BY <1>1
  <2>3. (a * q) * d <= (p * b) * d
    <3>1. (a * d) * q \in Nat /\ (c * b) * q \in Nat /\ (p * d) * b \in Nat
      BY <1>1, <1>2
    <3>2. QED
      BY <2>1, <2>2, <3>1
  <2>4. QED
    BY <1>1, <1>2, <2>3, Scaling
<1>4. QED
  BY <1>2, <1>3 DEF FAtMost, FSame, a, b, c, d, p, q

\* The smaller and the larger of a number and a bound stay near those of the
\* number that is meant.
LEMMA BoundIsNear ==
    ASSUME NEW c \in Decimal, NEW x \in Decimal,
           NEW b \in Fraction, NEW f \in Fraction,
           NEW m \in Nat, m <= Parts,
           FSame(AsFraction(c), b), Near(AsFraction(x), f, m)
    PROVE  /\ FAtMost(f, b) => Near(AsFraction(Smaller(c, x)), f, m)
           /\ FAtMost(b, f) => Near(AsFraction(Smaller(c, x)), b, m)
           /\ FAtMost(b, f) => Near(AsFraction(Larger(c, x)), f, m)
           /\ FAtMost(f, b) => Near(AsFraction(Larger(c, x)), b, m)
<1> DEFINE v == AsFraction(c)
           w == AsFraction(x)
<1>1. v \in Fraction /\ w \in Fraction
  BY OperationsAreNear
<1>2. AtMost(c, x) <=> FAtMost(v, w)
  BY OrderOfFractions
<1>3. FAtMost(v, b) /\ FAtMost(b, v)
  BY <1>1, FOrder
<1>4. Near(v, b, m)
  BY <1>1, NearSelf
<1>5. Near(f, w, m)
  BY <1>1, NearBack
<1>6. /\ Smaller(c, x) = (IF AtMost(c, x) THEN c ELSE x)
      /\ Larger(c, x) = (IF AtMost(c, x) THEN x ELSE c)
  BY DEF Smaller, Larger
<1>7. CASE AtMost(c, x)
  <2> HIDE DEF v, w
  <2>1. FAtMost(v, w) /\ FAtMost(b, w)
    BY <1>1, <1>2, <1>3, <1>7, FOrder
  <2>2. ASSUME FAtMost(f, b) PROVE Near(v, f, m) /\ Near(w, b, m)
    <3>1. FAtMost(f, v)
      BY <1>1, <1>3, <2>2, FOrder
    <3>2. Near(f, v, m)
      BY <1>1, <1>5, <2>1, <3>1, NearBetween
    <3>3. Near(b, w, m)
      BY <1>1, <1>5, <2>1, <2>2, NearBetween
    <3>4. QED
      BY <1>1, <3>2, <3>3, NearBack
  <2>3. QED
    BY <1>4, <1>6, <1>7, <2>2 DEF v, w
<1>8. CASE ~AtMost(c, x)
  <2> HIDE DEF v, w
  <2>1. FAtMost(w, v) /\ FAtMost(w, b)
    BY <1>1, <1>2, <1>3, <1>8, FOrder
  <2>2. ASSUME FAtMost(b, f) PROVE Near(w, b, m) /\ Near(v, f, m)
    <3>1. FAtMost(v, f)
      BY <1>1, <1>3, <2>2, FOrder
    <3>2. Near(w, f, m)
      BY DEF w
    <3>3. QED
      BY <1>1, <2>1, <2>2, <3>1, <3>2, NearBetween
  <2>3. QED
    BY <1>4, <1>6, <1>8, <2>2 DEF v, w
<1>9. QED
  BY <1>7, <1>8

\* What the factors are off adds up in a rounded product, and one part more.
LEMMA NearProduct ==
    ASSUME NEW x \in Decimal, NEW y \in Decimal,
           NEW f \in Fraction, NEW g \in Fraction,
           NEW m \in Nat, NEW k \in Nat, NEW l \in Nat,
           l = m + k + 1, l < Parts,
           Near(AsFraction(x), f, m), Near(AsFraction(y), g, k)
    PROVE  Near(AsFraction(Times(x, y)), FTimes(f, g), l)
<1> DEFINE v == AsFraction(x)
           w == AsFraction(y)
           z == AsFraction(Times(x, y))
<1>1. v \in Fraction /\ w \in Fraction /\ Near(z, FTimes(v, w), 1)
  BY OperationsAreNear
<1>2. z \in Fraction
  BY TimesType, OperationsAreNear
<1> HIDE DEF v, w, z
<1>3. FTimes(v, w) \in Fraction /\ FTimes(f, g) \in Fraction
  BY <1>1, FType
<1>4. Near(FTimes(v, w), FTimes(f, g), m + k)
  BY <1>1, NearTimes, PartsType DEF v, w
<1> DEFINE one == 1
           j == m + k
<1>5. one \in Nat /\ j \in Nat /\ one + j < Parts /\ one + j = l
  BY PartsType
<1> HIDE DEF one, j
<1>6. Near(z, FTimes(f, g), one + j)
  BY <1>1, <1>2, <1>3, <1>4, <1>5, NearThrough DEF one, j
<1>7. QED
  BY <1>5, <1>6 DEF z

\* The same for a rounded quotient,
LEMMA NearQuotient ==
    ASSUME NEW x \in Decimal, NEW y \in Decimal, y.c # 0,
           NEW f \in Fraction, NEW g \in Positive,
           NEW m \in Nat, NEW k \in Nat, NEW l \in Nat,
           l = m + k + 1, l < Parts,
           Near(AsFraction(x), f, m), Near(AsFraction(y), g, k)
    PROVE  Near(AsFraction(Over(x, y)), FTimes(f, FFlip(g)), l)
<1> DEFINE v == AsFraction(x)
           w == AsFraction(y)
           z == AsFraction(Over(x, y))
<1>1. v \in Fraction /\ w \in Positive /\ Near(z, FTimes(v, FFlip(w)), 1)
  BY OperationsAreNear
<1>2. z \in Fraction
  BY OverType, OperationsAreNear
<1>3. Near(FFlip(w), FFlip(g), k)
  BY <1>1, NearFlip
<1> DEFINE wi == FFlip(w)
           gi == FFlip(g)
<1>4. wi \in Fraction /\ gi \in Fraction
  BY <1>1, FType DEF Positive
<1>5. Near(v, f, m) /\ Near(wi, gi, k) /\ Near(z, FTimes(v, wi), 1)
  BY <1>1, <1>3
<1>6. m + k \in Nat /\ m + k <= Parts
  BY PartsType
<1> HIDE DEF v, w, z, wi, gi
<1>7. FTimes(v, wi) \in Fraction /\ FTimes(f, gi) \in Fraction
  BY <1>1, <1>4, FType
<1>8. Near(FTimes(v, wi), FTimes(f, gi), m + k)
  BY <1>1, <1>4, <1>5, <1>6, NearTimes
<1> DEFINE one == 1
           j == m + k
<1>9. one \in Nat /\ j \in Nat /\ one + j < Parts /\ one + j = l
  BY PartsType
<1> HIDE DEF one, j
<1>10. Near(z, FTimes(f, gi), one + j)
  BY <1>2, <1>5, <1>7, <1>8, <1>9, NearThrough DEF one, j
<1>11. QED
  BY <1>9, <1>10 DEF z, gi

\* and for a rounded sum of two numbers that are equally off.
LEMMA NearTotal ==
    ASSUME NEW x \in Decimal, NEW y \in Decimal,
           NEW f \in Fraction, NEW g \in Fraction,
           NEW m \in Nat, NEW l \in Nat, l = m + 1, l < Parts,
           Near(AsFraction(x), f, m), Near(AsFraction(y), g, m)
    PROVE  Near(AsFraction(Plus(x, y)), FPlus(f, g), l)
<1> DEFINE v == AsFraction(x)
           w == AsFraction(y)
           z == AsFraction(Plus(x, y))
<1>1. v \in Fraction /\ w \in Fraction /\ Near(z, FPlus(v, w), 1)
  BY OperationsAreNear
<1>2. z \in Fraction
  BY PlusType, OperationsAreNear
<1> HIDE DEF v, w, z
<1>3. FPlus(v, w) \in Fraction /\ FPlus(f, g) \in Fraction
  BY <1>1, FType
<1>4. Near(FPlus(v, w), FPlus(f, g), m)
  BY <1>1, NearPlus, PartsType DEF v, w
<1> DEFINE one == 1
<1>5. one \in Nat /\ one + m < Parts /\ one + m = l
  BY PartsType
<1> HIDE DEF one
<1>6. Near(z, FPlus(f, g), one + m)
  BY <1>1, <1>2, <1>3, <1>4, <1>5, NearThrough DEF one
<1>7. QED
  BY <1>5, <1>6 DEF z

\* A fraction may be written otherwise.
LEMMA NearSame ==
    ASSUME NEW f \in Fraction, NEW g \in Fraction, NEW h \in Fraction,
           NEW m \in Nat, m < Parts, Near(f, g, m), FSame(g, h)
    PROVE  Near(f, h, m)
<1> DEFINE o == 0
<1>1. o \in Nat /\ m + o < Parts /\ o <= Parts /\ m + o = m
  BY PartsType
<1> HIDE DEF o
<1>2. Near(g, h, o)
  BY <1>1, NearSelf
<1>3. Near(f, h, m + o)
  BY <1>1, <1>2, NearThrough
<1>4. QED
  BY <1>1, <1>3

\* Products may be taken in any order.
LEMMA FTimesOnce ==
    ASSUME NEW f \in Fraction, NEW g \in Fraction, NEW h \in Fraction
    PROVE  FTimes(FTimes(f, g), h) = FTimes(f, FTimes(g, h))
<1>1. /\ f[1] \in Nat /\ f[2] \in Nat /\ g[1] \in Nat /\ g[2] \in Nat
      /\ h[1] \in Nat /\ h[2] \in Nat
  BY FractionParts
<1>2. /\ (f[1] * g[1]) * h[1] = f[1] * (g[1] * h[1])
      /\ (f[2] * g[2]) * h[2] = f[2] * (g[2] * h[2])
  BY <1>1
<1>3. QED
  BY <1>2 DEF FTimes
=============================================================================
