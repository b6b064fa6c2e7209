------------------------------ MODULE Extrema ------------------------------
(***************************************************************************)
(* Least and greatest elements: of sets of naturals, of the values of a    *)
(* finite sequence, and of finite sets of integers; and bounds of sums and *)
(* quotients.  The proofs about the models need them wherever the code     *)
(* takes min(), max(), the head of a sorted list or a mean.                *)
(***************************************************************************)
EXTENDS Integers, FiniteSets, Functions, FiniteSetTheorems, TLAPS

\* A set of naturals that is not empty has a least element.
LEMMA LeastNatural ==
    ASSUME NEW S \in SUBSET Nat, S # {}
    PROVE  \E m \in S : \A n \in S : m <= n
  <1>1. \E m \in S : \A n \in S : ~(<<n, m>> \in OpToRel(<, Nat))
    BY NatLessThanWellFounded, WFMin
  <1>2. PICK m \in S : \A n \in S : ~(<<n, m>> \in OpToRel(<, Nat))
    BY <1>1
  <1>3. ASSUME NEW n \in S PROVE m <= n
    <2>1. ~(<<n, m>> \in OpToRel(<, Nat)) /\ <<n, m>> \in Nat \X Nat
      BY <1>2
    <2>2. ~(n < m)
      BY <2>1 DEF OpToRel
    <2> QED
      BY <2>2
  <1> QED
    BY <1>3

\* Among finitely many integers in a row, one is as large as any.
LEMMA LargestInRow ==
    ASSUME NEW n \in Nat \ {0}, NEW f, \A i \in 1 .. n : f[i] \in Int
    PROVE  \E i \in 1 .. n : \A j \in 1 .. n : f[j] <= f[i]
  <1> DEFINE Largest(k) == \E i \in 1 .. k : \A j \in 1 .. k : f[j] <= f[i]
             Bad == {k \in 1 .. n : ~Largest(k)}
  <1>1. SUFFICES ASSUME n \in Bad PROVE FALSE
    OBVIOUS
  <1>2. PICK k \in Bad : \A m \in Bad : k <= m
    <2>1. Bad \in SUBSET Nat
      OBVIOUS
    <2> HIDE DEF Bad
    <2> QED
      BY <1>1, <2>1, LeastNatural
  <1>3. k \in 1 .. n /\ ~Largest(k)
    BY <1>2
  <1>4. CASE k = 1
    <2>1. \A j \in 1 .. k : f[j] <= f[1]
      BY <1>3, <1>4
    <2> QED
      BY <1>3, <1>4, <2>1
  <1>5. CASE k > 1
    <2>1. k - 1 \in 1 .. n /\ k - 1 \notin Bad
      <3>1. k - 1 \in 1 .. n /\ ~(k <= k - 1)
        BY <1>3, <1>5
      <3> HIDE DEF Bad
      <3> QED
        BY <1>2, <3>1
    <2>2. PICK i \in 1 .. k - 1 : \A j \in 1 .. k - 1 : f[j] <= f[i]
      BY <2>1
    <2>3. f[i] \in Int /\ f[k] \in Int /\ i \in 1 .. k
      BY <1>3, <1>5
    <2>4. CASE f[k] <= f[i]
      <3>1. \A j \in 1 .. k : f[j] <= f[i]
        BY <1>3, <2>2, <2>4
      <3> QED
        BY <1>3, <2>3, <3>1
    <2>5. CASE f[i] <= f[k]
      <3>1. \A j \in 1 .. k : f[j] <= f[k]
        <4> SUFFICES ASSUME NEW j \in 1 .. k PROVE f[j] <= f[k]
          OBVIOUS
        <4>1. f[j] \in Int
          BY <1>3
        <4>2. CASE j = k
          BY <2>3, <4>2
        <4>3. CASE j \in 1 .. k - 1
          BY <2>2, <2>3, <2>5, <4>1, <4>3
        <4> QED
          BY <1>3, <4>2, <4>3
      <3> QED
        BY <1>3, <3>1
    <2> QED
      BY <2>3, <2>4, <2>5
  <1> QED
    BY <1>3, <1>4, <1>5

\* Of finitely many things that carry an integer, one carries the largest.
LEMMA LargestOfFinite ==
    ASSUME NEW S, IsFiniteSet(S), S # {},
           NEW value, \A x \in S : value[x] \in Int
    PROVE  \E x \in S : \A y \in S : value[y] <= value[x]
  <1>1. PICK n \in Nat : ExistsBijection(1 .. n, S)
    BY FS_NatBijection
  <1>2. PICK b : b \in Bijection(1 .. n, S)
    BY <1>1 DEF ExistsBijection
  <1>3. /\ \A i \in 1 .. n : b[i] \in S
        /\ \A y \in S : \E i \in 1 .. n : b[i] = y
    BY <1>2 DEF Bijection, Injection, Surjection
  <1>4. n # 0
    BY <1>3
  <1> DEFINE f == [i \in 1 .. n |-> value[b[i]]]
  <1>5. \A i \in 1 .. n : f[i] \in Int
    BY <1>3
  <1>6. PICK i \in 1 .. n : \A j \in 1 .. n : f[j] <= f[i]
    <2> HIDE DEF f
    <2> QED
      BY <1>4, <1>5, LargestInRow
  <1>7. \A y \in S : value[y] <= value[b[i]]
    BY <1>3, <1>6
  <1> QED
    BY <1>3, <1>7

\* A finite set of integers that is not empty has a largest element.
LEMMA LargestElement ==
    ASSUME NEW S \in SUBSET Int, IsFiniteSet(S), S # {}
    PROVE  \E x \in S : \A y \in S : y <= x
  <1> DEFINE value == [x \in S |-> x]
  <1>1. \A x \in S : value[x] \in Int
    OBVIOUS
  <1>2. PICK x \in S : \A y \in S : value[y] <= value[x]
    <2> HIDE DEF value
    <2> QED
      BY <1>1, LargestOfFinite
  <1> QED
    BY <1>2

\* The image of a finite set under a function is finite.
LEMMA FiniteImage ==
    ASSUME NEW S, IsFiniteSet(S), NEW f, NEW T, f = [x \in S |-> f[x]],
           T = {f[x] : x \in S}
    PROVE  IsFiniteSet(T)
  <1>1. f \in Surjection(S, T)
    BY DEF Surjection
  <1> QED
    BY <1>1, FS_Surjection

-----------------------------------------------------------------------------
(* Sums and quotients.                                                     *)

\* A sum over a finite set, as the library folds it: g gives the sum over
\* each subset of S.
Chosen(s) == CHOOSE x \in s : TRUE
Sums(g, f, S) ==
    g = [s \in SUBSET S |-> IF s = {} THEN 0 ELSE f[Chosen(s)] + g[s \ {Chosen(s)}]]

LEMMA ChosenLeaves ==
    ASSUME NEW S, IsFiniteSet(S), NEW s \in SUBSET S, s # {}
    PROVE  /\ Chosen(s) \in S /\ s \ {Chosen(s)} \in SUBSET S
           /\ Cardinality(s) \in Nat \ {0}
           /\ Cardinality(s \ {Chosen(s)}) = Cardinality(s) - 1
  <1>1. Chosen(s) \in s
    BY DEF Chosen
  <1>2. IsFiniteSet(s)
    BY FS_Subset
  <1>3. Cardinality(s) \in Nat /\ Cardinality(s) # 0
    BY <1>2, FS_CardinalityType, FS_EmptySet
  <1>4. Cardinality(s \ {Chosen(s)}) = Cardinality(s) - 1
    BY <1>1, <1>2, FS_RemoveElement
  <1> QED
    BY <1>1, <1>3, <1>4

LEMMA SumsExist ==
    ASSUME NEW S, IsFiniteSet(S), NEW f
    PROVE  \E g : Sums(g, f, S)
  <1> DEFINE Step(g, s) == IF s = {} THEN 0 ELSE f[Chosen(s)] + g[s \ {Chosen(s)}]
             Upto(g, n) == \A s \in SUBSET S : Cardinality(s) <= n => g[s] = Step(g, s)
             Bad == {n \in Nat : ~\E g : Upto(g, n)}
  <1>1. Bad = {}
    <2>1. SUFFICES ASSUME Bad # {} PROVE FALSE
      OBVIOUS
    <2>2. PICK n \in Bad : \A m \in Bad : n <= m
      <3>1. Bad \in SUBSET Nat
        OBVIOUS
      <3> HIDE DEF Bad
      <3> QED
        BY <2>1, <3>1, LeastNatural
    <2>3. n \in Nat /\ ~\E g : Upto(g, n)
      BY <2>2
    <2>4. CASE n = 0
      <3>1. PICK g : g = [s \in SUBSET S |-> 0]
        OBVIOUS
      <3>2. Upto(g, n)
        <4> SUFFICES ASSUME NEW s \in SUBSET S, Cardinality(s) <= n
                     PROVE  g[s] = Step(g, s)
          OBVIOUS
        <4>1. s = {}
          <5>1. ASSUME s # {} PROVE FALSE
            <6>1. Cardinality(s) \in Nat \ {0}
              BY <5>1, ChosenLeaves
            <6> QED
              BY <2>4, <6>1
          <5> QED
            BY <5>1
        <4> QED
          BY <3>1, <4>1
      <3> HIDE DEF Upto
      <3> QED
        BY <2>3, <3>2
    <2>5. CASE n # 0
      <3>1. n - 1 \in Nat /\ n - 1 \notin Bad
        <4>1. n - 1 \in Nat /\ ~(n <= n - 1)
          BY <2>3, <2>5
        <4> HIDE DEF Bad
        <4> QED
          BY <2>2, <4>1
      <3>2. PICK h : Upto(h, n - 1)
        BY <3>1
      <3>3. PICK g : g = [s \in SUBSET S |-> Step(h, s)]
        OBVIOUS
      <3>4. Upto(g, n)
        <4> SUFFICES ASSUME NEW s \in SUBSET S, Cardinality(s) <= n
                     PROVE  g[s] = Step(g, s)
          OBVIOUS
        <4>1. CASE s = {}
          BY <3>3, <4>1
        <4>2. CASE s # {}
          <5>1. PICK r : r = s \ {Chosen(s)}
            OBVIOUS
          <5>2. r \in SUBSET S /\ Cardinality(r) <= n - 1
            BY <2>3, <4>2, <5>1, ChosenLeaves
          <5>3. h[r] = Step(h, r)
            BY <3>2, <5>2
          <5>4. g[r] = Step(h, r) /\ g[s] = Step(h, s)
            BY <3>3, <5>2
          <5>5. Step(h, s) = f[Chosen(s)] + h[r] /\ Step(g, s) = f[Chosen(s)] + g[r]
            BY <4>2, <5>1
          <5> HIDE DEF Step
          <5> QED
            BY <5>3, <5>4, <5>5
        <4> QED
          BY <4>1, <4>2
      <3> HIDE DEF Upto
      <3> QED
        BY <2>3, <3>4
    <2> QED
      BY <2>4, <2>5
  <1>2. Cardinality(S) \in Nat
    BY FS_CardinalityType
  <1>3. PICK g : Upto(g, Cardinality(S))
    BY <1>1, <1>2
  <1>4. PICK h : h = [s \in SUBSET S |-> Step(g, s)]
    OBVIOUS
  <1>5. \A s \in SUBSET S : g[s] = Step(g, s)
    <2> SUFFICES ASSUME NEW s \in SUBSET S PROVE g[s] = Step(g, s)
      OBVIOUS
    <2>1. Cardinality(s) <= Cardinality(S)
      BY FS_Subset
    <2> HIDE DEF Step
    <2> QED
      BY <1>3, <2>1
  <1>6. \A s \in SUBSET S : h[s] = g[s]
    <2> HIDE DEF Step
    <2> QED
    BY <1>4, <1>5
  <1>7. \A s \in SUBSET S : Step(g, s) = Step(h, s)
    BY <1>6, ChosenLeaves
  <1>8. h = [s \in SUBSET S |-> Step(h, s)]
    <2> HIDE DEF Step
    <2> QED
      BY <1>4, <1>7
  <1> QED
    BY <1>8 DEF Sums

\* A sum of n integers between -u and u lies between -u * n and u * n.
LEMMA SumIsBounded ==
    ASSUME NEW S, IsFiniteSet(S), NEW f, NEW u \in Nat,
           \A x \in S : f[x] \in -u .. u
    PROVE  /\ SumFunctionOnSet(f, S) \in Int
           /\ -(u * Cardinality(S)) <= SumFunctionOnSet(f, S)
           /\ SumFunctionOnSet(f, S) <= u * Cardinality(S)
  <1> DEFINE g == CHOOSE h : Sums(h, f, S)
             Fits(s) == /\ g[s] \in Int
                        /\ -(u * Cardinality(s)) <= g[s]
                        /\ g[s] <= u * Cardinality(s)
             Bad == {n \in Nat : \E s \in SUBSET S : Cardinality(s) = n /\ ~Fits(s)}
  <1>1. SumFunctionOnSet(f, S) = g[S]
    BY DEF SumFunctionOnSet, FoldFunctionOnSet, MapThenFoldSet, Sums, Chosen
  <1>2. Sums(g, f, S)
    BY SumsExist
  <1>3. \A s \in SUBSET S :
           g[s] = IF s = {} THEN 0 ELSE f[Chosen(s)] + g[s \ {Chosen(s)}]
    <2> HIDE DEF g
    <2> QED
      BY <1>2 DEF Sums
  <1> HIDE DEF g
  <1>4. Bad = {}
    <2>1. SUFFICES ASSUME Bad # {} PROVE FALSE
      OBVIOUS
    <2>2. PICK n \in Bad : \A m \in Bad : n <= m
      <3>1. Bad \in SUBSET Nat
        OBVIOUS
      <3> HIDE DEF Bad
      <3> QED
        BY <2>1, <3>1, LeastNatural
    <2>3. PICK s \in SUBSET S : n \in Nat /\ Cardinality(s) = n /\ ~Fits(s)
      BY <2>2
    <2>4. CASE s = {}
      <3>1. g[s] = 0 /\ Cardinality(s) = 0
        BY <1>3, <2>4, FS_EmptySet
      <3>2. u * 0 = 0
        OBVIOUS
      <3> QED
        BY <2>3, <3>1, <3>2
    <2>5. CASE s # {}
      <3>1. PICK r : r = s \ {Chosen(s)}
        OBVIOUS
      <3>2. /\ Chosen(s) \in S /\ r \in SUBSET S /\ n \in Nat \ {0}
            /\ Cardinality(r) = n - 1
        BY <2>3, <2>5, <3>1, ChosenLeaves
      <3>3. Fits(r)
        <4>1. n - 1 \in Nat /\ ~(n <= n - 1)
          BY <3>2
        <4>2. n - 1 \notin Bad
          <5> HIDE DEF Bad
          <5> QED
            BY <2>2, <4>1
        <4> HIDE DEF Fits
        <4> QED
          BY <3>2, <4>1, <4>2
      <3>4. g[s] = f[Chosen(s)] + g[r]
        BY <1>3, <2>5, <3>1
      <3>5. f[Chosen(s)] \in Int /\ -u <= f[Chosen(s)] /\ f[Chosen(s)] <= u
        BY <3>2
      <3>6. u * n = u * (n - 1) + u /\ u * n \in Int /\ u * (n - 1) \in Int
        BY <3>2
      <3>7. g[r] \in Int /\ -(u * (n - 1)) <= g[r] /\ g[r] <= u * (n - 1)
        BY <3>2, <3>3
      <3>8. g[s] \in Int /\ -(u * n) <= g[s] /\ g[s] <= u * n
        BY <3>4, <3>5, <3>6, <3>7
      <3> QED
        BY <2>3, <3>8
    <2> QED
      BY <2>4, <2>5
  <1>5. Cardinality(S) \in Nat
    BY FS_CardinalityType
  <1>6. Fits(S)
    <2> HIDE DEF Fits
    <2> QED
      BY <1>4, <1>5
  <1> QED
    BY <1>1, <1>6

\* A quotient rounded down keeps the bounds of what it divides.
LEMMA QuotientIsBounded ==
    ASSUME NEW n \in Nat \ {0}, NEW a \in Int, NEW b \in Int, NEW c \in Int,
           b * n <= a, a <= c * n
    PROVE  a \div n \in b .. c
  <1>1. PICK q : q = a \div n
    OBVIOUS
  <1>2. q \in Int /\ n * q <= a /\ a < n * q + n
    BY <1>1
  <1>3. ~(q < b)
    <2>1. SUFFICES ASSUME q + 1 <= b PROVE FALSE
      BY <1>2
    <2>2. n * (q + 1) <= n * b
      BY <1>2, <2>1
    <2> QED
      BY <1>2, <2>2
  <1>4. ~(c < q)
    <2>1. SUFFICES ASSUME c + 1 <= q PROVE FALSE
      BY <1>2
    <2>2. n * (c + 1) <= n * q
      BY <1>2, <2>1
    <2> QED
      BY <1>2, <2>2
  <1> QED
    BY <1>1, <1>2, <1>3, <1>4
=============================================================================
