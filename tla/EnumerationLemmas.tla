------------------------- MODULE EnumerationLemmas --------------------------
(***************************************************************************)
(* Facts about counting and choosing that the proofs of the other modules  *)
(* share.  The library's induction theorems take an operator, which the    *)
(* provers cannot instantiate; its theorems on well-founded relations take *)
(* sets.  So induction is stated here over a set of numbers: the set of the *)
(* numbers that have the property.                                         *)
(***************************************************************************)
EXTENDS Integers, Sequences, FiniteSetsExt, FiniteSetTheorems, TLAPS

LEMMA LeastNatural ==
  ASSUME NEW S, S \subseteq Nat, S # {}
  PROVE  \E n \in S : \A m \in S : n <= m
<1>1. \A m, n \in Nat : m < n => <<m, n>> \in OpToRel(<, Nat)
  BY Zenon DEF OpToRel
<1>2. PICK n \in S : \A m \in S : ~(<<m, n>> \in OpToRel(<, Nat))
  BY NatLessThanWellFounded, WFMin, Zenon
<1>3. \A m \in S : ~(m < n)
  BY <1>1, <1>2, Zenon
<1> QED
  BY <1>3

\* Induction: a set with 0 that is closed under successor has every natural number.
LEMMA NatSetInduction ==
  ASSUME NEW S, 0 \in S, \A n \in Nat : n \in S => n + 1 \in S
  PROVE  Nat \subseteq S
<1>1. SUFFICES ASSUME Nat \ S # {} PROVE FALSE
  OBVIOUS
<1>2. PICK n \in Nat \ S : \A m \in Nat \ S : n <= m
  BY <1>1, LeastNatural, Zenon
<1>3. n # 0 /\ n - 1 \in Nat /\ n - 1 < n
  BY <1>2
<1> QED
  BY <1>2, <1>3

\* A sequence of integers has a least element.
LEMMA LeastOfSequence ==
  ASSUME NEW n \in Nat, NEW g \in [1 .. n + 1 -> Int]
  PROVE  \E i \in 1 .. n + 1 : \A j \in 1 .. n + 1 : g[i] <= g[j]
<1> DEFINE S == {k \in Nat : \A h \in [1 .. k + 1 -> Int] :
                   \E i \in 1 .. k + 1 : \A j \in 1 .. k + 1 : h[i] <= h[j]}
<1>1. 0 \in S
  <2> SUFFICES ASSUME NEW h \in [1 .. 0 + 1 -> Int]
               PROVE  \E i \in 1 .. 0 + 1 : \A j \in 1 .. 0 + 1 : h[i] <= h[j]
    OBVIOUS
  <2>1. \A j \in 1 .. 0 + 1 : j = 1
    OBVIOUS
  <2>2. 1 \in 1 .. 0 + 1 /\ h[1] \in Int
    OBVIOUS
  <2> QED
    BY <2>1, <2>2
<1>2. ASSUME NEW k \in Nat, k \in S PROVE k + 1 \in S
  <2>0. k + 1 \in Nat
    OBVIOUS
  <2> SUFFICES ASSUME NEW h \in [1 .. (k + 1) + 1 -> Int]
               PROVE  \E i \in 1 .. (k + 1) + 1 : \A j \in 1 .. (k + 1) + 1 : h[i] <= h[j]
    BY <2>0, Zenon
  <2> DEFINE l == [j \in 1 .. k + 1 |-> h[j]]
  <2>1. l \in [1 .. k + 1 -> Int]
    OBVIOUS
  <2>2. PICK i \in 1 .. k + 1 : \A j \in 1 .. k + 1 : l[i] <= l[j]
    BY <1>2, <2>1
  <2>3. \A j \in 1 .. k + 1 : h[i] <= h[j]
    BY <2>2
  <2>4. \A j \in 1 .. (k + 1) + 1 : j \in 1 .. k + 1 \/ j = k + 2
    OBVIOUS
  <2>5. i \in 1 .. (k + 1) + 1 /\ k + 2 \in 1 .. (k + 1) + 1
    OBVIOUS
  <2>6. h[i] \in Int /\ h[k + 2] \in Int /\ \A j \in 1 .. (k + 1) + 1 : h[j] \in Int
    BY <2>5
  <2>7. CASE h[i] <= h[k + 2]
    <3>1. \A j \in 1 .. (k + 1) + 1 : h[i] <= h[j]
      BY <2>3, <2>4, <2>7
    <3> QED
      BY <2>5, <3>1
  <2>8. CASE ~(h[i] <= h[k + 2])
    <3>1. \A j \in 1 .. (k + 1) + 1 : h[k + 2] <= h[j]
      BY <2>3, <2>4, <2>6, <2>8
    <3> QED
      BY <2>5, <3>1
  <2> QED
    BY <2>7, <2>8
<1>3. n \in S
  <2> HIDE DEF S
  <2> QED
    BY <1>1, <1>2, NatSetInduction
<1> QED
  BY <1>3

\* An integer function takes its least value on a finite set.
LEMMA LeastValue ==
  ASSUME NEW S, IsFiniteSet(S), S # {}, NEW f \in [S -> Int]
  PROVE  \E x \in S : \A y \in S : f[x] <= f[y]
<1>1. PICK n \in Nat : ExistsSurjection(1 .. n, S)
  BY FS_NatSurjection
<1>2. PICK s \in [1 .. n -> S] : \A x \in S : \E i \in 1 .. n : s[i] = x
  BY <1>1 DEF ExistsSurjection, Surjection
<1>3. n - 1 \in Nat
  BY <1>2
<1> DEFINE g == [i \in 1 .. (n - 1) + 1 |-> f[s[i]]]
<1>4. g \in [1 .. (n - 1) + 1 -> Int]
  BY <1>2, <1>3
<1>5. PICK i \in 1 .. (n - 1) + 1 : \A j \in 1 .. (n - 1) + 1 : g[i] <= g[j]
  BY <1>3, <1>4, LeastOfSequence
<1>6. \A j \in 1 .. n : f[s[i]] <= f[s[j]]
  BY <1>3, <1>5
<1> QED
  BY <1>2, <1>3, <1>6

----------------------------------------------------------------------------
\* Min and Max of FiniteSetsExt on the values of an integer function over a finite set.
LEMMA MinOfValues ==
  ASSUME NEW S, IsFiniteSet(S), S # {}, NEW f \in [S -> Int]
  PROVE  /\ Min({f[x] : x \in S}) \in {f[x] : x \in S}
         /\ \A y \in S : Min({f[x] : x \in S}) <= f[y]
<1>1. PICK x \in S : \A y \in S : f[x] <= f[y]
  BY LeastValue
<1> DEFINE T == {f[y] : y \in S}
<1>2. f[x] \in T /\ \A z \in T : f[x] <= z
  BY <1>1
<1>3. Min(T) \in T /\ \A z \in T : Min(T) <= z
  <2> HIDE DEF T
  <2> QED
    BY <1>2, Zenon DEF Min
<1> QED
  BY <1>3

LEMMA MaxOfValues ==
  ASSUME NEW S, IsFiniteSet(S), S # {}, NEW f \in [S -> Int]
  PROVE  /\ Max({f[x] : x \in S}) \in {f[x] : x \in S}
         /\ \A y \in S : Max({f[x] : x \in S}) >= f[y]
<1> DEFINE minus == [x \in S |-> -f[x]]
<1>1. minus \in [S -> Int]
  OBVIOUS
<1>2. PICK x \in S : \A y \in S : minus[x] <= minus[y]
  <2> HIDE DEF minus
  <2> QED
    BY <1>1, LeastValue
<1>3. \A y \in S : f[x] >= f[y]
  BY <1>2
<1> DEFINE T == {f[y] : y \in S}
<1>4. f[x] \in T /\ \A z \in T : f[x] >= z
  BY <1>3
<1>5. Max(T) \in T /\ \A z \in T : Max(T) >= z
  <2> HIDE DEF T
  <2> QED
    BY <1>4, Zenon DEF Max
<1> QED
  BY <1>5

----------------------------------------------------------------------------
\* The rank of d in a finite set of integers is the number of its members up to d.
\* Ranks tell members apart, follow their order and count from 1 without a gap.
LEMMA RanksCount ==
  ASSUME NEW sel, sel \subseteq Int, IsFiniteSet(sel)
  PROVE  /\ \A d \in sel : Cardinality({e \in sel : e <= d}) \in 1 .. Cardinality(sel)
         /\ \A d, f \in sel : d < f =>
              Cardinality({e \in sel : e <= d}) < Cardinality({e \in sel : e <= f})
         /\ \A k \in 1 .. Cardinality(sel) :
              \E d \in sel : Cardinality({e \in sel : e <= d}) = k
<1> DEFINE Up(d) == {e \in sel : e <= d}
           r == [d \in sel |-> Cardinality(Up(d))]
<1>1. \A d \in sel : /\ IsFiniteSet(Up(d)) /\ Cardinality(Up(d)) \in Nat
                     /\ Cardinality(Up(d)) <= Cardinality(sel) /\ Cardinality(Up(d)) # 0
  <2> TAKE d \in sel
  <2>1. Up(d) \in SUBSET sel /\ d \in Up(d)
    OBVIOUS
  <2> HIDE DEF Up
  <2>2. IsFiniteSet(Up(d)) /\ Cardinality(Up(d)) <= Cardinality(sel)
    BY <2>1, FS_Subset
  <2> QED
    BY <2>1, <2>2, FS_CardinalityType, FS_EmptySet
<1>2. Cardinality(sel) \in Nat
  BY FS_CardinalityType
<1>3. \A d, f \in sel : d < f => Cardinality(Up(d)) < Cardinality(Up(f))
  <2> SUFFICES ASSUME NEW d \in sel, NEW f \in sel, d < f
               PROVE  Cardinality(Up(d)) < Cardinality(Up(f))
    OBVIOUS
  <2>0. d \in Int /\ f \in Int /\ f <= f /\ ~(f <= d) /\ \A e \in sel : e <= d => e <= f
    OBVIOUS
  <2>1. Up(d) \in SUBSET Up(f) /\ f \in Up(f) /\ f \notin Up(d)
    BY <2>0
  <2> HIDE DEF Up
  <2>2. Cardinality(Up(d)) <= Cardinality(Up(f))
        /\ (Cardinality(Up(f)) = Cardinality(Up(d)) => Up(f) = Up(d))
    BY <1>1, <2>1, FS_Subset
  <2> QED
    BY <1>1, <2>1, <2>2
<1>4. r \in [sel -> 1 .. Cardinality(sel)]
  BY <1>1, <1>2
<1>5. \A d, f \in sel : r[d] = r[f] => d = f
  <2> SUFFICES ASSUME NEW d \in sel, NEW f \in sel, r[d] = r[f], d # f PROVE FALSE
    OBVIOUS
  <2>1. d < f \/ f < d
    OBVIOUS
  <2>2. r[d] = Cardinality(Up(d)) /\ r[f] = Cardinality(Up(f)) /\ Cardinality(Up(d)) \in Nat
    BY <1>1
  <2>3. Cardinality(Up(d)) < Cardinality(Up(f)) \/ Cardinality(Up(f)) < Cardinality(Up(d))
    <3> HIDE DEF Up
    <3> QED
      BY <1>3, <2>1
  <2> QED
    BY <2>2, <2>3
<1>6. r \in Injection(sel, 1 .. Cardinality(sel))
  <2> HIDE DEF r
  <2> QED
    BY <1>4, <1>5 DEF Injection, IsInjective
<1>7. IsFiniteSet(1 .. Cardinality(sel)) /\ Cardinality(1 .. Cardinality(sel)) = Cardinality(sel)
  BY <1>2, FS_Interval
<1>8. r \in Surjection(sel, 1 .. Cardinality(sel))
  <2> HIDE DEF r
  <2> QED
    BY <1>6, <1>7, FS_Injection
<1>9. \A k \in 1 .. Cardinality(sel) : \E d \in sel : r[d] = k
  <2> HIDE DEF r
  <2> QED
    BY <1>8 DEF Surjection
<1> QED
  BY <1>3, <1>4, <1>9
=============================================================================
