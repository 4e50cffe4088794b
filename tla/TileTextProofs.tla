--------------------------- MODULE TileTextProofs ---------------------------
(***************************************************************************)
(* Proofs about the text of the tile operations, for any maps, operand     *)
(* lists, views and names.                                                 *)
(***************************************************************************)
EXTENDS TileText, EnumerationLemmas, SequenceTheorems, TLAPS

----------------------------------------------------------------------------
(* Sequences *)

\* A function on an initial segment is a sequence.
LEMMA FunctionIsSeq ==
  ASSUME NEW S, NEW n \in Nat, NEW f \in [1 .. n -> S]
  PROVE  f \in Seq(S) /\ Len(f) = n /\ DOMAIN f = 1 .. n
<1>1. f \in Seq(S) /\ DOMAIN f = 1 .. n
  BY SeqDef
<1>2. Len(f) \in Nat /\ DOMAIN f = 1 .. Len(f)
  BY <1>1, LenProperties
<1> QED
  BY <1>1, <1>2

\* Where the elements of a concatenation come from.
LEMMA ConcatParts ==
  ASSUME NEW S, NEW s \in Seq(S), NEW t \in Seq(S)
  PROVE  /\ s \o t \in Seq(S) /\ Len(s \o t) = Len(s) + Len(t)
         /\ Len(s) \in Nat /\ Len(t) \in Nat
         /\ \A p \in 1 .. Len(s) : p \in 1 .. Len(s \o t)
         /\ \A p \in 1 .. Len(s) : (s \o t)[p] = s[p]
         /\ \A p \in 1 .. Len(t) : Len(s) + p \in 1 .. Len(s \o t)
         /\ \A p \in 1 .. Len(t) : (s \o t)[Len(s) + p] = t[p]
         /\ \A p \in 1 .. Len(s \o t) :
              p \in 1 .. Len(s) \/ (p - Len(s) \in 1 .. Len(t) /\ p = Len(s) + (p - Len(s)))
<1>1. Len(s) \in Nat /\ Len(t) \in Nat
  BY LenProperties
<1>2. /\ s \o t \in Seq(S) /\ Len(s \o t) = Len(s) + Len(t)
      /\ \A p \in 1 .. Len(s) + Len(t) :
           (s \o t)[p] = IF p <= Len(s) THEN s[p] ELSE t[p - Len(s)]
  BY ConcatProperties, Zenon
<1>3. ASSUME NEW p \in 1 .. Len(s) PROVE p \in 1 .. Len(s \o t) /\ (s \o t)[p] = s[p]
  <2>1. p \in 1 .. Len(s) + Len(t) /\ p <= Len(s)
    BY <1>1
  <2> QED
    BY <1>2, <2>1, Zenon
<1>4. ASSUME NEW p \in 1 .. Len(t)
      PROVE  Len(s) + p \in 1 .. Len(s \o t) /\ (s \o t)[Len(s) + p] = t[p]
  <2>1. Len(s) + p \in 1 .. Len(s) + Len(t) /\ ~(Len(s) + p <= Len(s))
        /\ (Len(s) + p) - Len(s) = p
    BY <1>1
  <2> QED
    BY <1>2, <2>1, Zenon
<1>5. ASSUME NEW p \in 1 .. Len(s \o t)
      PROVE  p \in 1 .. Len(s) \/ (p - Len(s) \in 1 .. Len(t) /\ p = Len(s) + (p - Len(s)))
  <2>1. p \in 1 .. Len(s) + Len(t)
    BY <1>2, Zenon
  <2> QED
    BY <1>1, <2>1
<1> QED
  BY <1>1, <1>2, <1>3, <1>4, <1>5

LEMMA ConcatRelated ==
  ASSUME NEW S, NEW s \in Seq(S), NEW t \in Seq(S), NEW T, NEW u \in Seq(T), NEW v \in Seq(T),
         NEW R,
         Len(s) = Len(u), \A p \in 1 .. Len(s) : <<s[p], u[p]>> \in R,
         Len(t) = Len(v), \A p \in 1 .. Len(t) : <<t[p], v[p]>> \in R
  PROVE  /\ Len(s \o t) = Len(u \o v)
         /\ \A p \in 1 .. Len(s \o t) : <<(s \o t)[p], (u \o v)[p]>> \in R
<1>1. /\ Len(s \o t) = Len(s) + Len(t) /\ Len(u \o v) = Len(u) + Len(v)
      /\ \A p \in 1 .. Len(s \o t) :
           p \in 1 .. Len(s) \/ (p - Len(s) \in 1 .. Len(t) /\ p = Len(s) + (p - Len(s)))
  BY ConcatParts
<1>5. /\ \A p \in 1 .. Len(s) : (s \o t)[p] = s[p]
      /\ \A p \in 1 .. Len(t) : (s \o t)[Len(s) + p] = t[p]
  BY ConcatParts, SMTT(30)
<1>6. /\ \A p \in 1 .. Len(u) : (u \o v)[p] = u[p]
      /\ \A p \in 1 .. Len(v) : (u \o v)[Len(u) + p] = v[p]
  BY ConcatParts
<1>2. \A p \in 1 .. Len(s) : (s \o t)[p] = s[p] /\ (u \o v)[p] = u[p]
  BY <1>5, <1>6, Zenon
<1>3. \A p \in 1 .. Len(t) : (s \o t)[Len(s) + p] = t[p] /\ (u \o v)[Len(s) + p] = v[p]
  BY <1>5, <1>6, Zenon
<1>4. ASSUME NEW p \in 1 .. Len(s \o t) PROVE <<(s \o t)[p], (u \o v)[p]>> \in R
  <2>1. CASE p \in 1 .. Len(s)
    BY <2>1, <1>2, Zenon
  <2>2. CASE p - Len(s) \in 1 .. Len(t) /\ p = Len(s) + (p - Len(s))
    <3>1. (s \o t)[p] = t[p - Len(s)] /\ (u \o v)[p] = v[p - Len(s)]
      BY <2>2, <1>3, Zenon
    <3> QED
      BY <2>2, <3>1, Zenon
  <2> QED
    BY <1>1, <2>1, <2>2, Zenon
<1> QED
  BY <1>1, <1>4

----------------------------------------------------------------------------
(* Positions in ascending order. *)

\* Counting through a set of positions visits each of them once.
LEMMA NthFacts ==
  ASSUME NEW sel, sel \subseteq Int, IsFiniteSet(sel)
  PROVE  /\ Cardinality(sel) \in Nat
         /\ \A n \in 1 .. Cardinality(sel) :
              /\ Nth(sel, n) \in sel
              /\ Cardinality({j \in sel : j <= Nth(sel, n)}) = n
         /\ \A i \in sel : \E n \in 1 .. Cardinality(sel) :
              n = Cardinality({j \in sel : j <= i}) /\ Nth(sel, n) = i
<1>1. Cardinality(sel) \in Nat
  BY FS_CardinalityType
<1> DEFINE Rank(i) == Cardinality({j \in sel : j <= i})
<1>2. /\ \A i \in sel : Rank(i) \in 1 .. Cardinality(sel)
      /\ \A i, j \in sel : i < j => Rank(i) < Rank(j)
      /\ \A n \in 1 .. Cardinality(sel) : \E i \in sel : Rank(i) = n
  BY RanksCount
<1>3. \A n \in 1 .. Cardinality(sel) : Nth(sel, n) \in sel /\ Rank(Nth(sel, n)) = n
  <2> TAKE n \in 1 .. Cardinality(sel)
  <2>1. \E i \in sel : Rank(i) = n
    BY <1>2
  <2>2. Nth(sel, n) = CHOOSE i \in sel : Rank(i) = n
    BY DEF Nth
  <2> HIDE DEF Rank
  <2> QED
    BY <2>1, <2>2, Zenon
<1>4. \A i, j \in sel : Rank(i) = Rank(j) => i = j
  <2> SUFFICES ASSUME NEW i \in sel, NEW j \in sel, Rank(i) = Rank(j), i # j PROVE FALSE
    OBVIOUS
  <2>1. Rank(i) \in Int /\ (i < j \/ j < i)
    BY <1>2
  <2>2. Rank(i) < Rank(j) \/ Rank(j) < Rank(i)
    <3> HIDE DEF Rank
    <3> QED
      BY <1>2, <2>1
  <2> QED
    BY <2>1, <2>2
<1>5. ASSUME NEW i \in sel PROVE Nth(sel, Rank(i)) = i
  <2> HIDE DEF Rank
  <2> QED
    BY <1>2, <1>3, <1>4
<1> QED
  BY <1>1, <1>2, <1>3, <1>5

LEMMA PositionsFinite ==
  ASSUME NEW S, NEW s \in Seq(S), NEW sel, sel \subseteq DOMAIN s
  PROVE  sel \subseteq Int /\ IsFiniteSet(sel)
<1>1. Len(s) \in Nat /\ DOMAIN s = 1 .. Len(s)
  BY LenProperties
<1>2. IsFiniteSet(1 .. Len(s))
  BY <1>1, FS_Interval
<1> QED
  BY <1>1, <1>2, FS_Subset

\* Picking keeps the elements at the positions, each once.
LEMMA PickedFacts ==
  ASSUME NEW S, NEW s \in Seq(S), NEW sel, sel \subseteq DOMAIN s
  PROVE  /\ Picked(s, sel) \in Seq(S)
         /\ Len(Picked(s, sel)) = Cardinality(sel) /\ Cardinality(sel) \in Nat
         /\ DOMAIN Picked(s, sel) = 1 .. Cardinality(sel)
         /\ \A n \in 1 .. Cardinality(sel) :
              Nth(sel, n) \in sel /\ Picked(s, sel)[n] = s[Nth(sel, n)]
         /\ \A i \in sel : \E n \in 1 .. Cardinality(sel) : Picked(s, sel)[n] = s[i]
         /\ \A m, n \in 1 .. Cardinality(sel) : Nth(sel, m) = Nth(sel, n) => m = n
<1>1. sel \subseteq Int /\ IsFiniteSet(sel)
  BY PositionsFinite
<1>2. /\ Cardinality(sel) \in Nat
      /\ \A n \in 1 .. Cardinality(sel) :
           Nth(sel, n) \in sel /\ Cardinality({j \in sel : j <= Nth(sel, n)}) = n
      /\ \A i \in sel : \E n \in 1 .. Cardinality(sel) : Nth(sel, n) = i
  BY <1>1, NthFacts
<1>3. \A i \in sel : s[i] \in S
  BY ElementOfSeq, LenProperties
<1>4. Picked(s, sel) \in [1 .. Cardinality(sel) -> S]
  BY <1>2, <1>3 DEF Picked
<1>5. Picked(s, sel) \in Seq(S) /\ Len(Picked(s, sel)) = Cardinality(sel)
  BY <1>2, <1>4, FunctionIsSeq, LenProperties
<1>6. \A n \in 1 .. Cardinality(sel) : Picked(s, sel)[n] = s[Nth(sel, n)]
  BY DEF Picked
<1> QED
  BY <1>2, <1>4, <1>5, <1>6

----------------------------------------------------------------------------
(* FlattenSeq. *)

\* The function that FlattenSeq chooses exists, so that it obeys its recursion.
LEMMA FlattenUnfolds ==
  ASSUME NEW S, NEW seqs \in Seq(Seq(S))
  PROVE  \E g \in [1 .. Len(seqs) -> Seq(S)] :
           /\ \A i \in 1 .. Len(seqs) : g[i] = IF i = 1 THEN seqs[i] ELSE g[i - 1] \o seqs[i]
           /\ FlattenSeq(seqs) = IF Len(seqs) = 0 THEN seqs ELSE g[Len(seqs)]
<1>1. Len(seqs) \in Nat /\ \A i \in 1 .. Len(seqs) : seqs[i] \in Seq(S)
  BY LenProperties, ElementOfSeq
<1> DEFINE Obeys(n, g) == \A i \in 1 .. n : g[i] = IF i = 1 THEN seqs[i] ELSE g[i - 1] \o seqs[i]
           T == {n \in Nat : n <= Len(seqs) => \E g \in [1 .. n -> Seq(S)] : Obeys(n, g)}
<1>2. 0 \in T
  <2>1. [i \in 1 .. 0 |-> seqs[i]] \in [1 .. 0 -> Seq(S)]
    OBVIOUS
  <2>2. \A i \in 1 .. 0 : FALSE
    OBVIOUS
  <2>3. Obeys(0, [i \in 1 .. 0 |-> seqs[i]])
    BY <2>2, Zenon
  <2> HIDE DEF Obeys
  <2> QED
    BY <2>1, <2>3
<1>3. ASSUME NEW n \in Nat, n \in T PROVE n + 1 \in T
  <2>0. n + 1 \in Nat
    OBVIOUS
  <2> SUFFICES ASSUME n + 1 <= Len(seqs)
               PROVE  \E g \in [1 .. n + 1 -> Seq(S)] : Obeys(n + 1, g)
    BY <2>0, Zenon
  <2>1. n <= Len(seqs) /\ n + 1 \in 1 .. Len(seqs)
    BY <1>1
  <2>2. PICK f \in [1 .. n -> Seq(S)] : Obeys(n, f)
    BY <1>3, <2>1
  <2> DEFINE last == IF n + 1 = 1 THEN seqs[n + 1] ELSE f[n] \o seqs[n + 1]
             h == [i \in 1 .. n + 1 |-> IF i = n + 1 THEN last ELSE f[i]]
  <2>3. last \in Seq(S)
    <3>1. seqs[n + 1] \in Seq(S)
      BY <1>1, <2>1
    <3>2. CASE n = 0
      BY <3>1, <3>2
    <3>3. CASE n # 0
      <4>1. f[n] \in Seq(S)
        BY <3>3, <2>2
      <4>2. f[n] \o seqs[n + 1] \in Seq(S)
        BY <3>1, <4>1, ConcatProperties
      <4> QED
        BY <3>3, <4>2
    <3> QED
      BY <3>2, <3>3
  <2>4. h \in [1 .. n + 1 -> Seq(S)]
    <3> HIDE DEF last
    <3> QED
      BY <2>3, <2>2
  <2>5. \A i \in 1 .. n : h[i] = f[i]
    <3> HIDE DEF last
    <3> QED
      OBVIOUS
  <2>6. h[n + 1] = last
    OBVIOUS
  <2>7. Obeys(n + 1, h)
    <3> SUFFICES ASSUME NEW i \in 1 .. n + 1
                 PROVE  h[i] = IF i = 1 THEN seqs[i] ELSE h[i - 1] \o seqs[i]
      OBVIOUS
    <3>1. CASE i = n + 1 /\ i = 1
      BY <3>1, <2>6
    <3>2. CASE i = n + 1 /\ i # 1
      <4>1. n \in 1 .. n /\ i - 1 = n /\ h[i - 1] = f[n]
        BY <3>2
      <4> HIDE DEF h
      <4> QED
        BY <4>1, <3>2, <2>6
    <3>3. CASE i # n + 1
      <4>1. i \in 1 .. n /\ (i # 1 => i - 1 \in 1 .. n)
        BY <3>3
      <4>2. h[i] = f[i] /\ (i # 1 => h[i - 1] = f[i - 1])
        BY <4>1, <2>5
      <4> HIDE DEF h
      <4> QED
        BY <4>1, <4>2, <2>2
    <3> QED
      BY <3>1, <3>2, <3>3
  <2> QED
    <3> HIDE DEF h, Obeys
    <3> QED
      BY <2>4, <2>7
<1>4. Len(seqs) \in T
  <2> HIDE DEF T
  <2> QED
    BY <1>1, <1>2, <1>3, NatSetInduction
<1> DEFINE Rec(g) == [i \in 1 .. Len(seqs) |-> IF i = 1 THEN seqs[i] ELSE g[i - 1] \o seqs[i]]
<1>5. PICK f \in [1 .. Len(seqs) -> Seq(S)] : Obeys(Len(seqs), f)
  BY <1>1, <1>4
<1>6. f = Rec(f)
  BY <1>5
<1> DEFINE g == CHOOSE g : g = Rec(g)
<1>7. g = Rec(g)
  <2> HIDE DEF Rec
  <2> QED
    BY <1>6
<1>8. FlattenSeq(seqs) = IF Len(seqs) = 0 THEN seqs ELSE g[Len(seqs)]
  BY DEF FlattenSeq
<1> HIDE DEF g
<1>9. DOMAIN g = 1 .. Len(seqs) /\ Obeys(Len(seqs), g) /\ g = [i \in 1 .. Len(seqs) |-> g[i]]
  BY <1>7
<1> DEFINE G == {n \in Nat : n \in 1 .. Len(seqs) => g[n] \in Seq(S)}
<1>10. 0 \in G
  OBVIOUS
<1>11. ASSUME NEW n \in Nat, n \in G PROVE n + 1 \in G
  <2> SUFFICES ASSUME n + 1 \in 1 .. Len(seqs) PROVE g[n + 1] \in Seq(S)
    OBVIOUS
  <2>1. seqs[n + 1] \in Seq(S)
    BY <1>1
  <2>4. g[n + 1] = IF n + 1 = 1 THEN seqs[n + 1] ELSE g[(n + 1) - 1] \o seqs[n + 1]
    BY <1>9, Zenon
  <2>2. CASE n = 0
    BY <2>1, <2>2, <2>4
  <2>3. CASE n # 0
    <3>0. n \in 1 .. Len(seqs) /\ n + 1 # 1 /\ (n + 1) - 1 = n
      BY <2>3, <1>1
    <3>1. n \in 1 .. Len(seqs) /\ g[n + 1] = g[n] \o seqs[n + 1]
      BY <3>0, <2>4, Zenon
    <3>2. g[n] \in Seq(S)
      BY <3>1, <1>11
    <3> QED
      BY <2>1, <3>1, <3>2, ConcatProperties
  <2> QED
    BY <2>2, <2>3
<1>12. Nat \subseteq G
  <2> HIDE DEF G
  <2> QED
    BY <1>10, <1>11, NatSetInduction
<1>13. \A n \in 1 .. Len(seqs) : g[n] \in Seq(S)
  BY <1>12, <1>1
<1>14. g \in [1 .. Len(seqs) -> Seq(S)]
  BY <1>9, <1>13
<1> QED
  BY <1>8, <1>9, <1>14

\* Flattening has the elements of the parts and no other.
LEMMA FlattenFacts ==
  ASSUME NEW S, NEW seqs \in Seq(Seq(S))
  PROVE  /\ FlattenSeq(seqs) \in Seq(S)
         /\ \A i \in 1 .. Len(seqs) : \A j \in 1 .. Len(seqs[i]) :
              \E p \in 1 .. Len(FlattenSeq(seqs)) : FlattenSeq(seqs)[p] = seqs[i][j]
<1>1. Len(seqs) \in Nat /\ \A i \in 1 .. Len(seqs) : seqs[i] \in Seq(S)
  BY LenProperties, ElementOfSeq
<1>2. PICK g \in [1 .. Len(seqs) -> Seq(S)] :
        /\ \A i \in 1 .. Len(seqs) : g[i] = IF i = 1 THEN seqs[i] ELSE g[i - 1] \o seqs[i]
        /\ FlattenSeq(seqs) = IF Len(seqs) = 0 THEN seqs ELSE g[Len(seqs)]
  BY FlattenUnfolds
<1> DEFINE Has(n, i) == \A j \in 1 .. Len(seqs[i]) : \E p \in 1 .. Len(g[n]) : g[n][p] = seqs[i][j]
           T == {n \in Nat : n \in 1 .. Len(seqs) => \A i \in 1 .. n : Has(n, i)}
<1>3. 0 \in T
  OBVIOUS
<1>4. ASSUME NEW n \in Nat, n \in T PROVE n + 1 \in T
  <2>0. n + 1 \in Nat
    OBVIOUS
  <2> SUFFICES ASSUME n + 1 \in 1 .. Len(seqs), NEW i \in 1 .. n + 1 PROVE Has(n + 1, i)
    BY <2>0, Zenon
  <2>1. g[n + 1] = IF n + 1 = 1 THEN seqs[n + 1] ELSE g[(n + 1) - 1] \o seqs[n + 1]
    BY <1>2, Zenon
  <2>2. CASE n = 0
    <3>1. i = 1 /\ n + 1 = 1
      BY <2>2
    <3>2. g[n + 1] = seqs[i]
      BY <3>1, <2>1, Zenon
    <3> QED
      BY <3>2
  <2>3. CASE n # 0
    <3>1. n \in 1 .. Len(seqs) /\ n + 1 # 1 /\ (n + 1) - 1 = n
      BY <2>3, <1>1
    <3>2. g[n + 1] = g[n] \o seqs[n + 1] /\ g[n] \in Seq(S) /\ seqs[n + 1] \in Seq(S)
      BY <3>1, <2>1, <1>1
    <3>3. /\ \A p \in 1 .. Len(g[n]) : p \in 1 .. Len(g[n] \o seqs[n + 1])
          /\ \A p \in 1 .. Len(g[n]) : (g[n] \o seqs[n + 1])[p] = g[n][p]
          /\ \A p \in 1 .. Len(seqs[n + 1]) : Len(g[n]) + p \in 1 .. Len(g[n] \o seqs[n + 1])
          /\ \A p \in 1 .. Len(seqs[n + 1]) :
               (g[n] \o seqs[n + 1])[Len(g[n]) + p] = seqs[n + 1][p]
      <4>1. g[n] \in Seq(S) /\ seqs[n + 1] \in Seq(S)
        BY <3>2
      <4> DEFINE u == g[n]
                 v == seqs[n + 1]
      <4>2. u \in Seq(S) /\ v \in Seq(S)
        BY <4>1
      <4> HIDE DEF u, v
      <4>3. /\ \A p \in 1 .. Len(u) : p \in 1 .. Len(u \o v)
            /\ \A p \in 1 .. Len(u) : (u \o v)[p] = u[p]
        BY <4>2, ConcatParts
      <4>4. \A p \in 1 .. Len(v) : Len(u) + p \in 1 .. Len(u \o v)
        BY <4>2, ConcatParts, SMTT(30)
      <4>5. \A p \in 1 .. Len(v) : (u \o v)[Len(u) + p] = v[p]
        BY <4>2, ConcatParts, SMTT(30)
      <4> QED
        BY <4>3, <4>4, <4>5, Zenon DEF u, v
    <3>5. SUFFICES ASSUME NEW j \in 1 .. Len(seqs[i])
                   PROVE  \E p \in 1 .. Len(g[n + 1]) : g[n + 1][p] = seqs[i][j]
      OBVIOUS
    <3>6. CASE i = n + 1
      <4>1. j \in 1 .. Len(seqs[n + 1])
        BY <3>6
      <4>2. Len(g[n]) + j \in 1 .. Len(g[n + 1]) /\ g[n + 1][Len(g[n]) + j] = seqs[n + 1][j]
        BY <3>2, <3>3, <4>1, Zenon
      <4> QED
        BY <4>2, <3>6, Zenon
    <3>7. CASE i # n + 1
      <4>1. i \in 1 .. n
        BY <3>7
      <4>2. PICK p \in 1 .. Len(g[n]) : g[n][p] = seqs[i][j]
        BY <4>1, <1>4, <3>1
      <4>3. p \in 1 .. Len(g[n + 1]) /\ g[n + 1][p] = g[n][p]
        BY <3>2, <3>3, Zenon
      <4> QED
        BY <4>2, <4>3, Zenon
    <3> QED
      BY <3>6, <3>7
  <2> QED
    BY <2>2, <2>3
<1>5. Nat \subseteq T
  <2> HIDE DEF T
  <2> QED
    BY <1>3, <1>4, NatSetInduction
<1>6. CASE Len(seqs) = 0
  <2>1. seqs = <<>> /\ FlattenSeq(seqs) = seqs
    BY <1>6, <1>2, EmptySeq
  <2>2. \A i \in 1 .. Len(seqs) : FALSE
    BY <1>6
  <2>3. FlattenSeq(seqs) \in Seq(S)
    BY <2>1, EmptySeq
  <2> QED
    BY <2>2, <2>3, Zenon
<1>7. CASE Len(seqs) # 0
  <2>1. Len(seqs) \in 1 .. Len(seqs) /\ FlattenSeq(seqs) = g[Len(seqs)]
    BY <1>7, <1>1, <1>2
  <2>2. \A i \in 1 .. Len(seqs) : Has(Len(seqs), i)
    BY <2>1, <1>5, <1>1
  <2>3. FlattenSeq(seqs) \in Seq(S)
    BY <2>1, <1>2
  <2>4. ASSUME NEW i \in 1 .. Len(seqs), NEW j \in 1 .. Len(seqs[i])
        PROVE  \E p \in 1 .. Len(FlattenSeq(seqs)) : FlattenSeq(seqs)[p] = seqs[i][j]
    <3>1. \E p \in 1 .. Len(g[Len(seqs)]) : g[Len(seqs)][p] = seqs[i][j]
      BY <2>2, Zenon
    <3> QED
      BY <2>1, <3>1
  <2> QED
    BY <2>3, <2>4, Zenon
<1> QED
  BY <1>6, <1>7

\* What relates the parts element by element relates the flattened sequences.
LEMMA FlattenRelated ==
  ASSUME NEW S, NEW seqs \in Seq(Seq(S)), NEW T, NEW others \in Seq(Seq(T)), NEW R,
         Len(seqs) = Len(others),
         \A i \in 1 .. Len(seqs) : /\ Len(seqs[i]) = Len(others[i])
                                   /\ \A j \in 1 .. Len(seqs[i]) : <<seqs[i][j], others[i][j]>> \in R
  PROVE  /\ Len(FlattenSeq(seqs)) = Len(FlattenSeq(others))
         /\ \A p \in 1 .. Len(FlattenSeq(seqs)) : <<FlattenSeq(seqs)[p], FlattenSeq(others)[p]>> \in R
<1>1. /\ Len(seqs) \in Nat
      /\ \A i \in 1 .. Len(seqs) : seqs[i] \in Seq(S) /\ others[i] \in Seq(T)
  BY LenProperties, ElementOfSeq
<1>2. PICK g \in [1 .. Len(seqs) -> Seq(S)] :
        /\ \A i \in 1 .. Len(seqs) : g[i] = IF i = 1 THEN seqs[i] ELSE g[i - 1] \o seqs[i]
        /\ FlattenSeq(seqs) = IF Len(seqs) = 0 THEN seqs ELSE g[Len(seqs)]
  BY FlattenUnfolds
<1>3. PICK h \in [1 .. Len(others) -> Seq(T)] :
        /\ \A i \in 1 .. Len(others) : h[i] = IF i = 1 THEN others[i] ELSE h[i - 1] \o others[i]
        /\ FlattenSeq(others) = IF Len(others) = 0 THEN others ELSE h[Len(others)]
  BY FlattenUnfolds
<1> DEFINE Same(s, t) == Len(s) = Len(t) /\ \A p \in 1 .. Len(s) : <<s[p], t[p]>> \in R
           I == {n \in Nat : n \in 1 .. Len(seqs) => Same(g[n], h[n])}
<1>0. \A i \in 1 .. Len(seqs) : Same(seqs[i], others[i])
  OBVIOUS
<1>4. 0 \in I
  OBVIOUS
<1>5. ASSUME NEW n \in Nat, n \in I PROVE n + 1 \in I
  <2>0. n + 1 \in Nat
    OBVIOUS
  <2> SUFFICES ASSUME n + 1 \in 1 .. Len(seqs) PROVE Same(g[n + 1], h[n + 1])
    BY <2>0, Zenon
  <2>1. /\ g[n + 1] = IF n + 1 = 1 THEN seqs[n + 1] ELSE g[(n + 1) - 1] \o seqs[n + 1]
        /\ h[n + 1] = IF n + 1 = 1 THEN others[n + 1] ELSE h[(n + 1) - 1] \o others[n + 1]
    BY <1>2, <1>3, Zenon
  <2>2. CASE n = 0
    <3>1. n + 1 = 1
      BY <2>2
    <3> HIDE DEF Same
    <3> QED
      BY <3>1, <2>1, <1>0, Zenon
  <2>3. CASE n # 0
    <3>1. n \in 1 .. Len(seqs) /\ n + 1 # 1 /\ (n + 1) - 1 = n
      BY <2>3, <1>1
    <3>2. /\ g[n + 1] = g[n] \o seqs[n + 1] /\ g[n] \in Seq(S) /\ seqs[n + 1] \in Seq(S)
          /\ h[n + 1] = h[n] \o others[n + 1] /\ h[n] \in Seq(T) /\ others[n + 1] \in Seq(T)
      BY <3>1, <2>1, <1>1
    <3>3. Same(g[n], h[n]) /\ Same(seqs[n + 1], others[n + 1])
      BY <3>1, <1>5, <1>0
    <3>4. Same(g[n] \o seqs[n + 1], h[n] \o others[n + 1])
      BY <3>2, <3>3, ConcatRelated, Zenon
    <3> HIDE DEF Same
    <3> QED
      BY <3>2, <3>4
  <2> QED
    BY <2>2, <2>3
<1>6. Nat \subseteq I
  <2> HIDE DEF I
  <2> QED
    BY <1>4, <1>5, NatSetInduction
<1>7. CASE Len(seqs) = 0
  <2>1. FlattenSeq(seqs) = seqs /\ FlattenSeq(others) = others
    BY <1>7, <1>2, <1>3
  <2>2. \A i \in 1 .. Len(seqs) : FALSE
    BY <1>7
  <2> QED
    BY <2>1, <2>2, Zenon
<1>8. CASE Len(seqs) # 0
  <2>1. Len(seqs) \in 1 .. Len(seqs) /\ FlattenSeq(seqs) = g[Len(seqs)]
        /\ FlattenSeq(others) = h[Len(seqs)]
    BY <1>8, <1>1, <1>2, <1>3
  <2>2. Same(g[Len(seqs)], h[Len(seqs)])
    BY <2>1, <1>6, <1>1
  <2> QED
    BY <2>1, <2>2
<1> QED
  BY <1>7, <1>8

\* Every element of a flattened sequence stands in one of the parts.
LEMMA FlattenFrom ==
  ASSUME NEW S, NEW seqs \in Seq(Seq(S)), NEW p \in 1 .. Len(FlattenSeq(seqs))
  PROVE  \E i \in 1 .. Len(seqs) : \E j \in 1 .. Len(seqs[i]) : FlattenSeq(seqs)[p] = seqs[i][j]
<1> DEFINE E == {x \in S : \E i \in 1 .. Len(seqs) : \E j \in 1 .. Len(seqs[i]) : x = seqs[i][j]}
<1>1. Len(seqs) \in Nat /\ DOMAIN seqs = 1 .. Len(seqs)
      /\ \A i \in 1 .. Len(seqs) : seqs[i] \in Seq(S)
  BY LenProperties, ElementOfSeq
<1>2. ASSUME NEW i \in 1 .. Len(seqs) PROVE seqs[i] \in Seq(E)
  <2>1. seqs[i] \in Seq(S) /\ Len(seqs[i]) \in Nat /\ seqs[i] \in [1 .. Len(seqs[i]) -> S]
    BY <1>1, LenProperties
  <2>2. seqs[i] \in [1 .. Len(seqs[i]) -> E]
    BY <2>1
  <2> HIDE DEF E
  <2> QED
    BY <2>1, <2>2, FunctionIsSeq
<1>3. seqs \in [1 .. Len(seqs) -> Seq(E)]
  <2> HIDE DEF E
  <2>1. seqs \in [1 .. Len(seqs) -> Seq(S)]
    BY LenProperties
  <2> QED
    BY <1>2, <2>1
<1>4. FlattenSeq(seqs) \in Seq(E)
  <2> HIDE DEF E
  <2> QED
    BY <1>1, <1>3, FunctionIsSeq, FlattenFacts
<1>5. FlattenSeq(seqs)[p] \in E
  <2> HIDE DEF E
  <2> QED
    BY <1>4, ElementOfSeq
<1> QED
  BY <1>5

\* The first uses of the keys: one position for each key.
LEMMA FirstUsesFacts ==
  ASSUME NEW S, NEW keys \in Seq(S)
  PROVE  /\ FirstUses(keys) \subseteq 1 .. Len(keys)
         /\ \A k \in 1 .. Len(keys) : \E m \in FirstUses(keys) : m <= k /\ keys[m] = keys[k]
         /\ \A m, n \in FirstUses(keys) : keys[m] = keys[n] => m = n
<1>1. Len(keys) \in Nat /\ DOMAIN keys = 1 .. Len(keys)
  BY LenProperties
<1>2. FirstUses(keys) \subseteq 1 .. Len(keys)
  BY <1>1 DEF FirstUses
<1>3. ASSUME NEW k \in 1 .. Len(keys)
      PROVE  \E m \in FirstUses(keys) : m <= k /\ keys[m] = keys[k]
  <2> DEFINE same == {m \in 1 .. Len(keys) : keys[m] = keys[k]}
  <2>1. same \subseteq Nat /\ k \in same
    BY <1>1
  <2>2. PICK m \in same : \A n \in same : m <= n
    <3> HIDE DEF same
    <3> QED
      BY <2>1, LeastNatural
  <2>3. m \in 1 .. Len(keys) /\ keys[m] = keys[k] /\ m <= k
    BY <2>1, <2>2
  <2>4. ASSUME NEW j \in 1 .. m - 1 PROVE keys[j] # keys[m]
    <3>1. j \in 1 .. Len(keys) /\ ~(m <= j)
      BY <1>1, <2>3
    <3> QED
      BY <3>1, <2>2, <2>3
  <2> QED
    BY <1>1, <2>3, <2>4 DEF FirstUses
<1>4. ASSUME NEW m \in FirstUses(keys), NEW n \in FirstUses(keys), keys[m] = keys[n] PROVE m = n
  <2>1. m \in 1 .. Len(keys) /\ n \in 1 .. Len(keys)
    BY <1>2
  <2>2. (\A j \in 1 .. m - 1 : keys[j] # keys[m]) /\ (\A j \in 1 .. n - 1 : keys[j] # keys[n])
    BY DEF FirstUses
  <2>3. m < n => m \in 1 .. n - 1
    BY <2>1, <1>1
  <2>4. n < m => n \in 1 .. m - 1
    BY <2>1, <1>1
  <2>5. ~(m < n) /\ ~(n < m)
    BY <1>4, <2>2, <2>3, <2>4
  <2> QED
    BY <2>1, <2>5, <1>1
<1> QED
  BY <1>2, <1>3, <1>4

----------------------------------------------------------------------------
(* Reading a map back. *)

Term == [tok : Token, sym : BOOLEAN]

\* What parseAffineMapOfSSAIds returns: operands that the text names, positions among
\* them, and at each place the position of the id that stands there.
LEMMA ReadMapFacts ==
  ASSUME NEW terms \in AffineTerms
  PROVE  LET read == ReadMap(terms)
         IN /\ read.map \in AffineMap
            /\ read.operands \in Seq(Token) /\ NumInputs(read.map) = Len(read.operands)
            /\ \A k \in 1 .. Len(read.operands) : \E i \in 1 .. Len(terms) :
                 \E j \in 1 .. Len(terms[i]) : read.operands[k] = terms[i][j].tok
            /\ Len(read.map.results) = Len(terms)
            /\ \A i \in 1 .. Len(terms) :
                 /\ Len(read.map.results[i]) = Len(terms[i])
                 /\ \A j \in 1 .. Len(terms[i]) :
                      /\ read.map.results[i][j] \in 1 .. Len(read.operands)
                      /\ read.operands[read.map.results[i][j]].id = terms[i][j].tok.id
            /\ (\A i \in 1 .. Len(terms) : \A j \in 1 .. Len(terms[i]) : ~terms[i][j].sym)
                 => read.map.syms = 0
<1> DEFINE all == FlattenSeq(terms)
           first == FirstUses([k \in DOMAIN all |-> all[k].tok.id])
           D == {k \in first : ~all[k].sym}
           Y == {k \in first : all[k].sym}
           dims == Picked(all, D)
           syms == Picked(all, Y)
           both == dims \o syms
           ids == [k \in 1 .. Len(both) |-> both[k].tok]
           results == [i \in DOMAIN terms |-> [k \in DOMAIN terms[i] |->
                        CHOOSE j \in DOMAIN ids : ids[j].id = terms[i][k].tok.id]]
<1>0. ReadMap(terms) = [map |-> [dims |-> Len(dims), syms |-> Len(syms), results |-> results],
                        operands |-> ids]
  BY DEF ReadMap
<1>1. terms \in Seq(Seq(Term))
  BY DEF AffineTerms, Term
<1>2. /\ Len(terms) \in Nat /\ DOMAIN terms = 1 .. Len(terms)
      /\ \A i \in 1 .. Len(terms) :
           terms[i] \in Seq(Term) /\ Len(terms[i]) \in Nat /\ DOMAIN terms[i] = 1 .. Len(terms[i])
  BY <1>1, LenProperties, ElementOfSeq
<1>3. all \in Seq(Term)
  BY <1>1, FlattenFacts
<1>4. \A i \in 1 .. Len(terms) : \A j \in 1 .. Len(terms[i]) :
        \E p \in 1 .. Len(all) : all[p] = terms[i][j]
  BY <1>1, FlattenFacts
<1>5. \A p \in 1 .. Len(all) : \E i \in 1 .. Len(terms) : \E j \in 1 .. Len(terms[i]) :
        all[p] = terms[i][j]
  BY <1>1, FlattenFrom
<1> HIDE DEF all
<1>6. Len(all) \in Nat /\ DOMAIN all = 1 .. Len(all) /\ \A p \in 1 .. Len(all) : all[p] \in Term
  BY <1>3, LenProperties, ElementOfSeq
<1> DEFINE keys == [k \in DOMAIN all |-> all[k].tok.id]
<1>7. keys \in Seq(STRING) /\ Len(keys) = Len(all) /\ \A p \in 1 .. Len(all) : keys[p] = all[p].tok.id
  <2>1. keys \in [1 .. Len(all) -> STRING]
    BY <1>6 DEF Term, Token
  <2>2. \A p \in 1 .. Len(all) : keys[p] = all[p].tok.id
    BY <1>6
  <2> HIDE DEF keys
  <2> QED
    BY <1>6, <2>1, <2>2, FunctionIsSeq
<1>8. /\ first \subseteq 1 .. Len(all)
      /\ \A k \in 1 .. Len(all) : \E m \in first : all[m].tok.id = all[k].tok.id
  <2>1. first = FirstUses(keys)
    OBVIOUS
  <2> HIDE DEF keys, first
  <2>2. /\ first \subseteq 1 .. Len(keys)
        /\ \A k \in 1 .. Len(keys) : \E m \in first : m <= k /\ keys[m] = keys[k]
    BY <1>7, <2>1, FirstUsesFacts
  <2> QED
    BY <1>7, <2>2
<1> HIDE DEF keys, first
<1>9. D \subseteq DOMAIN all /\ Y \subseteq DOMAIN all
  BY <1>6, <1>8
<1>10. \A k \in first : k \in D \/ k \in Y
  OBVIOUS
<1>11. (\A p \in 1 .. Len(all) : ~all[p].sym) => Y = {}
  BY <1>8
<1> HIDE DEF D, Y
<1>12. /\ dims \in Seq(Term) /\ Len(dims) \in Nat
       /\ \A i \in D : \E n \in 1 .. Len(dims) : dims[n] = all[i]
       /\ \A n \in 1 .. Len(dims) : Nth(D, n) \in D /\ dims[n] = all[Nth(D, n)]
  BY <1>3, <1>9, PickedFacts
<1>13. /\ syms \in Seq(Term) /\ Len(syms) \in Nat /\ Len(syms) = Cardinality(Y)
       /\ \A i \in Y : \E n \in 1 .. Len(syms) : syms[n] = all[i]
       /\ \A n \in 1 .. Len(syms) : Nth(Y, n) \in Y /\ syms[n] = all[Nth(Y, n)]
  BY <1>3, <1>9, PickedFacts
<1>14. Y = {} => Len(syms) = 0
  BY <1>13, FS_EmptySet
<1> HIDE DEF dims, syms
<1>15. /\ both \in Seq(Term) /\ Len(both) = Len(dims) + Len(syms) /\ Len(both) \in Nat
       /\ \A p \in 1 .. Len(dims) : p \in 1 .. Len(both)
       /\ \A p \in 1 .. Len(dims) : both[p] = dims[p]
       /\ \A p \in 1 .. Len(syms) : Len(dims) + p \in 1 .. Len(both)
       /\ \A p \in 1 .. Len(syms) : both[Len(dims) + p] = syms[p]
       /\ \A p \in 1 .. Len(both) :
            p \in 1 .. Len(dims) \/ (p - Len(dims) \in 1 .. Len(syms)
                                     /\ p = Len(dims) + (p - Len(dims)))
  <2>1. dims \in Seq(Term) /\ syms \in Seq(Term)
    BY <1>12, <1>13
  <2>2. both \in Seq(Term) /\ Len(both) = Len(dims) + Len(syms) /\ Len(both) \in Nat
    <3>1. both \in Seq(Term)
      BY <2>1, ConcatProperties
    <3>2. Len(both) = Len(dims) + Len(syms)
      BY <2>1, ConcatProperties
    <3> QED
      BY <3>1, <3>2, LenProperties
  <2>3. /\ \A p \in 1 .. Len(dims) : p \in 1 .. Len(both)
        /\ \A p \in 1 .. Len(dims) : both[p] = dims[p]
    BY <2>1, ConcatParts
  <2>4. /\ \A p \in 1 .. Len(syms) : Len(dims) + p \in 1 .. Len(both)
        /\ \A p \in 1 .. Len(syms) : both[Len(dims) + p] = syms[p]
    BY <2>1, ConcatParts, SMTT(30)
  <2>5. \A p \in 1 .. Len(both) :
          p \in 1 .. Len(dims) \/ (p - Len(dims) \in 1 .. Len(syms)
                                   /\ p = Len(dims) + (p - Len(dims)))
    BY <2>1, ConcatParts, SMTT(30)
  <2> QED
    BY <2>2, <2>3, <2>4, <2>5
<1> HIDE DEF both
<1>16. \A p \in 1 .. Len(both) : \E m \in 1 .. Len(all) : both[p] = all[m]
  <2> TAKE p \in 1 .. Len(both)
  <2>1. CASE p \in 1 .. Len(dims)
    BY <2>1, <1>15, <1>12, <1>9, <1>6
  <2>2. CASE p - Len(dims) \in 1 .. Len(syms) /\ p = Len(dims) + (p - Len(dims))
    <3>1. both[p] = syms[p - Len(dims)]
      BY <2>2, <1>15
    <3>2. PICK m \in Y : syms[p - Len(dims)] = all[m]
      BY <2>2, <1>13
    <3> QED
      BY <3>1, <3>2, <1>9, <1>6
  <2> QED
    BY <1>15, <2>1, <2>2
<1>17. \A m \in first : \E p \in 1 .. Len(both) : both[p] = all[m]
  <2> TAKE m \in first
  <2>1. CASE m \in D
    BY <2>1, <1>12, <1>15
  <2>2. CASE m \in Y
    <3>1. PICK n \in 1 .. Len(syms) : syms[n] = all[m]
      BY <2>2, <1>13
    <3> QED
      BY <3>1, <1>15, SMTT(30)
  <2> QED
    BY <1>10, <2>1, <2>2
<1>18. /\ ids \in Seq(Token) /\ Len(ids) = Len(both) /\ DOMAIN ids = 1 .. Len(both)
       /\ \A p \in 1 .. Len(both) : ids[p] = both[p].tok
  <2>1. \A p \in 1 .. Len(both) : both[p] \in Term
    BY <1>15, ElementOfSeq
  <2>2. ids \in [1 .. Len(both) -> Token]
    BY <2>1 DEF Term
  <2>3. \A p \in 1 .. Len(both) : ids[p] = both[p].tok
    OBVIOUS
  <2> HIDE DEF ids
  <2> QED
    BY <1>15, <2>2, <2>3, FunctionIsSeq
<1> HIDE DEF ids
<1>19. \A k \in 1 .. Len(ids) : \E i \in 1 .. Len(terms) : \E j \in 1 .. Len(terms[i]) :
         ids[k] = terms[i][j].tok
  <2> TAKE k \in 1 .. Len(ids)
  <2>1. PICK m \in 1 .. Len(all) : ids[k] = all[m].tok
    BY <1>16, <1>18
  <2>2. PICK i \in 1 .. Len(terms) : \E j \in 1 .. Len(terms[i]) : all[m] = terms[i][j]
    BY <1>5
  <2> QED
    BY <2>1, <2>2
<1>20. ASSUME NEW i \in 1 .. Len(terms), NEW k \in 1 .. Len(terms[i])
       PROVE  /\ (CHOOSE j \in DOMAIN ids : ids[j].id = terms[i][k].tok.id) \in 1 .. Len(ids)
              /\ ids[CHOOSE j \in DOMAIN ids : ids[j].id = terms[i][k].tok.id].id
                   = terms[i][k].tok.id
  <2>1. PICK p \in 1 .. Len(all) : all[p] = terms[i][k]
    BY <1>4
  <2>2. PICK m \in first : all[m].tok.id = all[p].tok.id
    BY <1>8
  <2>3. PICK q \in 1 .. Len(both) : both[q] = all[m]
    BY <1>17
  <2>4. q \in DOMAIN ids /\ ids[q].id = terms[i][k].tok.id /\ DOMAIN ids = 1 .. Len(ids)
    BY <2>1, <2>2, <2>3, <1>18
  <2> QED
    BY <2>4, Zenon
<1>21. ASSUME NEW i \in 1 .. Len(terms)
       PROVE  /\ results[i] \in Seq(Nat) /\ Len(results[i]) = Len(terms[i])
              /\ DOMAIN results[i] = 1 .. Len(terms[i])
              /\ \A k \in 1 .. Len(terms[i]) : results[i][k] \in 1 .. Len(ids)
              /\ \A k \in 1 .. Len(terms[i]) : ids[results[i][k]].id = terms[i][k].tok.id
  <2>1. results[i] = [k \in 1 .. Len(terms[i]) |->
                        CHOOSE j \in DOMAIN ids : ids[j].id = terms[i][k].tok.id]
    BY <1>2
  <2>2. /\ \A k \in 1 .. Len(terms[i]) : results[i][k] \in 1 .. Len(ids)
        /\ \A k \in 1 .. Len(terms[i]) : ids[results[i][k]].id = terms[i][k].tok.id
    <3> HIDE DEF results
    <3> QED
      BY <2>1, <1>20, ZenonT(30)
  <2>3. DOMAIN results[i] = 1 .. Len(terms[i])
    BY <2>1
  <2>4. results[i] \in [1 .. Len(terms[i]) -> Nat]
    <3> HIDE DEF results
    <3>1. results[i] = [k \in 1 .. Len(terms[i]) |-> results[i][k]]
      BY <2>1
    <3> QED
      BY <3>1, <2>2
  <2> HIDE DEF results
  <2> QED
    BY <1>2, <2>2, <2>3, <2>4, FunctionIsSeq
<1>22. results \in Seq(Seq(Nat)) /\ Len(results) = Len(terms) /\ DOMAIN results = 1 .. Len(terms)
  <2>1. results \in [1 .. Len(terms) -> Seq(Nat)]
    <3>1. DOMAIN results = 1 .. Len(terms) /\ results = [i \in 1 .. Len(terms) |-> results[i]]
      BY <1>2
    <3> HIDE DEF results
    <3> QED
      BY <3>1, <1>21
  <2> HIDE DEF results
  <2> QED
    BY <1>2, <2>1, FunctionIsSeq
<1> HIDE DEF results
<1> DEFINE map == [dims |-> Len(dims), syms |-> Len(syms), results |-> results]
<1>23. NumInputs(map) = Len(ids)
  BY <1>15, <1>18 DEF NumInputs
<1>24. map \in AffineMap
  <2>1. map \in [dims : Nat, syms : Nat, results : Seq(Seq(Nat))]
    BY <1>12, <1>13, <1>22
  <2>2. \A i \in DOMAIN map.results : \A k \in DOMAIN map.results[i] :
          map.results[i][k] \in 1 .. NumInputs(map)
    <3>1. map.results = results
      OBVIOUS
    <3> HIDE DEF map
    <3> QED
      BY <3>1, <1>21, <1>22, <1>23
  <2> HIDE DEF map
  <2> QED
    BY <2>1, <2>2 DEF AffineMap
<1>25. (\A i \in 1 .. Len(terms) : \A j \in 1 .. Len(terms[i]) : ~terms[i][j].sym) => map.syms = 0
  <2> SUFFICES ASSUME \A i \in 1 .. Len(terms) : \A j \in 1 .. Len(terms[i]) : ~terms[i][j].sym
               PROVE  map.syms = 0
    OBVIOUS
  <2>1. \A p \in 1 .. Len(all) : ~all[p].sym
    BY <1>5
  <2> QED
    BY <2>1, <1>11, <1>14
<1>26. ReadMap(terms).map = map /\ ReadMap(terms).operands = ids /\ map.results = results
  BY <1>0
<1> HIDE DEF map
<1> QED
  BY <1>18, <1>19, <1>21, <1>22, <1>23, <1>24, <1>25, <1>26

----------------------------------------------------------------------------
(* AccessTile and IndirectAccessTile instantiate SSAText: its operators mean the same   *)
(* there as here.                                                                       *)

LEMMA AccessReads ==
  ASSUME NEW terms
  PROVE  Access!ReadMap(terms) = ReadMap(terms) /\ Access!ReadableMap(terms) = ReadableMap(terms)
<1>1. Access!ReadMap(terms) = ReadMap(terms)
  BY DEF Access!ReadMap, ReadMap, Access!Picked, Picked, Access!Nth, Nth, Access!FirstUses,
         FirstUses, Access!FlattenSeq, FlattenSeq, Access!Cardinality, Cardinality
<1>2. Access!ReadableMap(terms) = ReadableMap(terms)
  BY DEF Access!ReadableMap, ReadableMap, Access!Numbered, Numbered, Access!FirstUses, FirstUses,
         Access!FlattenSeq, FlattenSeq
<1> QED
  BY <1>1, <1>2

LEMMA IndirectReads ==
  ASSUME NEW terms
  PROVE  /\ Indirect!ReadMap(terms) = ReadMap(terms)
         /\ Indirect!ReadableMap(terms) = ReadableMap(terms)
<1>1. Indirect!ReadMap(terms) = ReadMap(terms)
  BY DEF Indirect!ReadMap, ReadMap, Indirect!Picked, Picked, Indirect!Nth, Nth, Indirect!FirstUses,
         FirstUses, Indirect!FlattenSeq, FlattenSeq, Indirect!Cardinality, Cardinality
<1>2. Indirect!ReadableMap(terms) = ReadableMap(terms)
  BY DEF Indirect!ReadableMap, ReadableMap, Indirect!Numbered, Numbered, Indirect!FirstUses, FirstUses,
         Indirect!FlattenSeq, FlattenSeq
<1> QED
  BY <1>1, <1>2

LEMMA AccessSets ==
  /\ Access!Arguments = [base : Views, map : AffineMap, indices : Seq(Values),
                         symbols : Seq(Values), set : IntegerSet, order : Order, rank : Nat]
  /\ Access!Operation = [kind : {"access"}, base : Views, map : AffineMap, indices : Seq(Values),
                         symbols : Seq(Values), set : IntegerSet, order : Order, rank : Nat]
  /\ Access!Text = [kind : {"access"}, base : Views, terms : AffineTerms, symbols : Seq(Token),
                    set : AtMostOne(IntegerSet), order : AtMostOne(Order),
                    type : Range(RankOf), rank : Nat]
<1>1. Access!AffineMap = AffineMap
  BY DEF Access!AffineMap, AffineMap, Access!NumInputs, NumInputs
<1>2. Access!AffineTerms = AffineTerms /\ Access!Token = Token /\ Access!IntegerSet = IntegerSet
      /\ Access!Order = Order
  BY DEF Access!AffineTerms, AffineTerms, Access!Token, Token, Access!IntegerSet, IntegerSet,
         Access!Order, Order
<1>3. Access!AtMostOne(IntegerSet) = AtMostOne(IntegerSet)
      /\ Access!AtMostOne(Order) = AtMostOne(Order)
  BY DEF Access!AtMostOne, AtMostOne
<1>4. Access!Range(RankOf) = Range(RankOf)
  BY DEF Access!Range, Range
<1>5. Access!Arguments = [base : Views, map : AffineMap, indices : Seq(Values),
                         symbols : Seq(Values), set : IntegerSet, order : Order, rank : Nat]
  BY <1>1, <1>2, Zenon DEF Access!Arguments
<1>6. Access!Operation = [kind : {"access"}, base : Views, map : AffineMap, indices : Seq(Values),
                         symbols : Seq(Values), set : IntegerSet, order : Order, rank : Nat]
  BY <1>1, <1>2, Zenon DEF Access!Operation
<1>7. Access!Text = [kind : {"access"}, base : Views, terms : AffineTerms, symbols : Seq(Token),
                    set : AtMostOne(IntegerSet), order : AtMostOne(Order),
                    type : Range(RankOf), rank : Nat]
  BY <1>2, <1>3, <1>4, Zenon DEF Access!Text
<1> QED
  BY <1>5, <1>6, <1>7, Zenon

\* An operation's memref has a shape per subscript; a text's has at most one.
SubscriptText == [memref : AtMostOne(Views), terms : AffineTerms]

LEMMA IndirectSets ==
  /\ Indirect!Arguments =
       {args \in [base : Views, kinds : Seq(BOOLEAN), maps : Seq(AffineMap),
                  memrefs : Seq(Views), captured : Seq(Values), symbols : Seq(Values),
                  set : IntegerSet, order : Order, rank : Nat] :
          args.set.dims <= Len(ArgumentNames)}
  /\ Indirect!Operation =
       {o \in [kind : {"indirect"}, args : Nat, base : Views, kinds : Seq(BOOLEAN),
               maps : Seq(AffineMap), memrefs : Seq(Views), captured : Seq(Values),
               symbols : Seq(Values), set : AtMostOne(IntegerSet), order : AtMostOne(Order),
               rank : Nat] : o.args <= Len(ArgumentNames)}
  /\ Indirect!Text =
       {t \in [kind : {"indirect"}, vars : Seq(Token), base : Views, subs : Seq(SubscriptText),
               symbols : Seq(Token), set : AtMostOne(IntegerSet), order : AtMostOne(Order),
               types : Seq(Range(RankOf)), rank : Nat] : Len(t.vars) <= Len(ArgumentNames)}
<1>1. Indirect!AffineMap = AffineMap
  BY DEF Indirect!AffineMap, AffineMap, Indirect!NumInputs, NumInputs
<1>2. /\ Indirect!AffineTerms = AffineTerms /\ Indirect!Token = Token
      /\ Indirect!IntegerSet = IntegerSet /\ Indirect!Order = Order
  BY DEF Indirect!AffineTerms, AffineTerms, Indirect!Token, Token, Indirect!IntegerSet,
         IntegerSet, Indirect!Order, Order
<1>3. /\ Indirect!AtMostOne(IntegerSet) = AtMostOne(IntegerSet)
      /\ Indirect!AtMostOne(Order) = AtMostOne(Order)
      /\ Indirect!AtMostOne(Views) = AtMostOne(Views)
  BY DEF Indirect!AtMostOne, AtMostOne
<1>4. Indirect!Range(RankOf) = Range(RankOf)
  BY DEF Indirect!Range, Range
<1> QED
  BY <1>1, <1>2, <1>3, <1>4, Zenon
     DEF Indirect!Arguments, Indirect!Operation, Indirect!Text, SubscriptText

LEMMA AccessUnfolds ==
  ASSUME NEW t, NEW o
  PROVE  /\ Access!Parsed(t) =
              [kind |-> "access", base |-> t.base, map |-> ReadMap(t.terms).map,
               indices |-> [k \in DOMAIN ReadMap(t.terms).operands |->
                             Resolve(ReadMap(t.terms).operands[k])],
               symbols |-> [k \in DOMAIN t.symbols |-> Resolve(t.symbols[k])],
               set |-> t.set[1], order |-> t.order[1], rank |-> t.rank]
         /\ Access!Readable(t) <=>
              /\ ReadableMap(t.terms) /\ t.type = RankOf[t.base]
              /\ \A k \in DOMAIN ReadMap(t.terms).operands :
                   Resolvable(ReadMap(t.terms).operands[k])
              /\ \A k \in DOMAIN t.symbols : Resolvable(t.symbols[k])
         /\ Access!Printed(o) =
              [kind |-> "access", base |-> o.base,
               terms |-> PrintedMap(o.map, [k \in DOMAIN o.indices |-> NameOf[o.indices[k]]]),
               symbols |-> [k \in DOMAIN o.symbols |-> NameOf[o.symbols[k]]],
               set |-> <<o.set>>, order |-> <<o.order>>, type |-> RankOf[o.base],
               rank |-> o.rank]
<1>1. \A x : Access!Resolve(x) = Resolve(x) /\ (Access!Resolvable(x) <=> Resolvable(x))
  BY DEF Access!Resolve, Resolve, Access!Resolvable, Resolvable, Access!Range, Range
<1>2. Access!ReadMap(t.terms) = ReadMap(t.terms)
      /\ Access!ReadableMap(t.terms) = ReadableMap(t.terms)
  BY AccessReads
<1>3. Access!Parsed(t) =
        [kind |-> "access", base |-> t.base, map |-> ReadMap(t.terms).map,
         indices |-> [k \in DOMAIN ReadMap(t.terms).operands |->
                       Resolve(ReadMap(t.terms).operands[k])],
         symbols |-> [k \in DOMAIN t.symbols |-> Resolve(t.symbols[k])],
         set |-> t.set[1], order |-> t.order[1], rank |-> t.rank]
  BY <1>2 DEF Access!Parsed, Access!Resolve, Resolve
<1>4. Access!Readable(t) <=>
        /\ ReadableMap(t.terms) /\ t.type = RankOf[t.base]
        /\ \A k \in DOMAIN ReadMap(t.terms).operands : Resolvable(ReadMap(t.terms).operands[k])
        /\ \A k \in DOMAIN t.symbols : Resolvable(t.symbols[k])
  BY <1>1, <1>2, Zenon DEF Access!Readable, Access!ToSet
<1>5. Access!Printed(o) =
        [kind |-> "access", base |-> o.base,
         terms |-> PrintedMap(o.map, [k \in DOMAIN o.indices |-> NameOf[o.indices[k]]]),
         symbols |-> [k \in DOMAIN o.symbols |-> NameOf[o.symbols[k]]],
         set |-> <<o.set>>, order |-> <<o.order>>, type |-> RankOf[o.base], rank |-> o.rank]
  BY DEF Access!Printed, Access!PrintedMap, PrintedMap
<1> QED
  BY <1>3, <1>4, <1>5

\* What the parser derives from the text of an indirect tile: its maps, the names it
\* captures and the operands they stand for.
Reads(t) == [i \in DOMAIN t.subs |-> ReadMap(t.subs[i].terms)]
Names(t) == Indirect!CapturedNames(t, Reads(t))
Captured(t) == Indirect!fillCapturedVariables(Indirect!Operands(Reads(t)), Names(t))
IdsOf(toks) == [k \in DOMAIN toks |-> toks[k].id]

LEMMA IndirectUnfolds ==
  ASSUME NEW t, NEW o
  PROVE  /\ Indirect!Parsed(t) =
              [kind |-> "indirect", args |-> Len(t.vars), base |-> t.base,
               kinds |-> [i \in DOMAIN t.subs |-> t.subs[i].memref # <<>>],
               maps |-> [i \in DOMAIN Reads(t) |->
                          Indirect!Canonical(Reads(t)[i], Names(t) \o IdsOf(t.vars))],
               memrefs |-> Indirect!Memrefs(t),
               captured |-> [k \in DOMAIN Captured(t) |-> Resolve(Captured(t)[k])],
               symbols |-> [k \in DOMAIN t.symbols |-> Resolve(t.symbols[k])],
               set |-> t.set, order |-> t.order, rank |-> t.rank]
         /\ Indirect!Parses(t) <=>
              /\ \A i \in DOMAIN t.subs : ReadableMap(t.subs[i].terms)
              /\ \A i \in DOMAIN Reads(t) :
                   Indirect!Canonicalizable(Reads(t)[i], Names(t) \o IdsOf(t.vars))
              /\ Len(t.types) = Len(Indirect!Memrefs(t)) + 1
              /\ t.types = [m \in DOMAIN t.types |->
                              RankOf[(<<t.base>> \o Indirect!Memrefs(t))[m]]]
              /\ \A k \in DOMAIN Captured(t) : Resolvable(Captured(t)[k])
              /\ \A k \in DOMAIN t.symbols : Resolvable(t.symbols[k])
              /\ \A k \in DOMAIN t.set : t.set[k].syms = Len(t.symbols)
         /\ Indirect!Printed(o) =
              [kind |-> "indirect", vars |-> SubSeq(ArgumentNames, 1, o.args), base |-> o.base,
               subs |-> [i \in DOMAIN o.kinds |->
                 [memref |-> IF o.kinds[i]
                             THEN <<o.memrefs[Indirect!MemrefIndex(o, i)]>> ELSE <<>>,
                  terms |-> PrintedMap(o.maps[i], Indirect!AllVariables(o))]],
               symbols |-> [k \in DOMAIN o.symbols |-> NameOf[o.symbols[k]]],
               set |-> o.set, order |-> o.order,
               types |-> <<RankOf[o.base]>>
                 \o [m \in 1 .. Cardinality(Indirect!Indirects(o.kinds)) |-> RankOf[o.memrefs[m]]],
               rank |-> o.rank]
<1>1. Indirect!ReadSubscripts(t) = Reads(t)
  BY IndirectReads DEF Indirect!ReadSubscripts, Reads
<1>2. Indirect!Ids(t.vars) = IdsOf(t.vars)
  BY DEF Indirect!Ids, IdsOf
<1>3. Indirect!Parsed(t) =
        [kind |-> "indirect", args |-> Len(t.vars), base |-> t.base,
         kinds |-> [i \in DOMAIN t.subs |-> t.subs[i].memref # <<>>],
         maps |-> [i \in DOMAIN Reads(t) |->
                    Indirect!Canonical(Reads(t)[i], Names(t) \o IdsOf(t.vars))],
         memrefs |-> Indirect!Memrefs(t),
         captured |-> [k \in DOMAIN Captured(t) |-> Resolve(Captured(t)[k])],
         symbols |-> [k \in DOMAIN t.symbols |-> Resolve(t.symbols[k])],
         set |-> t.set, order |-> t.order, rank |-> t.rank]
  BY <1>1, <1>2 DEF Indirect!Parsed, Indirect!Resolve, Resolve, Names, Captured
<1>4. \A x : Indirect!Resolvable(x) <=> Resolvable(x)
  BY DEF Indirect!Resolvable, Resolvable, Indirect!Range, Range
<1>5. \A x : Indirect!ReadableMap(x) <=> ReadableMap(x)
  BY DEF Indirect!ReadableMap, ReadableMap, Indirect!Numbered, Numbered, Indirect!FirstUses, FirstUses,
         Indirect!FlattenSeq, FlattenSeq
<1>6. Indirect!Parses(t) <=>
        /\ \A i \in DOMAIN t.subs : ReadableMap(t.subs[i].terms)
        /\ \A i \in DOMAIN Reads(t) :
             Indirect!Canonicalizable(Reads(t)[i], Names(t) \o IdsOf(t.vars))
        /\ Len(t.types) = Len(Indirect!Memrefs(t)) + 1
        /\ t.types = [m \in DOMAIN t.types |-> RankOf[(<<t.base>> \o Indirect!Memrefs(t))[m]]]
        /\ \A k \in DOMAIN Captured(t) : Resolvable(Captured(t)[k])
        /\ \A k \in DOMAIN t.symbols : Resolvable(t.symbols[k])
        /\ \A k \in DOMAIN t.set : t.set[k].syms = Len(t.symbols)
  <2>1. /\ (\A tok \in Indirect!ToSet(Captured(t)) : Indirect!Resolvable(tok))
             <=> \A k \in DOMAIN Captured(t) : Resolvable(Captured(t)[k])
        /\ (\A tok \in Indirect!ToSet(t.symbols) : Indirect!Resolvable(tok))
             <=> \A k \in DOMAIN t.symbols : Resolvable(t.symbols[k])
    BY <1>4, Zenon DEF Indirect!ToSet
  <2>2. (\A set \in Indirect!ToSet(t.set) : set.syms = Len(t.symbols))
          <=> \A k \in DOMAIN t.set : t.set[k].syms = Len(t.symbols)
    BY Zenon DEF Indirect!ToSet
  <2>3. Indirect!Parses(t) <=>
          /\ \A i \in DOMAIN t.subs : Indirect!ReadableMap(t.subs[i].terms)
          /\ \A i \in DOMAIN Reads(t) :
               Indirect!Canonicalizable(Reads(t)[i], Names(t) \o IdsOf(t.vars))
          /\ Len(t.types) = Len(Indirect!Memrefs(t)) + 1
          /\ t.types = [m \in DOMAIN t.types |-> RankOf[(<<t.base>> \o Indirect!Memrefs(t))[m]]]
          /\ \A tok \in Indirect!ToSet(Captured(t)) : Indirect!Resolvable(tok)
          /\ \A tok \in Indirect!ToSet(t.symbols) : Indirect!Resolvable(tok)
          /\ \A set \in Indirect!ToSet(t.set) : set.syms = Len(t.symbols)
    BY <1>1, <1>2 DEF Indirect!Parses, Names, Captured
  <2> QED
    BY <1>5, <2>1, <2>2, <2>3, Zenon
<1>7. Indirect!Printed(o) =
        [kind |-> "indirect", vars |-> SubSeq(ArgumentNames, 1, o.args), base |-> o.base,
         subs |-> [i \in DOMAIN o.kinds |->
           [memref |-> IF o.kinds[i]
                       THEN <<o.memrefs[Indirect!MemrefIndex(o, i)]>> ELSE <<>>,
            terms |-> PrintedMap(o.maps[i], Indirect!AllVariables(o))]],
         symbols |-> [k \in DOMAIN o.symbols |-> NameOf[o.symbols[k]]],
         set |-> o.set, order |-> o.order,
         types |-> <<RankOf[o.base]>>
           \o [m \in 1 .. Cardinality(Indirect!Indirects(o.kinds)) |-> RankOf[o.memrefs[m]]],
         rank |-> o.rank]
  BY DEF Indirect!Printed, Indirect!PrintedMap, PrintedMap, Indirect!PrintedSymbols,
         Indirect!Cardinality, Cardinality
<1> QED
  BY <1>3, <1>6, <1>7, Zenon

LEMMA ReadsTyped ==
  ASSUME NEW t \in Indirect!Text
  PROVE  /\ Len(t.subs) \in Nat /\ DOMAIN t.subs = 1 .. Len(t.subs)
         /\ DOMAIN Reads(t) = 1 .. Len(t.subs)
         /\ \A i \in 1 .. Len(t.subs) :
              /\ t.subs[i] \in SubscriptText /\ t.subs[i].terms \in AffineTerms
              /\ Reads(t)[i] = ReadMap(t.subs[i].terms)
              /\ Reads(t)[i].operands \in Seq(Token)
         /\ t.vars \in Seq(Token) /\ Len(t.vars) \in Nat /\ DOMAIN t.vars = 1 .. Len(t.vars)
         /\ IdsOf(t.vars) \in Seq(STRING) /\ Len(IdsOf(t.vars)) = Len(t.vars)
         /\ \A j \in 1 .. Len(t.vars) : IdsOf(t.vars)[j] = t.vars[j].id
<1>1. t.subs \in Seq(SubscriptText) /\ t.vars \in Seq(Token)
  BY IndirectSets
<1>2. Len(t.subs) \in Nat /\ DOMAIN t.subs = 1 .. Len(t.subs)
      /\ \A i \in 1 .. Len(t.subs) : t.subs[i] \in SubscriptText
  BY <1>1, LenProperties, ElementOfSeq
<1>3. DOMAIN Reads(t) = 1 .. Len(t.subs)
  BY <1>2 DEF Reads
<1>4. ASSUME NEW i \in 1 .. Len(t.subs)
      PROVE  /\ t.subs[i].terms \in AffineTerms /\ Reads(t)[i] = ReadMap(t.subs[i].terms)
             /\ Reads(t)[i].operands \in Seq(Token)
  <2>1. t.subs[i].terms \in AffineTerms
    BY <1>2 DEF SubscriptText
  <2>2. Reads(t)[i] = ReadMap(t.subs[i].terms)
    BY <1>2 DEF Reads
  <2>3. ReadMap(t.subs[i].terms).operands \in Seq(Token)
    BY <2>1, ReadMapFacts
  <2> QED
    BY <2>1, <2>2, <2>3
<1>5. Len(t.vars) \in Nat /\ DOMAIN t.vars = 1 .. Len(t.vars)
      /\ \A j \in 1 .. Len(t.vars) : t.vars[j] \in Token
  BY <1>1, LenProperties, ElementOfSeq
<1>6. IdsOf(t.vars) \in [1 .. Len(t.vars) -> STRING]
      /\ \A j \in 1 .. Len(t.vars) : IdsOf(t.vars)[j] = t.vars[j].id
  BY <1>5 DEF IdsOf, Token
<1>7. IdsOf(t.vars) \in Seq(STRING) /\ Len(IdsOf(t.vars)) = Len(t.vars)
  BY <1>5, <1>6, FunctionIsSeq
<1> QED
  BY <1>1, <1>2, <1>3, <1>4, <1>5, <1>6, <1>7

\* The captured names and the captured operands correspond, place by place; together with
\* the intermediate variables the names cover every operand, and none occurs twice.
LEMMA CapturedFacts ==
  ASSUME NEW t \in Indirect!Text
  PROVE  /\ Names(t) \in Seq(STRING) /\ Captured(t) \in Seq(Token)
         /\ Len(Names(t)) \in Nat /\ Len(Captured(t)) = Len(Names(t))
         /\ \A k \in 1 .. Len(Names(t)) :
              /\ Captured(t)[k].id = Names(t)[k]
              /\ \A j \in 1 .. Len(t.vars) : t.vars[j].id # Names(t)[k]
              /\ \E i \in 1 .. Len(t.subs) : \E j \in 1 .. Len(Reads(t)[i].operands) :
                   Captured(t)[k] = Reads(t)[i].operands[j]
         /\ \A j, k \in 1 .. Len(Names(t)) : Names(t)[j] = Names(t)[k] => j = k
         /\ \A i \in 1 .. Len(t.subs) : \A j \in 1 .. Len(Reads(t)[i].operands) :
              \/ \E k \in 1 .. Len(t.vars) : t.vars[k].id = Reads(t)[i].operands[j].id
              \/ \E k \in 1 .. Len(Names(t)) : Names(t)[k] = Reads(t)[i].operands[j].id
<1> DEFINE ops == [i \in DOMAIN Reads(t) |-> Reads(t)[i].operands]
           idss == [i \in DOMAIN Reads(t) |-> IdsOf(Reads(t)[i].operands)]
           all == FlattenSeq(ops)
           allIds == FlattenSeq(idss)
           N == {k \in FirstUses(allIds) : allIds[k] \notin ToSet(IdsOf(t.vars))}
           C == {k \in FirstUses(IdsOf(all)) : all[k].id \in ToSet(Names(t))}
<1>1. Names(t) = Picked(allIds, N)
  BY DEF Names, Indirect!CapturedNames, Indirect!collectExclusiveCapturedVariables, Indirect!Picked,
         Picked, Indirect!Nth, Nth, Indirect!FirstUses, FirstUses, Indirect!FlattenSeq, FlattenSeq,
         Indirect!Cardinality, Cardinality, Indirect!ToSet, ToSet, Indirect!Ids, IdsOf
<1>2. Captured(t) = Picked(all, C)
  BY DEF Captured, Indirect!fillCapturedVariables, Indirect!Operands, Indirect!Picked,
         Picked, Indirect!Nth, Nth, Indirect!FirstUses, FirstUses, Indirect!FlattenSeq, FlattenSeq,
         Indirect!Cardinality, Cardinality, Indirect!ToSet, ToSet, Indirect!Ids, IdsOf
<1>3. /\ DOMAIN Reads(t) = 1 .. Len(t.subs) /\ Len(t.subs) \in Nat
      /\ \A i \in 1 .. Len(t.subs) : Reads(t)[i].operands \in Seq(Token)
  BY ReadsTyped
<1>4. ops \in Seq(Seq(Token)) /\ Len(ops) = Len(t.subs)
      /\ \A i \in 1 .. Len(t.subs) : ops[i] = Reads(t)[i].operands
  <2>1. ops \in [1 .. Len(t.subs) -> Seq(Token)]
        /\ \A i \in 1 .. Len(t.subs) : ops[i] = Reads(t)[i].operands
    BY <1>3
  <2> HIDE DEF ops
  <2> QED
    BY <1>3, <2>1, FunctionIsSeq
<1>5. \A i \in 1 .. Len(t.subs) :
        /\ IdsOf(Reads(t)[i].operands) \in Seq(STRING)
        /\ Len(IdsOf(Reads(t)[i].operands)) = Len(Reads(t)[i].operands)
        /\ \A j \in 1 .. Len(Reads(t)[i].operands) :
             IdsOf(Reads(t)[i].operands)[j] = Reads(t)[i].operands[j].id
  <2> TAKE i \in 1 .. Len(t.subs)
  <2> DEFINE s == Reads(t)[i].operands
  <2>1. Len(s) \in Nat /\ DOMAIN s = 1 .. Len(s) /\ \A j \in 1 .. Len(s) : s[j] \in Token
    BY <1>3, LenProperties, ElementOfSeq
  <2> HIDE DEF s
  <2>2. IdsOf(s) \in [1 .. Len(s) -> STRING] /\ \A j \in 1 .. Len(s) : IdsOf(s)[j] = s[j].id
    BY <2>1 DEF IdsOf, Token
  <2>3. IdsOf(s) \in Seq(STRING) /\ Len(IdsOf(s)) = Len(s)
    BY <2>1, <2>2, FunctionIsSeq
  <2> QED
    BY <2>2, <2>3 DEF s
<1>6. idss \in Seq(Seq(STRING)) /\ Len(idss) = Len(t.subs)
      /\ \A i \in 1 .. Len(t.subs) : idss[i] = IdsOf(Reads(t)[i].operands)
  <2>1. idss \in [1 .. Len(t.subs) -> Seq(STRING)]
        /\ \A i \in 1 .. Len(t.subs) : idss[i] = IdsOf(Reads(t)[i].operands)
    BY <1>3, <1>5
  <2> HIDE DEF idss
  <2> QED
    BY <1>3, <2>1, FunctionIsSeq
<1> HIDE DEF ops, idss
<1>7. /\ all \in Seq(Token) /\ allIds \in Seq(STRING)
      /\ \A i \in 1 .. Len(ops) : \A j \in 1 .. Len(ops[i]) :
           \E p \in 1 .. Len(all) : all[p] = ops[i][j]
      /\ \A p \in 1 .. Len(all) : \E i \in 1 .. Len(ops) : \E j \in 1 .. Len(ops[i]) :
           all[p] = ops[i][j]
  <2>1. all \in Seq(Token) /\ allIds \in Seq(STRING)
    BY <1>4, <1>6, FlattenFacts
  <2>2. \A i \in 1 .. Len(ops) : \A j \in 1 .. Len(ops[i]) :
          \E p \in 1 .. Len(all) : all[p] = ops[i][j]
    BY <1>4, FlattenFacts
  <2>3. \A p \in 1 .. Len(all) : \E i \in 1 .. Len(ops) : \E j \in 1 .. Len(ops[i]) :
          all[p] = ops[i][j]
    BY <1>4, FlattenFrom
  <2> QED
    BY <2>1, <2>2, <2>3
<1>8. Len(allIds) = Len(all) /\ \A p \in 1 .. Len(all) : allIds[p] = all[p].id
  <2> DEFINE R == {r \in Token \X STRING : r[2] = r[1].id}
  <2>1. ASSUME NEW i \in 1 .. Len(ops)
        PROVE  /\ Len(ops[i]) = Len(idss[i])
               /\ \A j \in 1 .. Len(ops[i]) : <<ops[i][j], idss[i][j]>> \in R
    <3>1. ops[i] = Reads(t)[i].operands /\ idss[i] = IdsOf(ops[i]) /\ ops[i] \in Seq(Token)
          /\ Len(idss[i]) = Len(ops[i]) /\ \A j \in 1 .. Len(ops[i]) : idss[i][j] = ops[i][j].id
      BY <1>3, <1>4, <1>5, <1>6
    <3>2. ASSUME NEW j \in 1 .. Len(ops[i]) PROVE <<ops[i][j], idss[i][j]>> \in R
      <4>1. ops[i][j] \in Token
        BY <3>1, ElementOfSeq
      <4> QED
        BY <3>1, <4>1 DEF Token
    <3> QED
      BY <3>1, <3>2
  <2> HIDE DEF R
  <2>2. Len(all) = Len(allIds) /\ \A p \in 1 .. Len(all) : <<all[p], allIds[p]>> \in R
    BY <1>4, <1>6, <2>1, FlattenRelated
  <2> QED
    BY <2>2 DEF R
<1> HIDE DEF all, allIds
<1>9. Len(all) \in Nat /\ DOMAIN all = 1 .. Len(all) /\ DOMAIN allIds = 1 .. Len(all)
      /\ \A p \in 1 .. Len(all) : all[p] \in Token
  BY <1>7, <1>8, LenProperties, ElementOfSeq
<1>10. IdsOf(all) = allIds
  <2>1. IdsOf(all) = [p \in 1 .. Len(all) |-> all[p].id]
    BY <1>9 DEF IdsOf
  <2>2. allIds = [p \in 1 .. Len(all) |-> allIds[p]]
    BY <1>7, <1>9, LenProperties
  <2> QED
    BY <1>8, <2>1, <2>2
<1>11. /\ FirstUses(allIds) \subseteq 1 .. Len(all)
       /\ \A k \in 1 .. Len(all) : \E m \in FirstUses(allIds) : allIds[m] = allIds[k]
       /\ \A m, n \in FirstUses(allIds) : allIds[m] = allIds[n] => m = n
  BY <1>7, <1>8, FirstUsesFacts
<1>12. \A k : k \in ToSet(IdsOf(t.vars)) <=> \E j \in 1 .. Len(t.vars) : t.vars[j].id = k
  <2>1. DOMAIN IdsOf(t.vars) = 1 .. Len(t.vars)
        /\ \A j \in 1 .. Len(t.vars) : IdsOf(t.vars)[j] = t.vars[j].id
    BY ReadsTyped, LenProperties
  <2> QED
    BY <2>1 DEF ToSet
<1>13. N \subseteq DOMAIN allIds /\ N \subseteq FirstUses(allIds)
  BY <1>9, <1>11
<1>14. \A k \in N : \A j \in 1 .. Len(t.vars) : t.vars[j].id # allIds[k]
  BY <1>12
<1>15. \A k \in FirstUses(allIds) : k \in N \/ \E j \in 1 .. Len(t.vars) : t.vars[j].id = allIds[k]
  BY <1>12
<1> HIDE DEF N
<1>16. /\ Names(t) \in Seq(STRING) /\ Len(Names(t)) = Cardinality(N) /\ Cardinality(N) \in Nat
       /\ DOMAIN Names(t) = 1 .. Cardinality(N)
       /\ \A n \in 1 .. Cardinality(N) : Nth(N, n) \in N /\ Names(t)[n] = allIds[Nth(N, n)]
       /\ \A i \in N : \E n \in 1 .. Cardinality(N) : Names(t)[n] = allIds[i]
       /\ \A m, n \in 1 .. Cardinality(N) : Nth(N, m) = Nth(N, n) => m = n
  BY <1>1, <1>7, <1>13, PickedFacts
<1>17. C = N
  <2>1. ASSUME NEW k \in N PROVE k \in C
    <3>1. allIds[k] \in ToSet(Names(t)) /\ k \in 1 .. Len(all) /\ allIds[k] = all[k].id
      BY <1>8, <1>13, <1>9, <1>16 DEF ToSet
    <3> QED
      BY <3>1, <1>10, <1>13
  <2>2. ASSUME NEW k \in C PROVE k \in N
    <3>1. k \in FirstUses(allIds) /\ k \in 1 .. Len(all) /\ all[k].id = allIds[k]
      BY <1>8, <1>10, <1>11
    <3>2. PICK n \in 1 .. Cardinality(N) : Names(t)[n] = all[k].id
      BY <1>16 DEF ToSet
    <3>3. Nth(N, n) \in N /\ allIds[Nth(N, n)] = allIds[k]
      BY <3>1, <3>2, <1>16
    <3> QED
      BY <3>1, <3>3, <1>14, <1>15
  <2> HIDE DEF C
  <2> QED
    BY <2>1, <2>2
<1> HIDE DEF C
<1>18. /\ Captured(t) \in Seq(Token) /\ Len(Captured(t)) = Cardinality(N)
       /\ \A n \in 1 .. Cardinality(N) : Captured(t)[n] = all[Nth(N, n)]
  <2>1. Captured(t) = Picked(all, N) /\ N \subseteq DOMAIN all
    BY <1>2, <1>9, <1>13, <1>17
  <2> QED
    BY <2>1, <1>7, PickedFacts
<1>19. ASSUME NEW k \in 1 .. Len(Names(t))
       PROVE  /\ Captured(t)[k].id = Names(t)[k]
              /\ \A j \in 1 .. Len(t.vars) : t.vars[j].id # Names(t)[k]
              /\ \E i \in 1 .. Len(t.subs) : \E j \in 1 .. Len(Reads(t)[i].operands) :
                   Captured(t)[k] = Reads(t)[i].operands[j]
  <2>1. Nth(N, k) \in N /\ Names(t)[k] = allIds[Nth(N, k)] /\ Captured(t)[k] = all[Nth(N, k)]
    BY <1>16, <1>18
  <2>2. Nth(N, k) \in 1 .. Len(all)
    BY <2>1, <1>9, <1>13
  <2>3. Captured(t)[k].id = Names(t)[k]
    BY <2>1, <2>2, <1>8
  <2>4. PICK i \in 1 .. Len(ops) : \E j \in 1 .. Len(ops[i]) : all[Nth(N, k)] = ops[i][j]
    BY <2>2, <1>7
  <2>5. i \in 1 .. Len(t.subs) /\ ops[i] = Reads(t)[i].operands
    BY <1>4
  <2> QED
    BY <2>1, <2>3, <2>4, <2>5, <1>14
<1>20. \A j, k \in 1 .. Len(Names(t)) : Names(t)[j] = Names(t)[k] => j = k
  <2> SUFFICES ASSUME NEW j \in 1 .. Len(Names(t)), NEW k \in 1 .. Len(Names(t)),
                      Names(t)[j] = Names(t)[k]
               PROVE  j = k
    OBVIOUS
  <2>1. Nth(N, j) \in FirstUses(allIds) /\ Nth(N, k) \in FirstUses(allIds)
        /\ allIds[Nth(N, j)] = allIds[Nth(N, k)]
    BY <1>16, <1>13
  <2> QED
    BY <2>1, <1>11, <1>16
<1>21. ASSUME NEW i \in 1 .. Len(t.subs), NEW j \in 1 .. Len(Reads(t)[i].operands)
       PROVE  \/ \E k \in 1 .. Len(t.vars) : t.vars[k].id = Reads(t)[i].operands[j].id
              \/ \E k \in 1 .. Len(Names(t)) : Names(t)[k] = Reads(t)[i].operands[j].id
  <2>1. i \in 1 .. Len(ops) /\ ops[i] = Reads(t)[i].operands
    BY <1>4
  <2>2. PICK p \in 1 .. Len(all) : all[p] = Reads(t)[i].operands[j]
    <3>1. j \in 1 .. Len(ops[i])
      BY <2>1
    <3>2. \E p \in 1 .. Len(all) : all[p] = ops[i][j]
      BY <2>1, <3>1, <1>7, Zenon
    <3> QED
      BY <2>1, <3>2
  <2>3. PICK m \in FirstUses(allIds) : allIds[m] = allIds[p]
    BY <1>11
  <2>4. allIds[m] = Reads(t)[i].operands[j].id
    BY <2>2, <2>3, <1>8
  <2>5. CASE m \in N
    BY <2>4, <2>5, <1>16
  <2>6. CASE \E k \in 1 .. Len(t.vars) : t.vars[k].id = allIds[m]
    BY <2>4, <2>6
  <2> QED
    BY <2>5, <2>6, <1>15
<1> QED
  BY <1>16, <1>18, <1>19, <1>20, <1>21

\* The position of a name that is there is a position where it is.
LEMMA PositionFacts ==
  ASSUME NEW unified \in Seq(STRING), NEW id, NEW k \in 1 .. Len(unified), unified[k] = id
  PROVE  /\ Indirect!Position(unified, id) \in 1 .. Len(unified)
         /\ unified[Indirect!Position(unified, id)] = id
<1> DEFINE S == {p \in DOMAIN unified : unified[p] = id}
           f == [p \in S |-> p]
<1>1. Indirect!Position(unified, id) = Max(S)
  BY DEF Indirect!Position, Indirect!Max, Max
<1>2. S \subseteq DOMAIN unified /\ k \in S /\ DOMAIN unified = 1 .. Len(unified)
  BY LenProperties
<1>3. S \subseteq Int /\ IsFiniteSet(S) /\ S # {}
  <2> HIDE DEF S
  <2> QED
    BY <1>2, PositionsFinite
<1>4. f \in [S -> Int] /\ {f[p] : p \in S} = S
  BY <1>3
<1>5. Max({f[p] : p \in S}) \in {f[p] : p \in S}
  <2> HIDE DEF S, f
  <2> QED
    BY <1>3, <1>4, MaxOfValues
<1>6. Max(S) \in S
  <2> HIDE DEF S, f
  <2> QED
    BY <1>4, <1>5
<1> QED
  BY <1>1, <1>2, <1>6

\* The map of a parsed subscript: over the captured names and the variables, it reads at
\* each place one whose name stands there in the text.
LEMMA CanonicalFacts ==
  ASSUME NEW t \in Indirect!Text, NEW i \in 1 .. Len(t.subs)
  PROVE  LET terms == t.subs[i].terms
             map == Indirect!Canonical(Reads(t)[i], Names(t) \o IdsOf(t.vars))
         IN /\ map \in AffineMap /\ map.syms = 0 /\ map.dims = Len(Names(t)) + Len(t.vars)
            /\ Len(map.results) = Len(terms)
            /\ \A r \in 1 .. Len(terms) :
                 /\ Len(map.results[r]) = Len(terms[r])
                 /\ \A k \in 1 .. Len(terms[r]) :
                      \/ /\ map.results[r][k] \in 1 .. Len(Names(t))
                         /\ Names(t)[map.results[r][k]] = terms[r][k].tok.id
                      \/ /\ map.results[r][k] - Len(Names(t)) \in 1 .. Len(t.vars)
                         /\ t.vars[map.results[r][k] - Len(Names(t))].id = terms[r][k].tok.id
<1> DEFINE terms == t.subs[i].terms
           read == Reads(t)[i]
           unified == Names(t) \o IdsOf(t.vars)
           map == Indirect!Canonical(read, unified)
<1>1. terms \in AffineTerms /\ read = ReadMap(terms) /\ read.operands \in Seq(Token)
      /\ Len(t.vars) \in Nat
      /\ IdsOf(t.vars) \in Seq(STRING) /\ Len(IdsOf(t.vars)) = Len(t.vars)
      /\ \A j \in 1 .. Len(t.vars) : IdsOf(t.vars)[j] = t.vars[j].id
  BY ReadsTyped
<1>2. /\ Names(t) \in Seq(STRING) /\ Len(Names(t)) \in Nat
      /\ \A j \in 1 .. Len(read.operands) :
           \/ \E k \in 1 .. Len(t.vars) : t.vars[k].id = read.operands[j].id
           \/ \E k \in 1 .. Len(Names(t)) : Names(t)[k] = read.operands[j].id
  BY CapturedFacts
<1>3. unified \in Seq(STRING) /\ Len(unified) = Len(Names(t)) + Len(t.vars)
  <2>1. unified \in Seq(STRING)
    BY <1>1, <1>2, ConcatProperties
  <2>2. Len(unified) = Len(Names(t)) + Len(IdsOf(t.vars))
    BY <1>1, <1>2, ConcatProperties
  <2> QED
    BY <1>1, <2>1, <2>2
<1>4. \A p \in 1 .. Len(unified) :
        \/ p \in 1 .. Len(Names(t)) /\ unified[p] = Names(t)[p]
        \/ p - Len(Names(t)) \in 1 .. Len(t.vars) /\ unified[p] = t.vars[p - Len(Names(t))].id
  <2> DEFINE u == Names(t)
             v == IdsOf(t.vars)
  <2>0. u \in Seq(STRING) /\ v \in Seq(STRING)
    BY <1>1, <1>2
  <2> HIDE DEF u, v
  <2>1. /\ \A p \in 1 .. Len(u) : (u \o v)[p] = u[p]
        /\ \A p \in 1 .. Len(v) : (u \o v)[Len(u) + p] = v[p]
    BY <2>0, ConcatParts, SMTT(30)
  <2>2. \A p \in 1 .. Len(u \o v) :
          p \in 1 .. Len(u) \/ (p - Len(u) \in 1 .. Len(v) /\ p = Len(u) + (p - Len(u)))
    BY <2>0, ConcatParts, SMTT(30)
  <2>3. ASSUME NEW p \in 1 .. Len(u \o v)
        PROVE  \/ p \in 1 .. Len(u) /\ (u \o v)[p] = u[p]
               \/ p - Len(u) \in 1 .. Len(v) /\ (u \o v)[p] = v[p - Len(u)]
    BY <2>1, <2>2, Zenon
  <2>4. Len(v) = Len(t.vars) /\ \A j \in 1 .. Len(v) : v[j] = t.vars[j].id
    BY <1>1 DEF v
  <2> QED
    BY <2>3, <2>4 DEF u, v
<1> HIDE DEF unified
<1>5. \A j \in 1 .. Len(read.operands) : \E k \in 1 .. Len(unified) : unified[k] = read.operands[j].id
  <2> TAKE j \in 1 .. Len(read.operands)
  <2>1. CASE \E k \in 1 .. Len(t.vars) : t.vars[k].id = read.operands[j].id
    <3>1. PICK k \in 1 .. Len(t.vars) : t.vars[k].id = read.operands[j].id
      BY <2>1
    <3>2. Len(Names(t)) + k \in 1 .. Len(unified) /\ (Len(Names(t)) + k) - Len(Names(t)) = k
          /\ ~(Len(Names(t)) + k \in 1 .. Len(Names(t)))
      BY <1>1, <1>2, <1>3
    <3>3. unified[Len(Names(t)) + k] = t.vars[k].id
      BY <3>2, <1>4
    <3> QED
      BY <3>1, <3>2, <3>3
  <2>2. CASE \E k \in 1 .. Len(Names(t)) : Names(t)[k] = read.operands[j].id
    <3>1. PICK k \in 1 .. Len(Names(t)) : Names(t)[k] = read.operands[j].id
      BY <2>2
    <3>2. k \in 1 .. Len(unified) /\ ~(k - Len(Names(t)) \in 1 .. Len(t.vars))
      BY <1>1, <1>2, <1>3
    <3>3. unified[k] = Names(t)[k]
      BY <3>2, <1>4
    <3> QED
      BY <3>1, <3>2, <3>3
  <2> QED
    BY <1>2, <2>1, <2>2
<1>6. /\ read.map \in AffineMap
      /\ Len(read.map.results) = Len(terms)
      /\ \A r \in 1 .. Len(terms) :
           /\ Len(read.map.results[r]) = Len(terms[r])
           /\ \A k \in 1 .. Len(terms[r]) :
                /\ read.map.results[r][k] \in 1 .. Len(read.operands)
                /\ read.operands[read.map.results[r][k]].id = terms[r][k].tok.id
  <2> HIDE DEF terms, read
  <2>1. LET rm == ReadMap(terms)
        IN /\ rm.map \in AffineMap
           /\ Len(rm.map.results) = Len(terms)
           /\ \A r \in 1 .. Len(terms) :
                /\ Len(rm.map.results[r]) = Len(terms[r])
                /\ \A k \in 1 .. Len(terms[r]) :
                     /\ rm.map.results[r][k] \in 1 .. Len(rm.operands)
                     /\ rm.operands[rm.map.results[r][k]].id = terms[r][k].tok.id
    BY <1>1, ReadMapFacts, Zenon
  <2> QED
    BY <1>1, <2>1, Zenon
<1>7. /\ Len(terms) \in Nat /\ DOMAIN read.map.results = 1 .. Len(terms)
      /\ \A r \in 1 .. Len(terms) :
           Len(terms[r]) \in Nat /\ DOMAIN read.map.results[r] = 1 .. Len(terms[r])
  <2>1. read.map.results \in Seq(Seq(Nat))
    BY <1>6 DEF AffineMap
  <2>2. Len(read.map.results) \in Nat /\ DOMAIN read.map.results = 1 .. Len(read.map.results)
        /\ \A r \in 1 .. Len(read.map.results) : read.map.results[r] \in Seq(Nat)
    BY <2>1, LenProperties, ElementOfSeq
  <2>3. \A r \in 1 .. Len(terms) : Len(read.map.results[r]) \in Nat
          /\ DOMAIN read.map.results[r] = 1 .. Len(read.map.results[r])
    BY <2>2, <1>6, LenProperties
  <2> QED
    BY <2>2, <2>3, <1>6
<1> HIDE DEF terms, read
<1> DEFINE at(r, k) == Indirect!Position(unified, read.operands[read.map.results[r][k]].id)
<1>8. ASSUME NEW r \in 1 .. Len(terms), NEW k \in 1 .. Len(terms[r])
      PROVE  at(r, k) \in 1 .. Len(unified) /\ unified[at(r, k)] = terms[r][k].tok.id
  <2>1. PICK p \in 1 .. Len(unified) : unified[p] = read.operands[read.map.results[r][k]].id
    BY <1>5, <1>6
  <2>2. at(r, k) \in 1 .. Len(unified)
        /\ unified[at(r, k)] = read.operands[read.map.results[r][k]].id
    BY <2>1, <1>3, PositionFacts
  <2> HIDE DEF at
  <2> QED
    BY <2>2, <1>6
<1> DEFINE results == [r \in 1 .. Len(terms) |-> [k \in 1 .. Len(terms[r]) |-> at(r, k)]]
<1>9. map = [dims |-> Len(unified), syms |-> 0, results |-> results]
  BY <1>7 DEF Indirect!Canonical
<1> HIDE DEF at, map
<1>10. \A r \in 1 .. Len(terms) :
         /\ results[r] \in Seq(Nat) /\ Len(results[r]) = Len(terms[r])
         /\ DOMAIN results[r] = 1 .. Len(terms[r])
         /\ \A k \in 1 .. Len(terms[r]) : results[r][k] = at(r, k)
  <2> TAKE r \in 1 .. Len(terms)
  <2>1. results[r] = [k \in 1 .. Len(terms[r]) |-> at(r, k)]
    OBVIOUS
  <2>2. results[r] \in [1 .. Len(terms[r]) -> Nat]
    BY <2>1, <1>8
  <2>3. \A k \in 1 .. Len(terms[r]) : results[r][k] = at(r, k)
    BY <2>1
  <2> HIDE DEF results
  <2> QED
    BY <2>2, <2>3, <1>7, FunctionIsSeq
<1>11. results \in Seq(Seq(Nat)) /\ Len(results) = Len(terms) /\ DOMAIN results = 1 .. Len(terms)
  <2>1. results = [r \in 1 .. Len(terms) |-> results[r]]
    OBVIOUS
  <2> HIDE DEF results
  <2>2. results \in [1 .. Len(terms) -> Seq(Nat)]
    BY <2>1, <1>10
  <2> QED
    BY <2>2, <1>7, FunctionIsSeq
<1> HIDE DEF results
<1>12. Len(unified) \in Nat /\ map.dims = Len(unified) /\ map.syms = 0 /\ map.results = results
       /\ NumInputs(map) = Len(unified)
  <2>1. Len(unified) \in Nat
    BY <1>3, LenProperties
  <2> QED
    BY <1>9, <2>1 DEF NumInputs
<1>13. map \in AffineMap
  <2>1. map \in [dims : Nat, syms : Nat, results : Seq(Seq(Nat))]
    BY <1>9, <1>11, <1>12
  <2>2. \A r \in DOMAIN results : \A k \in DOMAIN results[r] : results[r][k] \in 1 .. Len(unified)
    <3> SUFFICES ASSUME NEW r \in 1 .. Len(terms), NEW k \in 1 .. Len(terms[r])
                 PROVE  results[r][k] \in 1 .. Len(unified)
      BY <1>10, <1>11, Zenon
    <3> QED
      BY <1>8, <1>10
  <2> QED
    BY <2>1, <2>2, <1>12 DEF AffineMap
<1>14. ASSUME NEW r \in 1 .. Len(terms), NEW k \in 1 .. Len(terms[r])
       PROVE  \/ /\ map.results[r][k] \in 1 .. Len(Names(t))
                 /\ Names(t)[map.results[r][k]] = terms[r][k].tok.id
              \/ /\ map.results[r][k] - Len(Names(t)) \in 1 .. Len(t.vars)
                 /\ t.vars[map.results[r][k] - Len(Names(t))].id = terms[r][k].tok.id
  <2>1. map.results[r][k] = at(r, k)
    BY <1>10, <1>12
  <2>2. at(r, k) \in 1 .. Len(unified) /\ unified[at(r, k)] = terms[r][k].tok.id
    BY <1>8
  <2> QED
    BY <2>1, <2>2, <1>4
<1>15. \A r \in 1 .. Len(terms) : Len(map.results[r]) = Len(terms[r])
  BY <1>10, <1>12
<1> QED
  BY <1>3, <1>11, <1>12, <1>13, <1>14, <1>15 DEF map, terms, read, unified

----------------------------------------------------------------------------
(* Printing a map. *)

\* A map is printed over operands that cover its inputs: at each place the operand there.
LEMMA PrintedMapFacts ==
  ASSUME NEW map \in AffineMap, NEW operands \in Seq(Token), NumInputs(map) <= Len(operands)
  PROVE  LET terms == PrintedMap(map, operands)
         IN /\ terms \in AffineTerms /\ Len(terms) = Len(map.results)
            /\ \A i \in 1 .. Len(map.results) :
                 /\ Len(terms[i]) = Len(map.results[i])
                 /\ \A k \in 1 .. Len(map.results[i]) :
                      /\ map.results[i][k] \in 1 .. NumInputs(map)
                      /\ map.results[i][k] \in 1 .. Len(operands)
                      /\ terms[i][k].tok = operands[map.results[i][k]]
                      /\ terms[i][k].sym <=> map.results[i][k] > map.dims
<1> DEFINE results == map.results
           terms == PrintedMap(map, operands)
           term(i, k) == [tok |-> operands[results[i][k]], sym |-> results[i][k] > map.dims]
<1>1. results \in Seq(Seq(Nat)) /\ map.dims \in Nat /\ map.syms \in Nat /\ NumInputs(map) \in Nat
      /\ \A i \in DOMAIN results : \A k \in DOMAIN results[i] : results[i][k] \in 1 .. NumInputs(map)
  BY DEF AffineMap, NumInputs
<1>2. /\ Len(results) \in Nat /\ DOMAIN results = 1 .. Len(results)
      /\ \A i \in 1 .. Len(results) : results[i] \in Seq(Nat)
  BY <1>1, LenProperties, ElementOfSeq
<1>3. \A i \in 1 .. Len(results) :
        Len(results[i]) \in Nat /\ DOMAIN results[i] = 1 .. Len(results[i])
  BY <1>2, LenProperties
<1>4. Len(operands) \in Nat /\ \A p \in 1 .. Len(operands) : operands[p] \in Token
  BY LenProperties, ElementOfSeq
<1>5. terms = [i \in 1 .. Len(results) |-> [k \in 1 .. Len(results[i]) |-> term(i, k)]]
  BY <1>2, <1>3 DEF PrintedMap
<1> HIDE DEF results, terms
<1>6. ASSUME NEW i \in 1 .. Len(results), NEW k \in 1 .. Len(results[i])
      PROVE  /\ results[i][k] \in 1 .. NumInputs(map) /\ results[i][k] \in 1 .. Len(operands)
             /\ term(i, k) \in Term
  <2>1. results[i][k] \in 1 .. NumInputs(map)
    BY <1>1, <1>2, <1>3
  <2>2. results[i][k] \in 1 .. Len(operands)
    BY <2>1, <1>1, <1>4, SMTT(30)
  <2>3. operands[results[i][k]] \in Token
    BY <2>2, <1>4
  <2> QED
    BY <2>1, <2>2, <2>3 DEF Term
<1>7. ASSUME NEW i \in 1 .. Len(results)
      PROVE  /\ terms[i] \in Seq(Term) /\ Len(terms[i]) = Len(results[i])
             /\ \A k \in 1 .. Len(results[i]) : terms[i][k] = term(i, k)
  <2>1. terms[i] = [k \in 1 .. Len(results[i]) |-> term(i, k)]
    BY <1>5
  <2>2. \A k \in 1 .. Len(results[i]) : terms[i][k] = term(i, k)
    BY <2>1
  <2> HIDE DEF term
  <2>3. terms[i] \in [1 .. Len(results[i]) -> Term]
    BY <2>1, <1>6
  <2> QED
    BY <2>2, <2>3, <1>3, FunctionIsSeq
<1>8. terms \in Seq(Seq(Term)) /\ Len(terms) = Len(results)
  <2>1. terms = [i \in 1 .. Len(results) |-> terms[i]]
    BY <1>5
  <2>2. terms \in [1 .. Len(results) -> Seq(Term)]
    BY <2>1, <1>7
  <2> QED
    BY <2>2, <1>2, FunctionIsSeq
<1>9. terms \in AffineTerms
  BY <1>8 DEF AffineTerms, Term
<1>10. \A i \in 1 .. Len(results) : \A k \in 1 .. Len(results[i]) :
         /\ terms[i][k].tok = operands[results[i][k]]
         /\ terms[i][k].sym <=> results[i][k] > map.dims
  <2> TAKE i \in 1 .. Len(results)
  <2> TAKE k \in 1 .. Len(results[i])
  <2>1. terms[i][k] = [tok |-> operands[results[i][k]], sym |-> results[i][k] > map.dims]
    BY <1>7
  <2>2. terms[i][k].tok = operands[results[i][k]]
    BY <2>1
  <2>3. terms[i][k].sym = (results[i][k] > map.dims)
    <3> DEFINE x == operands[results[i][k]]
               b == results[i][k] > map.dims
    <3>1. terms[i][k] = [tok |-> x, sym |-> b]
      BY <2>1
    <3> HIDE DEF x, b
    <3>2. terms[i][k].sym = b
      BY <3>1
    <3> QED
      BY <3>2 DEF b
  <2> QED
    BY <2>2, <2>3, Zenon
<1> QED
  BY <1>6, <1>7, <1>8, <1>9, <1>10 DEF terms, results

LEMMA NamesTyped ==
  ASSUME NEW s \in Seq(Values)
  PROVE  LET toks == [k \in DOMAIN s |-> NameOf[s[k]]]
         IN /\ toks \in Seq(Token) /\ Len(toks) = Len(s) /\ DOMAIN toks = 1 .. Len(s)
            /\ DOMAIN s = 1 .. Len(s) /\ Len(s) \in Nat
            /\ \A k \in 1 .. Len(s) : s[k] \in Values /\ toks[k] = NameOf[s[k]]
<1> DEFINE toks == [k \in DOMAIN s |-> NameOf[s[k]]]
<1>1. Len(s) \in Nat /\ DOMAIN s = 1 .. Len(s) /\ \A k \in 1 .. Len(s) : s[k] \in Values
  BY LenProperties, ElementOfSeq
<1>2. toks \in [1 .. Len(s) -> Token] /\ \A k \in 1 .. Len(s) : toks[k] = NameOf[s[k]]
  BY <1>1, NamesAssumption
<1>3. toks \in Seq(Token) /\ Len(toks) = Len(s) /\ DOMAIN toks = 1 .. Len(s)
  <2> HIDE DEF toks
  <2> QED
    BY <1>1, <1>2, FunctionIsSeq
<1> QED
  BY <1>1, <1>2, <1>3

\* A name that resolves is that of the value it resolves to, and of no other.
LEMMA ResolveFacts ==
  /\ \A tok : Resolvable(tok) => Resolve(tok) \in Values /\ NameOf[Resolve(tok)] = tok
  /\ \A v \in Values : Resolvable(NameOf[v]) /\ Resolve(NameOf[v]) = v
<1>1. DOMAIN NameOf = Values /\ \A v, w \in Values : NameOf[v] = NameOf[w] => v = w
  BY NamesAssumption DEF IsInjective
<1>2. \A tok : Resolvable(tok) <=> \E v \in Values : NameOf[v] = tok
  BY <1>1, Zenon DEF Resolvable, Range
<1>3. ASSUME NEW tok, Resolvable(tok) PROVE Resolve(tok) \in Values /\ NameOf[Resolve(tok)] = tok
  BY <1>2, <1>3, Zenon DEF Resolve
<1>4. ASSUME NEW v \in Values PROVE Resolvable(NameOf[v]) /\ Resolve(NameOf[v]) = v
  <2>1. Resolvable(NameOf[v])
    BY <1>2
  <2> QED
    BY <2>1, <1>1, <1>3
<1> QED
  BY <1>3, <1>4

LEMMA ResolvedTyped ==
  ASSUME NEW s \in Seq(Token), \A k \in DOMAIN s : Resolvable(s[k])
  PROVE  LET vals == [k \in DOMAIN s |-> Resolve(s[k])]
         IN /\ vals \in Seq(Values) /\ Len(vals) = Len(s) /\ DOMAIN vals = 1 .. Len(s)
            /\ DOMAIN s = 1 .. Len(s) /\ Len(s) \in Nat
            /\ \A k \in 1 .. Len(s) : vals[k] = Resolve(s[k]) /\ NameOf[vals[k]] = s[k]
<1> DEFINE vals == [k \in DOMAIN s |-> Resolve(s[k])]
<1>1. Len(s) \in Nat /\ DOMAIN s = 1 .. Len(s)
  BY LenProperties
<1>2. vals \in [1 .. Len(s) -> Values]
      /\ \A k \in 1 .. Len(s) : vals[k] = Resolve(s[k]) /\ NameOf[vals[k]] = s[k]
  BY <1>1, ResolveFacts
<1>3. vals \in Seq(Values) /\ Len(vals) = Len(s) /\ DOMAIN vals = 1 .. Len(s)
  <2> HIDE DEF vals
  <2> QED
    BY <1>1, <1>2, FunctionIsSeq
<1> QED
  BY <1>1, <1>2, <1>3

----------------------------------------------------------------------------
(* Attributes that may be missing, memrefs and variables. *)

LEMMA OptionalFacts ==
  ASSUME NEW S
  PROVE  /\ \A s \in AtMostOne(S) : \/ s = <<>>
                                    \/ s # <<>> /\ Len(s) = 1 /\ s[1] \in S /\ s = <<s[1]>>
         /\ \A s \in AtMostOne(S) : s \in Seq(S) /\ Len(s) \in Nat /\ DOMAIN s = 1 .. Len(s)
         /\ <<>> \in AtMostOne(S)
         /\ \A x \in S : <<x>> \in AtMostOne(S)
         /\ \A x : Len(<<x>>) = 1 /\ <<x>>[1] = x /\ <<x>> # <<>>
<1>1. ASSUME NEW s \in AtMostOne(S)
      PROVE  s \in Seq(S) /\ Len(s) \in Nat /\ DOMAIN s = 1 .. Len(s) /\ Len(s) <= 1
  BY LenProperties DEF AtMostOne
<1>2. ASSUME NEW s \in AtMostOne(S), s # <<>>
      PROVE  Len(s) = 1 /\ s[1] \in S /\ s = <<s[1]>>
  <2>0. Len(s) # 0
    BY <1>1, <1>2, EmptySeq
  <2>1. Len(s) = 1
    <3>1. s \in AtMostOne(S) /\ s \in Seq(S) /\ Len(s) <= 1
      BY <1>1
    <3>2. Len(s) \in Nat
      BY <3>1, LenProperties
    <3> DEFINE n == Len(s)
    <3>3. n # 0 /\ n <= 1 /\ n \in Nat
      BY <2>0, <3>1, <3>2, Zenon
    <3> HIDE DEF n
    <3>4. n = 1
      BY <3>3
    <3> QED
      BY <3>4, Zenon DEF n
  <2>2. 1 \in 1 .. Len(s)
    BY <2>1
  <2>3. s[1] \in S
    BY <1>1, <2>2, ElementOfSeq
  <2>4. <<s[1]>> \in Seq(S) /\ Len(<<s[1]>>) = 1 /\ <<s[1]>>[1] = s[1]
    BY <2>3
  <2>5. \A i \in 1 .. Len(s) : s[i] = <<s[1]>>[i]
    BY <2>1, <2>4
  <2> QED
    BY <1>1, <2>1, <2>3, <2>4, <2>5, SeqEqual
<1>3. <<>> \in AtMostOne(S)
  BY EmptySeq DEF AtMostOne
<1>4. \A x \in S : <<x>> \in AtMostOne(S)
  BY DEF AtMostOne
<1>5. \A x : Len(<<x>>) = 1 /\ <<x>>[1] = x /\ <<x>> # <<>>
  OBVIOUS
<1> QED
  BY <1>1, <1>2, <1>3, <1>4, <1>5

Subscripted(t) == {i \in 1 .. Len(t.subs) : t.subs[i].memref # <<>>}

\* The memrefs of a text, and where that of each subscript is among them.
LEMMA MemrefFacts ==
  ASSUME NEW t \in Indirect!Text
  PROVE  LET ms == Indirect!Memrefs(t)
         IN /\ ms \in Seq(Views) /\ Len(ms) = Cardinality(Subscripted(t)) /\ Len(ms) \in Nat
            /\ \A i \in Subscripted(t) :
                 /\ Cardinality({j \in Subscripted(t) : j <= i}) \in 1 .. Len(ms)
                 /\ ms[Cardinality({j \in Subscripted(t) : j <= i})] = t.subs[i].memref[1]
<1> DEFINE ms == Indirect!Memrefs(t)
           I == Subscripted(t)
<1>1. DOMAIN t.subs = 1 .. Len(t.subs) /\ Len(t.subs) \in Nat
      /\ \A i \in 1 .. Len(t.subs) : t.subs[i] \in SubscriptText
  BY ReadsTyped
<1>2. I = {i \in DOMAIN t.subs : t.subs[i].memref # <<>>}
  BY <1>1 DEF Subscripted
<1>3. ms = [n \in 1 .. Cardinality(I) |-> t.subs[Nth(I, n)].memref[1]]
  BY <1>2 DEF Indirect!Memrefs, Indirect!Nth, Nth, Indirect!Cardinality, Cardinality
<1>4. I \subseteq Int /\ IsFiniteSet(I) /\ I \subseteq 1 .. Len(t.subs)
  <2>1. IsFiniteSet(1 .. Len(t.subs))
    BY <1>1, FS_Interval
  <2>2. I \subseteq 1 .. Len(t.subs) /\ 1 .. Len(t.subs) \subseteq Int
    BY <1>1 DEF Subscripted
  <2> QED
    BY <2>1, <2>2, FS_Subset
<1>5. \A i \in I : t.subs[i].memref[1] \in Views
  BY <1>1, OptionalFacts DEF Subscripted, SubscriptText
<1> HIDE DEF I
<1>6. /\ Cardinality(I) \in Nat
      /\ \A n \in 1 .. Cardinality(I) : Nth(I, n) \in I
      /\ \A i \in I : \E n \in 1 .. Cardinality(I) :
           n = Cardinality({j \in I : j <= i}) /\ Nth(I, n) = i
  BY <1>4, NthFacts
<1>7. ms \in [1 .. Cardinality(I) -> Views]
      /\ \A n \in 1 .. Cardinality(I) : ms[n] = t.subs[Nth(I, n)].memref[1]
  <2> HIDE DEF ms
  <2>1. \A n \in 1 .. Cardinality(I) : ms[n] = t.subs[Nth(I, n)].memref[1]
    BY <1>3
  <2>2. \A n \in 1 .. Cardinality(I) : ms[n] \in Views
    BY <2>1, <1>5, <1>6
  <2>3. ms = [n \in 1 .. Cardinality(I) |-> ms[n]]
    BY <1>3
  <2> QED
    BY <2>1, <2>2, <2>3
<1> HIDE DEF ms
<1>8. ms \in Seq(Views) /\ Len(ms) = Cardinality(I)
  BY <1>6, <1>7, FunctionIsSeq
<1>9. ASSUME NEW i \in I
      PROVE  /\ Cardinality({j \in I : j <= i}) \in 1 .. Len(ms)
             /\ ms[Cardinality({j \in I : j <= i})] = t.subs[i].memref[1]
  <2>1. PICK n \in 1 .. Cardinality(I) : n = Cardinality({j \in I : j <= i}) /\ Nth(I, n) = i
    BY <1>6
  <2> QED
    BY <2>1, <1>7, <1>8
<1> QED
  BY <1>6, <1>8, <1>9 DEF ms, I

\* The variables that the printer numbers: the captured ones, then the arguments.
LEMMA VariableFacts ==
  ASSUME NEW o \in Indirect!Operation
  PROVE  LET all == Indirect!AllVariables(o)
             args == SubSeq(ArgumentNames, 1, o.args)
         IN /\ all \in Seq(Token) /\ Len(all) = Len(o.captured) + o.args
            /\ o.args \in Nat /\ Len(o.captured) \in Nat
            /\ \A p \in 1 .. Len(o.captured) :
                 o.captured[p] \in Values /\ p \in 1 .. Len(all)
                 /\ all[p] = NameOf[o.captured[p]]
            /\ args \in Seq(Token) /\ Len(args) = o.args
            /\ \A j \in 1 .. o.args :
                 /\ j \in 1 .. Len(ArgumentNames) /\ args[j] = ArgumentNames[j]
                 /\ Len(o.captured) + j \in 1 .. Len(all)
                 /\ all[Len(o.captured) + j] = ArgumentNames[j]
            /\ \A p \in 1 .. Len(all) :
                 \/ p \in 1 .. Len(o.captured)
                 \/ p - Len(o.captured) \in 1 .. o.args
                      /\ p = Len(o.captured) + (p - Len(o.captured))
<1> DEFINE args == SubSeq(ArgumentNames, 1, o.args)
           toks == [k \in DOMAIN o.captured |-> NameOf[o.captured[k]]]
<1>1. o.captured \in Seq(Values) /\ o.args \in Nat /\ o.args <= Len(ArgumentNames)
  BY IndirectSets
<1>2. toks \in Seq(Token) /\ Len(toks) = Len(o.captured) /\ Len(o.captured) \in Nat
      /\ \A k \in 1 .. Len(o.captured) : o.captured[k] \in Values /\ toks[k] = NameOf[o.captured[k]]
  BY <1>1, NamesTyped
<1>3. ArgumentNames \in Seq(Token) /\ Len(ArgumentNames) \in Nat
      /\ \A j \in 1 .. Len(ArgumentNames) : ArgumentNames[j] \in Token
  BY ArgumentNamesAssumption, LenProperties, ElementOfSeq
<1>4. \A j \in 1 .. o.args : j \in 1 .. Len(ArgumentNames)
  BY <1>1, <1>3
<1>5. args \in Seq(Token) /\ Len(args) = o.args
      /\ \A j \in 1 .. o.args : args[j] = ArgumentNames[j]
  <2>1. \A j \in 1 .. o.args : ArgumentNames[j] \in Token
    BY <1>3, <1>4
  <2>2. /\ args \in Seq(Token) /\ Len(args) = IF 1 <= o.args THEN o.args - 1 + 1 ELSE 0
        /\ \A j \in 1 .. o.args - 1 + 1 : args[j] = ArgumentNames[1 + j - 1]
    BY <1>1, <2>1, SubSeqProperties
  <2>3. ASSUME NEW j \in 1 .. o.args PROVE args[j] = ArgumentNames[j]
    <3>1. j \in 1 .. o.args - 1 + 1 /\ 1 + j - 1 = j
      BY <1>1
    <3> QED
      BY <2>2, <3>1, Zenon
  <2>4. Len(args) = o.args
    BY <2>2, <1>1
  <2> QED
    BY <2>2, <2>3, <2>4
<1> HIDE DEF args, toks
<1>6. Indirect!AllVariables(o) = toks \o args
  BY DEF Indirect!AllVariables, args, toks
<1>7. /\ toks \o args \in Seq(Token) /\ Len(toks \o args) = Len(toks) + Len(args)
      /\ \A p \in 1 .. Len(toks) : p \in 1 .. Len(toks \o args)
      /\ \A p \in 1 .. Len(toks) : (toks \o args)[p] = toks[p]
  <2>0. toks \in Seq(Token) /\ args \in Seq(Token)
    BY <1>2, <1>5
  <2>1. toks \o args \in Seq(Token) /\ Len(toks \o args) = Len(toks) + Len(args)
    BY <2>0, ConcatParts
  <2>2. /\ \A p \in 1 .. Len(toks) : p \in 1 .. Len(toks \o args)
        /\ \A p \in 1 .. Len(toks) : (toks \o args)[p] = toks[p]
    BY <2>0, ConcatParts
  <2> QED
    BY <2>1, <2>2
<1>8. \A p \in 1 .. Len(args) : Len(toks) + p \in 1 .. Len(toks \o args)
  BY <1>2, <1>5, ConcatParts, SMTT(30)
<1>9. \A p \in 1 .. Len(args) : (toks \o args)[Len(toks) + p] = args[p]
  BY <1>2, <1>5, ConcatParts, SMTT(30)
<1>10. \A p \in 1 .. Len(toks \o args) :
         p \in 1 .. Len(toks) \/ (p - Len(toks) \in 1 .. Len(args) /\ p = Len(toks) + (p - Len(toks)))
  BY <1>2, <1>5, ConcatParts, SMTT(30)
<1> DEFINE all == toks \o args
<1> HIDE DEF all
<1>11. \A p \in 1 .. Len(o.captured) : p \in 1 .. Len(all) /\ all[p] = NameOf[o.captured[p]]
  BY <1>2, <1>7 DEF all
<1>12. \A j \in 1 .. o.args : Len(o.captured) + j \in 1 .. Len(all)
                              /\ all[Len(o.captured) + j] = ArgumentNames[j]
  BY <1>2, <1>5, <1>8, <1>9, Zenon DEF all
<1>13. \A p \in 1 .. Len(all) :
         \/ p \in 1 .. Len(o.captured)
         \/ p - Len(o.captured) \in 1 .. o.args /\ p = Len(o.captured) + (p - Len(o.captured))
  BY <1>2, <1>5, <1>10, Zenon DEF all
<1>14. all \in Seq(Token) /\ Len(all) = Len(o.captured) + o.args /\ Indirect!AllVariables(o) = all
  BY <1>2, <1>5, <1>6, <1>7, Zenon DEF all
<1> QED
  BY <1>1, <1>2, <1>4, <1>5, <1>11, <1>12, <1>13, <1>14 DEF args

----------------------------------------------------------------------------
(* What is built and parsed is an operation, what is printed is a text. *)

LEMMA AccessBuiltTyped ==
  ASSUME NEW args \in Access!Arguments
  PROVE  Access!Built(args) \in Access!Operation /\ Access!Built(args).kind = "access"
<1>1. Access!Built(args) =
        [kind |-> "access", base |-> args.base, map |-> args.map, indices |-> args.indices,
         symbols |-> args.symbols, set |-> args.set, order |-> args.order, rank |-> args.rank]
  BY DEF Access!Built
<1>2. args \in [base : Views, map : AffineMap, indices : Seq(Values), symbols : Seq(Values),
               set : IntegerSet, order : Order, rank : Nat]
  BY AccessSets
<1> QED
  BY <1>1, <1>2, AccessSets

LEMMA AccessParsedTyped ==
  ASSUME NEW t \in Access!Text, Access!Parses(t)
  PROVE  LET o == Access!Parsed(t)
         IN /\ o \in Access!Operation /\ o.kind = "access"
            /\ NumInputs(o.map) = Len(o.indices) /\ Len(o.symbols) = Len(t.symbols)
            /\ Len(o.map.results) = Len(t.terms)
<1> DEFINE o == Access!Parsed(t)
           read == ReadMap(t.terms)
           vals == [k \in DOMAIN read.operands |-> Resolve(read.operands[k])]
           syms == [k \in DOMAIN t.symbols |-> Resolve(t.symbols[k])]
<1>1. /\ t.base \in Views /\ t.terms \in AffineTerms /\ t.symbols \in Seq(Token)
      /\ t.set \in AtMostOne(IntegerSet) /\ t.order \in AtMostOne(Order) /\ t.rank \in Nat
  BY AccessSets
<1>2. /\ \A k \in DOMAIN read.operands : Resolvable(read.operands[k])
      /\ \A k \in DOMAIN t.symbols : Resolvable(t.symbols[k])
      /\ Len(t.set) = 1 /\ Len(t.order) = 1
  <2>1. Access!Readable(t) /\ Len(t.set) = 1 /\ Len(t.order) = 1
    BY DEF Access!Parses
  <2> QED
    BY <2>1, AccessUnfolds, Zenon
<1>3. /\ read.map \in AffineMap /\ read.operands \in Seq(Token)
      /\ NumInputs(read.map) = Len(read.operands) /\ Len(read.map.results) = Len(t.terms)
  BY <1>1, ReadMapFacts
<1>4. vals \in Seq(Values) /\ Len(vals) = Len(read.operands)
  BY <1>2, <1>3, ResolvedTyped
<1>5. syms \in Seq(Values) /\ Len(syms) = Len(t.symbols)
  BY <1>1, <1>2, ResolvedTyped
<1>6. t.set[1] \in IntegerSet /\ t.order[1] \in Order
  <2>0. Len(<<>>) = 0
    OBVIOUS
  <2>1. t.set # <<>> /\ t.order # <<>>
    BY <1>2, <2>0
  <2> QED
    BY <2>1, <1>1, OptionalFacts
<1>7. o = [kind |-> "access", base |-> t.base, map |-> read.map, indices |-> vals,
           symbols |-> syms, set |-> t.set[1], order |-> t.order[1], rank |-> t.rank]
  BY AccessUnfolds
<1> HIDE DEF o, read, vals, syms
<1>8. o \in Access!Operation
  BY <1>1, <1>3, <1>4, <1>5, <1>6, <1>7, AccessSets
<1> QED
  BY <1>3, <1>4, <1>5, <1>7, <1>8 DEF o

LEMMA AccessPrintedTyped ==
  ASSUME NEW o \in Access!Operation, Access!Verified(o)
  PROVE  Access!Printed(o) \in Access!Text
<1> DEFINE vals == [k \in DOMAIN o.indices |-> NameOf[o.indices[k]]]
           syms == [k \in DOMAIN o.symbols |-> NameOf[o.symbols[k]]]
           terms == PrintedMap(o.map, vals)
<1>1. /\ o.base \in Views /\ o.map \in AffineMap /\ o.indices \in Seq(Values)
      /\ o.symbols \in Seq(Values) /\ o.set \in IntegerSet /\ o.order \in Order /\ o.rank \in Nat
  BY AccessSets
<1>2. NumInputs(o.map) = Len(o.indices)
  BY DEF Access!Verified, Access!NumInputs, NumInputs
<1>3. vals \in Seq(Token) /\ Len(vals) = Len(o.indices) /\ Len(o.indices) \in Nat
  BY <1>1, NamesTyped
<1>4. syms \in Seq(Token)
  BY <1>1, NamesTyped
<1> HIDE DEF vals, syms
<1>5. terms \in AffineTerms
  BY <1>1, <1>2, <1>3, PrintedMapFacts
<1>6. <<o.set>> \in AtMostOne(IntegerSet) /\ <<o.order>> \in AtMostOne(Order)
  BY <1>1, OptionalFacts
<1>7. RankOf[o.base] \in Range(RankOf)
  BY <1>1, ViewsAssumption DEF Range
<1>8. Access!Printed(o) =
        [kind |-> "access", base |-> o.base, terms |-> terms, symbols |-> syms,
         set |-> <<o.set>>, order |-> <<o.order>>, type |-> RankOf[o.base], rank |-> o.rank]
  BY AccessUnfolds DEF vals, syms
<1> HIDE DEF terms
<1> QED
  BY <1>1, <1>4, <1>5, <1>6, <1>7, <1>8, AccessSets

LEMMA IndirectBuiltTyped ==
  ASSUME NEW args \in Indirect!Arguments
  PROVE  Indirect!Built(args) \in Indirect!Operation /\ Indirect!Built(args).kind = "indirect"
<1> DEFINE o == Indirect!Built(args)
<1>1. o = [kind |-> "indirect", args |-> args.set.dims, base |-> args.base, kinds |-> args.kinds,
           maps |-> args.maps, memrefs |-> args.memrefs, captured |-> args.captured,
           symbols |-> args.symbols, set |-> <<args.set>>, order |-> <<args.order>>,
           rank |-> args.rank]
  BY DEF Indirect!Built
<1>2. args \in [base : Views, kinds : Seq(BOOLEAN), maps : Seq(AffineMap),
               memrefs : Seq(Views), captured : Seq(Values), symbols : Seq(Values),
               set : IntegerSet, order : Order, rank : Nat]
      /\ args.set.dims <= Len(ArgumentNames)
  BY IndirectSets
<1>3. <<args.set>> \in AtMostOne(IntegerSet) /\ <<args.order>> \in AtMostOne(Order)
  BY <1>2, OptionalFacts
<1>4. args.set.dims \in Nat
  BY <1>2 DEF IntegerSet
<1> HIDE DEF o
<1>5. o \in [kind : {"indirect"}, args : Nat, base : Views, kinds : Seq(BOOLEAN),
             maps : Seq(AffineMap), memrefs : Seq(Views), captured : Seq(Values),
             symbols : Seq(Values), set : AtMostOne(IntegerSet), order : AtMostOne(Order),
             rank : Nat]
  BY <1>1, <1>2, <1>3, <1>4
<1>6. o.args <= Len(ArgumentNames) /\ o.kind = "indirect"
  BY <1>1, <1>2
<1> QED
  BY <1>5, <1>6, IndirectSets DEF o

LEMMA IndirectParsedFacts ==
  ASSUME NEW t \in Indirect!Text, Indirect!Parses(t)
  PROVE  LET o == Indirect!Parsed(t)
             n == Len(t.subs)
         IN /\ o \in Indirect!Operation /\ o.kind = "indirect"
            /\ o.args = Len(t.vars) /\ o.base = t.base /\ o.memrefs = Indirect!Memrefs(t)
            /\ o.set = t.set /\ o.order = t.order /\ o.rank = t.rank
            /\ n \in Nat /\ Len(o.kinds) = n /\ DOMAIN o.kinds = 1 .. n
            /\ \A i \in 1 .. n : o.kinds[i] <=> t.subs[i].memref # <<>>
            /\ Len(o.maps) = n /\ DOMAIN o.maps = 1 .. n
            /\ \A i \in 1 .. n : o.maps[i] =
                 Indirect!Canonical(Reads(t)[i], Names(t) \o IdsOf(t.vars))
            /\ Len(o.captured) = Len(Names(t)) /\ DOMAIN o.captured = 1 .. Len(Names(t))
            /\ \A k \in 1 .. Len(Names(t)) :
                 o.captured[k] \in Values /\ NameOf[o.captured[k]] = Captured(t)[k]
            /\ Len(o.symbols) = Len(t.symbols) /\ DOMAIN o.symbols = 1 .. Len(t.symbols)
            /\ \A k \in 1 .. Len(t.symbols) :
                 o.symbols[k] \in Values /\ NameOf[o.symbols[k]] = t.symbols[k]
<1> DEFINE o == Indirect!Parsed(t)
           n == Len(t.subs)
           kinds == [i \in DOMAIN t.subs |-> t.subs[i].memref # <<>>]
           canonical(i) == Indirect!Canonical(Reads(t)[i], Names(t) \o IdsOf(t.vars))
           maps == [i \in DOMAIN Reads(t) |-> canonical(i)]
           captured == [k \in DOMAIN Captured(t) |-> Resolve(Captured(t)[k])]
           syms == [k \in DOMAIN t.symbols |-> Resolve(t.symbols[k])]
<1>1. /\ t.base \in Views /\ t.symbols \in Seq(Token) /\ t.set \in AtMostOne(IntegerSet)
      /\ t.order \in AtMostOne(Order) /\ t.rank \in Nat /\ Len(t.vars) <= Len(ArgumentNames)
  BY IndirectSets
<1>2. /\ n \in Nat /\ DOMAIN t.subs = 1 .. n /\ DOMAIN Reads(t) = 1 .. n /\ Len(t.vars) \in Nat
  BY ReadsTyped
<1>3. /\ \A k \in DOMAIN Captured(t) : Resolvable(Captured(t)[k])
      /\ \A k \in DOMAIN t.symbols : Resolvable(t.symbols[k])
  BY IndirectUnfolds, Zenon
<1>4. o = [kind |-> "indirect", args |-> Len(t.vars), base |-> t.base, kinds |-> kinds,
           maps |-> maps, memrefs |-> Indirect!Memrefs(t), captured |-> captured,
           symbols |-> syms, set |-> t.set, order |-> t.order, rank |-> t.rank]
  BY IndirectUnfolds
<1>5. Captured(t) \in Seq(Token) /\ Len(Captured(t)) = Len(Names(t)) /\ Len(Names(t)) \in Nat
  BY CapturedFacts
<1>6. /\ captured \in Seq(Values) /\ Len(captured) = Len(Names(t))
      /\ DOMAIN captured = 1 .. Len(Names(t))
      /\ \A k \in 1 .. Len(Names(t)) : NameOf[captured[k]] = Captured(t)[k]
  BY <1>3, <1>5, ResolvedTyped
<1>7. /\ syms \in Seq(Values) /\ Len(syms) = Len(t.symbols) /\ DOMAIN syms = 1 .. Len(t.symbols)
      /\ \A k \in 1 .. Len(t.symbols) : NameOf[syms[k]] = t.symbols[k]
  BY <1>1, <1>3, ResolvedTyped
<1>8. /\ kinds \in [1 .. n -> BOOLEAN]
      /\ \A i \in 1 .. n : kinds[i] <=> t.subs[i].memref # <<>>
  BY <1>2
<1>9. \A i \in 1 .. n : canonical(i) \in AffineMap
  BY CanonicalFacts
<1> HIDE DEF canonical, kinds, captured, syms
<1>10. maps \in [1 .. n -> AffineMap] /\ \A i \in 1 .. n : maps[i] = canonical(i)
  BY <1>2, <1>9
<1> HIDE DEF maps
<1>11. kinds \in Seq(BOOLEAN) /\ Len(kinds) = n /\ DOMAIN kinds = 1 .. n
  BY <1>2, <1>8, FunctionIsSeq
<1>12. maps \in Seq(AffineMap) /\ Len(maps) = n /\ DOMAIN maps = 1 .. n
  BY <1>2, <1>10, FunctionIsSeq
<1>13. Indirect!Memrefs(t) \in Seq(Views)
  BY MemrefFacts
<1> HIDE DEF o, n
<1>14. o \in [kind : {"indirect"}, args : Nat, base : Views, kinds : Seq(BOOLEAN),
              maps : Seq(AffineMap), memrefs : Seq(Views), captured : Seq(Values),
              symbols : Seq(Values), set : AtMostOne(IntegerSet), order : AtMostOne(Order),
              rank : Nat]
  BY <1>1, <1>2, <1>4, <1>6, <1>7, <1>11, <1>12, <1>13
<1>15. o \in Indirect!Operation
  BY <1>1, <1>4, <1>14, IndirectSets
<1>16. /\ \A k \in 1 .. Len(Names(t)) : captured[k] \in Values
       /\ \A k \in 1 .. Len(t.symbols) : syms[k] \in Values
  BY <1>6, <1>7, ElementOfSeq
<1>17. /\ o.kind = "indirect" /\ o.args = Len(t.vars) /\ o.base = t.base /\ o.kinds = kinds
       /\ o.maps = maps /\ o.memrefs = Indirect!Memrefs(t) /\ o.captured = captured
       /\ o.symbols = syms /\ o.set = t.set /\ o.order = t.order /\ o.rank = t.rank
  BY <1>4
<1> HIDE DEF canonical
<1>18. \A i \in 1 .. n : o.maps[i] = canonical(i)
  BY <1>10, <1>17
<1>19. \A i \in 1 .. n : o.kinds[i] <=> t.subs[i].memref # <<>>
  BY <1>8, <1>17, Zenon
<1> QED
  BY <1>2, <1>6, <1>7, <1>11, <1>12, <1>15, <1>16, <1>17, <1>18, <1>19, Zenon DEF o, n, canonical

\* The memref of a subscript of a parsed operation is the one its text has there.
LEMMA ParsedMemrefs ==
  ASSUME NEW t \in Indirect!Text, Indirect!Parses(t)
  PROVE  LET o == Indirect!Parsed(t)
         IN /\ Indirect!Cardinality(Indirect!Indirects(o.kinds)) = Len(o.memrefs)
            /\ \A i \in 1 .. Len(t.subs) : o.kinds[i] =>
                 /\ Indirect!MemrefIndex(o, i) \in 1 .. Len(o.memrefs)
                 /\ Indirect!MemrefIndex(o, i) \in DOMAIN o.memrefs
                 /\ o.memrefs[Indirect!MemrefIndex(o, i)] = t.subs[i].memref[1]
<1> DEFINE o == Indirect!Parsed(t)
<1>1. /\ DOMAIN o.kinds = 1 .. Len(t.subs) /\ o.memrefs = Indirect!Memrefs(t)
      /\ \A i \in 1 .. Len(t.subs) : o.kinds[i] <=> t.subs[i].memref # <<>>
  BY IndirectParsedFacts
<1> HIDE DEF o
<1>2. Indirect!Indirects(o.kinds) = Subscripted(t)
  BY <1>1 DEF Indirect!Indirects, Subscripted
<1>3. \A S : Indirect!Cardinality(S) = Cardinality(S)
  BY DEF Indirect!Cardinality, Cardinality
<1>4. /\ o.memrefs \in Seq(Views) /\ Len(o.memrefs) = Cardinality(Subscripted(t))
      /\ \A i \in Subscripted(t) :
           /\ Cardinality({j \in Subscripted(t) : j <= i}) \in 1 .. Len(o.memrefs)
           /\ o.memrefs[Cardinality({j \in Subscripted(t) : j <= i})] = t.subs[i].memref[1]
  BY <1>1, MemrefFacts
<1>5. DOMAIN o.memrefs = 1 .. Len(o.memrefs)
  BY <1>4, LenProperties
<1>6. \A i : Indirect!MemrefIndex(o, i) = Cardinality({j \in Subscripted(t) : j <= i})
  BY <1>2, <1>3, Zenon DEF Indirect!MemrefIndex
<1>7. ASSUME NEW i \in 1 .. Len(t.subs), o.kinds[i]
      PROVE  /\ Indirect!MemrefIndex(o, i) \in 1 .. Len(o.memrefs)
             /\ Indirect!MemrefIndex(o, i) \in DOMAIN o.memrefs
             /\ o.memrefs[Indirect!MemrefIndex(o, i)] = t.subs[i].memref[1]
  <2>1. i \in Subscripted(t)
    BY <1>1, <1>7 DEF Subscripted
  <2> QED
    BY <2>1, <1>4, <1>5, <1>6
<1>8. Indirect!Cardinality(Indirect!Indirects(o.kinds)) = Len(o.memrefs)
  BY <1>2, <1>3, <1>4
<1> QED
  BY <1>7, <1>8 DEF o

\* What the verifier and the bounds of the printer say of an indirect operation.
LEMMA VerifiedFacts ==
  ASSUME NEW o \in Indirect!Operation, Indirect!Verified(o)
  PROVE  LET n == Len(o.kinds)
         IN /\ n \in Nat /\ DOMAIN o.kinds = 1 .. n /\ \A i \in 1 .. n : o.kinds[i] \in BOOLEAN
            /\ Len(o.maps) = n /\ DOMAIN o.maps = 1 .. n
            /\ \A i \in 1 .. n : o.maps[i] \in AffineMap
                 /\ o.maps[i].dims = Len(o.captured) + o.args /\ o.maps[i].syms \in Nat
                 /\ NumInputs(o.maps[i]) = o.maps[i].dims + o.maps[i].syms
                 /\ Indirect!NumInputs(o.maps[i]) = NumInputs(o.maps[i])
            /\ DOMAIN o.memrefs = 1 .. Len(o.memrefs) /\ Len(o.memrefs) \in Nat
            /\ \A m \in 1 .. Len(o.memrefs) : o.memrefs[m] \in Views
            /\ Cardinality(Indirect!Indirects(o.kinds)) = Len(o.memrefs)
            /\ \A i \in 1 .. n : o.kinds[i] => Indirect!MemrefIndex(o, i) \in 1 .. Len(o.memrefs)
<1> DEFINE n == Len(o.kinds)
<1>1. o.kinds \in Seq(BOOLEAN) /\ o.maps \in Seq(AffineMap) /\ o.memrefs \in Seq(Views)
  BY IndirectSets
<1>2. n \in Nat /\ DOMAIN o.kinds = 1 .. n /\ \A i \in 1 .. n : o.kinds[i] \in BOOLEAN
  BY <1>1, LenProperties, ElementOfSeq
<1>3. /\ Len(o.kinds) = Len(o.maps)
      /\ Indirect!Cardinality(Indirect!Indirects(o.kinds)) = Len(o.memrefs)
      /\ \A i \in DOMAIN o.maps : /\ o.maps[i].dims = Len(o.captured) + o.args
                                  /\ o.kinds[i] => Indirect!MemrefIndex(o, i) \in DOMAIN o.memrefs
  BY DEF Indirect!Verified, Indirect!MemrefsMatch, Indirect!DomainUnified
<1>4. DOMAIN o.maps = 1 .. n /\ \A i \in 1 .. n : o.maps[i] \in AffineMap
  BY <1>1, <1>3, LenProperties, ElementOfSeq
<1>5. DOMAIN o.memrefs = 1 .. Len(o.memrefs) /\ Len(o.memrefs) \in Nat
      /\ \A m \in 1 .. Len(o.memrefs) : o.memrefs[m] \in Views
  BY <1>1, LenProperties, ElementOfSeq
<1>6. Cardinality(Indirect!Indirects(o.kinds)) = Len(o.memrefs)
  BY <1>3 DEF Indirect!Cardinality, Cardinality
<1>7. \A i \in 1 .. n : /\ o.maps[i].syms \in Nat
                        /\ NumInputs(o.maps[i]) = o.maps[i].dims + o.maps[i].syms
                        /\ Indirect!NumInputs(o.maps[i]) = NumInputs(o.maps[i])
  BY <1>4 DEF AffineMap, NumInputs, Indirect!NumInputs
<1> QED
  BY <1>2, <1>3, <1>4, <1>5, <1>6, <1>7

\* The text of an operation that the verifier accepts and the printer gets through: the
\* maps have no symbols, and each subscript names the variables that its map reads.
LEMMA IndirectPrintedFacts ==
  ASSUME NEW o \in Indirect!Operation, Indirect!Verified(o), Indirect!PrintInBounds(o)
  PROVE  LET t == Indirect!Printed(o)
             all == Indirect!AllVariables(o)
             n == Len(o.kinds)
         IN /\ t \in Indirect!Text /\ t.kind = "indirect" /\ t.base = o.base
            /\ t.vars = SubSeq(ArgumentNames, 1, o.args)
            /\ t.set = o.set /\ t.order = o.order /\ t.rank = o.rank
            /\ t.symbols = [k \in DOMAIN o.symbols |-> NameOf[o.symbols[k]]]
            /\ t.types = <<RankOf[o.base]>>
                 \o [m \in 1 .. Len(o.memrefs) |-> RankOf[o.memrefs[m]]]
            /\ n \in Nat /\ Len(t.subs) = n
            /\ \A i \in 1 .. n :
                 /\ o.maps[i].syms = 0 /\ t.subs[i].terms = PrintedMap(o.maps[i], all)
                 /\ t.subs[i].memref = IF o.kinds[i]
                                       THEN <<o.memrefs[Indirect!MemrefIndex(o, i)]>> ELSE <<>>
                 /\ Len(t.subs[i].terms) = Len(o.maps[i].results)
                 /\ \A r \in 1 .. Len(o.maps[i].results) :
                      /\ Len(t.subs[i].terms[r]) = Len(o.maps[i].results[r])
                      /\ \A k \in 1 .. Len(o.maps[i].results[r]) :
                           /\ o.maps[i].results[r][k] \in 1 .. Len(all)
                           /\ t.subs[i].terms[r][k].tok = all[o.maps[i].results[r][k]]
                           /\ ~t.subs[i].terms[r][k].sym
<1> DEFINE t == Indirect!Printed(o)
           all == Indirect!AllVariables(o)
           n == Len(o.kinds)
           syms == [k \in DOMAIN o.symbols |-> NameOf[o.symbols[k]]]
           memref(i) == IF o.kinds[i] THEN <<o.memrefs[Indirect!MemrefIndex(o, i)]>> ELSE <<>>
           sub(i) == [memref |-> memref(i), terms |-> PrintedMap(o.maps[i], all)]
           subs == [i \in DOMAIN o.kinds |-> sub(i)]
           ranks == [m \in 1 .. Cardinality(Indirect!Indirects(o.kinds)) |-> RankOf[o.memrefs[m]]]
           types == <<RankOf[o.base]>> \o ranks
<1>1. /\ o.base \in Views /\ o.symbols \in Seq(Values) /\ o.set \in AtMostOne(IntegerSet)
      /\ o.order \in AtMostOne(Order) /\ o.rank \in Nat /\ o.args \in Nat
      /\ o.args <= Len(ArgumentNames)
  BY IndirectSets
<1>2. /\ n \in Nat /\ DOMAIN o.kinds = 1 .. n /\ \A i \in 1 .. n : o.kinds[i] \in BOOLEAN
      /\ \A i \in 1 .. n : o.maps[i] \in AffineMap
           /\ o.maps[i].dims = Len(o.captured) + o.args /\ o.maps[i].syms \in Nat
           /\ NumInputs(o.maps[i]) = o.maps[i].dims + o.maps[i].syms
           /\ Indirect!NumInputs(o.maps[i]) = NumInputs(o.maps[i])
      /\ Len(o.memrefs) \in Nat /\ \A m \in 1 .. Len(o.memrefs) : o.memrefs[m] \in Views
      /\ Cardinality(Indirect!Indirects(o.kinds)) = Len(o.memrefs)
      /\ \A i \in 1 .. n : o.kinds[i] => Indirect!MemrefIndex(o, i) \in 1 .. Len(o.memrefs)
  BY VerifiedFacts
<1>3. /\ all \in Seq(Token) /\ Len(all) = Len(o.captured) + o.args /\ Len(o.captured) \in Nat
      /\ SubSeq(ArgumentNames, 1, o.args) \in Seq(Token)
      /\ Len(SubSeq(ArgumentNames, 1, o.args)) = o.args
  BY VariableFacts
<1>4. \A i \in 1 .. n : NumInputs(o.maps[i]) <= Len(all) /\ o.maps[i].syms = 0
  <2> TAKE i \in 1 .. n
  <2>1. NumInputs(o.maps[i]) <= Len(all)
    BY <1>2 DEF Indirect!PrintInBounds
  <2>2. /\ o.maps[i].dims = Len(o.captured) + o.args /\ o.maps[i].syms \in Nat
        /\ NumInputs(o.maps[i]) = o.maps[i].dims + o.maps[i].syms
    BY <1>2, Zenon
  <2> HIDE DEF all
  <2> QED
    BY <2>1, <2>2, <1>1, <1>3, SMTT(30)
<1>5. ASSUME NEW i \in 1 .. n
      PROVE  LET terms == PrintedMap(o.maps[i], all)
             IN /\ terms \in AffineTerms /\ Len(terms) = Len(o.maps[i].results)
                /\ \A r \in 1 .. Len(o.maps[i].results) :
                     /\ Len(terms[r]) = Len(o.maps[i].results[r])
                     /\ \A k \in 1 .. Len(o.maps[i].results[r]) :
                          /\ o.maps[i].results[r][k] \in 1 .. Len(all)
                          /\ terms[r][k].tok = all[o.maps[i].results[r][k]]
                          /\ ~terms[r][k].sym
  <2> DEFINE map == o.maps[i]
             terms == PrintedMap(map, all)
  <2>1. map \in AffineMap /\ NumInputs(map) <= Len(all) /\ map.syms = 0 /\ NumInputs(map) = map.dims
        /\ map.dims \in Nat
    BY <1>2, <1>4, <1>1, <1>3
  <2>5. all \in Seq(Token)
    BY <1>3
  <2> HIDE DEF map, all
  <2>2. /\ terms \in AffineTerms /\ Len(terms) = Len(map.results)
        /\ \A r \in 1 .. Len(map.results) :
             /\ Len(terms[r]) = Len(map.results[r])
             /\ \A k \in 1 .. Len(map.results[r]) :
                  /\ map.results[r][k] \in 1 .. NumInputs(map)
                  /\ map.results[r][k] \in 1 .. Len(all)
                  /\ terms[r][k].tok = all[map.results[r][k]]
                  /\ terms[r][k].sym <=> map.results[r][k] > map.dims
    BY <2>1, <2>5, PrintedMapFacts, Zenon
  <2> HIDE DEF terms
  <2>3. \A r \in 1 .. Len(map.results) : \A k \in 1 .. Len(map.results[r]) :
          ~(map.results[r][k] > map.dims)
    <3> TAKE r \in 1 .. Len(map.results)
    <3> TAKE k \in 1 .. Len(map.results[r])
    <3>1. map.results[r][k] \in 1 .. map.dims
      BY <2>1, <2>2
    <3> QED
      BY <2>1, <3>1
  <2>4. \A r \in 1 .. Len(map.results) : \A k \in 1 .. Len(map.results[r]) : ~terms[r][k].sym
    BY <2>2, <2>3, ZenonT(30)
  <2> QED
    BY <2>2, <2>4, Zenon DEF terms, map, all
<1>6. \A i \in 1 .. n : memref(i) \in AtMostOne(Views)
  <2> TAKE i \in 1 .. n
  <2>1. CASE o.kinds[i]
    <3>1. o.memrefs[Indirect!MemrefIndex(o, i)] \in Views
      BY <2>1, <1>2
    <3> QED
      BY <2>1, <3>1, OptionalFacts
  <2>2. CASE ~o.kinds[i]
    BY <2>2, OptionalFacts
  <2> QED
    BY <2>1, <2>2
<1> HIDE DEF memref
<1>7. \A i \in 1 .. n : sub(i) \in SubscriptText
  BY <1>5, <1>6 DEF SubscriptText
<1>8. subs \in [1 .. n -> SubscriptText] /\ \A i \in 1 .. n : subs[i] = sub(i)
  BY <1>2, <1>7
<1> HIDE DEF subs, sub
<1>9. subs \in Seq(SubscriptText) /\ Len(subs) = n
  BY <1>2, <1>8, FunctionIsSeq
<1>10. \A v \in Views : RankOf[v] \in Range(RankOf)
  BY ViewsAssumption DEF Range
<1>11. ranks = [m \in 1 .. Len(o.memrefs) |-> RankOf[o.memrefs[m]]]
  BY <1>2
<1>12. types \in Seq(Range(RankOf))
  <2>1. ranks \in [1 .. Len(o.memrefs) -> Range(RankOf)]
    BY <1>2, <1>10, <1>11
  <2> HIDE DEF ranks
  <2>2. ranks \in Seq(Range(RankOf))
    BY <2>1, <1>2, FunctionIsSeq
  <2>3. <<RankOf[o.base]>> \in Seq(Range(RankOf))
    BY <1>1, <1>10
  <2> QED
    BY <2>2, <2>3, ConcatProperties
<1>13. syms \in Seq(Token)
  BY <1>1, NamesTyped
<1>14. t = [kind |-> "indirect", vars |-> SubSeq(ArgumentNames, 1, o.args), base |-> o.base,
            subs |-> subs, symbols |-> syms, set |-> o.set, order |-> o.order,
            types |-> types, rank |-> o.rank]
  BY IndirectUnfolds DEF subs, sub, memref
<1>15. types = <<RankOf[o.base]>> \o [m \in 1 .. Len(o.memrefs) |-> RankOf[o.memrefs[m]]]
  BY <1>11
<1> HIDE DEF t, n, types, syms, ranks
<1>16. /\ t.kind = "indirect" /\ t.base = o.base /\ t.vars = SubSeq(ArgumentNames, 1, o.args)
       /\ t.set = o.set /\ t.order = o.order /\ t.rank = o.rank /\ t.symbols = syms
       /\ t.types = types /\ t.subs = subs
  BY <1>14
<1>17. t \in [kind : {"indirect"}, vars : Seq(Token), base : Views, subs : Seq(SubscriptText),
              symbols : Seq(Token), set : AtMostOne(IntegerSet), order : AtMostOne(Order),
              types : Seq(Range(RankOf)), rank : Nat]
  BY <1>1, <1>3, <1>9, <1>12, <1>13, <1>14
<1>18. t \in Indirect!Text
  BY <1>1, <1>3, <1>16, <1>17, IndirectSets
<1>19. ASSUME NEW i \in 1 .. n
       PROVE  t.subs[i].terms = PrintedMap(o.maps[i], all) /\ t.subs[i].memref = memref(i)
  BY <1>8, <1>16 DEF sub
<1> HIDE DEF all
<1>20. ASSUME NEW i \in 1 .. n
       PROVE  /\ Len(t.subs[i].terms) = Len(o.maps[i].results)
              /\ \A r \in 1 .. Len(o.maps[i].results) :
                   /\ Len(t.subs[i].terms[r]) = Len(o.maps[i].results[r])
                   /\ \A k \in 1 .. Len(o.maps[i].results[r]) :
                        /\ o.maps[i].results[r][k] \in 1 .. Len(all)
                        /\ t.subs[i].terms[r][k].tok = all[o.maps[i].results[r][k]]
                        /\ ~t.subs[i].terms[r][k].sym
  BY <1>5, <1>19, Zenon
<1> QED
  BY <1>2, <1>4, <1>9, <1>15, <1>16, <1>18, <1>19, <1>20, Zenon DEF t, n, all, memref, syms

----------------------------------------------------------------------------
(* The inductive invariant. *)

HasOperation == stage \in {"built", "rejected", "verified", "crashed"}

\* Where the operation and the text come from.
History ==
  /\ stage = "start" => text = <<>> /\ printed = <<>>
  /\ HasOperation /\ text # <<>> => Parses(text[1]) /\ op = Parsed(text[1])
  /\ stage \in {"verified", "crashed"} => Verified(op)
  /\ stage = "rejected" => ~Verified(op)
  /\ stage = "crashed" => ~PrintInBounds(op)
  /\ stage = "error" => text # <<>> /\ ~Parses(text[1])
  /\ text # <<>> /\ printed = <<>> => text[1] \in Programs
  /\ printed # <<>> => /\ Verified(printed[1]) /\ PrintInBounds(printed[1])
                       /\ text = <<Printed(printed[1])>>

LEMMA Kinds ==
  /\ \A o \in Operations : \/ o.kind = "access" /\ o.kind # "indirect" /\ o \in Access!Operation
                           \/ o.kind = "indirect" /\ o.kind # "access" /\ o \in Indirect!Operation
  /\ \A t \in Texts : \/ t.kind = "access" /\ t.kind # "indirect" /\ t \in Access!Text
                      \/ t.kind = "indirect" /\ t.kind # "access" /\ t \in Indirect!Text
  /\ Access!Operation \subseteq Operations /\ Indirect!Operation \subseteq Operations
  /\ Access!Text \subseteq Texts /\ Indirect!Text \subseteq Texts
<1>1. \A o \in Access!Operation : o.kind = "access"
  BY AccessSets
<1>2. \A o \in Indirect!Operation : o.kind = "indirect"
  BY IndirectSets
<1>3. \A t \in Access!Text : t.kind = "access"
  BY AccessSets
<1>4. \A t \in Indirect!Text : t.kind = "indirect"
  BY IndirectSets
<1>5. "access" # "indirect"
  OBVIOUS
<1> QED
  BY <1>1, <1>2, <1>3, <1>4, <1>5, Zenon DEF Operations, Texts

LEMMA ParsedTyped ==
  ASSUME NEW t \in Texts, Parses(t)
  PROVE  Parsed(t) \in Operations /\ Parsed(t).kind = t.kind
<1>1. CASE t.kind = "access" /\ t \in Access!Text
  <2>1. Access!Parses(t) /\ Parsed(t) = Access!Parsed(t)
    BY <1>1 DEF Parses, Parsed
  <2> QED
    BY <2>1, <1>1, AccessParsedTyped, Kinds
<1>2. CASE t.kind = "indirect" /\ t.kind # "access" /\ t \in Indirect!Text
  <2>1. Indirect!Parses(t) /\ Parsed(t) = Indirect!Parsed(t)
    BY <1>2 DEF Parses, Parsed
  <2> QED
    BY <2>1, <1>2, IndirectParsedFacts, Kinds
<1> QED
  BY <1>1, <1>2, Kinds

LEMMA PrintedTyped ==
  ASSUME NEW o \in Operations, Verified(o), PrintInBounds(o)
  PROVE  Printed(o) \in Texts
<1>1. CASE o.kind = "access" /\ o \in Access!Operation
  <2>1. Access!Verified(o) /\ Printed(o) = Access!Printed(o)
    BY <1>1 DEF Verified, Printed
  <2> QED
    BY <2>1, <1>1, AccessPrintedTyped, Kinds
<1>2. CASE o.kind = "indirect" /\ o.kind # "access" /\ o \in Indirect!Operation
  <2>1. Indirect!Verified(o) /\ Printed(o) = Indirect!Printed(o) /\ Indirect!PrintInBounds(o)
    BY <1>2 DEF Verified, Printed, PrintInBounds
  <2> QED
    BY <2>1, <1>2, IndirectPrintedFacts, Kinds
<1> QED
  BY <1>1, <1>2, Kinds

\* History is not kept by one action alone: what a text parses to is known because nothing
\* but Parse sets an operation once there is a text.
LEMMA Invariant == Spec => [](TypeOK /\ History)
<1>0. \A x : <<x>>[1] = x /\ <<x>> # <<>>
  OBVIOUS
<1>1. Init => TypeOK /\ History
  <2> SUFFICES ASSUME Init PROVE TypeOK /\ History
    OBVIOUS
  <2>1. stage = "start" /\ text = <<>> /\ printed = <<>>
    BY DEF Init
  <2>2. <<>> \in AtMostOne(Texts) /\ <<>> \in AtMostOne(Operations)
    BY OptionalFacts
  <2> QED
    BY <2>1, <2>2 DEF TypeOK, History, HasOperation
<1>2. TypeOK /\ History /\ [Next]_vars => TypeOK' /\ History'
  <2> SUFFICES ASSUME TypeOK, History, [Next]_vars PROVE TypeOK' /\ History'
    OBVIOUS
  <2>1. CASE BuildAccess
    <3>1. stage = "start" /\ text = <<>> /\ printed = <<>> /\ text' = text /\ printed' = printed
      BY <2>1 DEF BuildAccess, History
    <3>2. PICK args \in AccessArguments :
            \/ stage' = "built" /\ op' = Access!Built(args)
            \/ stage' = "aborted" /\ op' = op
      BY <2>1 DEF BuildAccess
    <3>3. Access!Built(args) \in Operations
      BY InputsAssumption, AccessBuiltTyped, Kinds
    <3> QED
      BY <3>1, <3>2, <3>3 DEF TypeOK, History, HasOperation
  <2>2. CASE BuildIndirect
    <3>1. stage = "start" /\ text = <<>> /\ printed = <<>> /\ text' = text /\ printed' = printed
      BY <2>2 DEF BuildIndirect, History
    <3>2. PICK args \in IndirectArguments :
            \/ stage' = "built" /\ op' = Indirect!Built(args)
            \/ stage' = "aborted" /\ op' = op
      BY <2>2 DEF BuildIndirect
    <3>3. Indirect!Built(args) \in Operations
      BY InputsAssumption, IndirectBuiltTyped, Kinds
    <3> QED
      BY <3>1, <3>2, <3>3 DEF TypeOK, History, HasOperation
  <2>3. CASE Write
    <3>1. PICK t \in Programs : text' = <<t>>
      BY <2>3 DEF Write
    <3>2. /\ stage' = "text" /\ printed = <<>> /\ printed' = printed
          /\ text' \in AtMostOne(Texts) /\ text' # <<>> /\ text'[1] \in Programs
      BY <2>3, <3>1, <1>0, InputsAssumption, OptionalFacts DEF Write, History
    <3> QED
      BY <3>2 DEF TypeOK, History, HasOperation
  <2>4. CASE Parse
    <3>1. stage = "text" /\ text # <<>> /\ text' = text /\ printed' = printed /\ text[1] \in Texts
      BY <2>4, OptionalFacts DEF Parse, TypeOK
    <3>2. CASE Parses(text[1])
      <4>1. stage' = "built" /\ op' = Parsed(text[1]) /\ op' \in Operations
        BY <2>4, <3>1, <3>2, ParsedTyped DEF Parse
      <4> QED
        BY <3>1, <3>2, <4>1 DEF TypeOK, History, HasOperation
    <3>3. CASE ~Parses(text[1])
      <4>1. stage' = "error" /\ op' = op
        BY <2>4, <3>3 DEF Parse
      <4> QED
        BY <3>1, <3>3, <4>1 DEF TypeOK, History, HasOperation
    <3> QED
      BY <3>2, <3>3
  <2>5. CASE Verify
    <3>1. stage = "built" /\ op' = op /\ text' = text /\ printed' = printed
      BY <2>5 DEF Verify
    <3>2. \/ Verified(op) /\ stage' = "verified"
          \/ ~Verified(op) /\ stage' = "rejected"
      BY <2>5, Zenon DEF Verify
    <3> QED
      BY <3>1, <3>2 DEF TypeOK, History, HasOperation
  <2>6. CASE PrintOut
    <3>1. stage = "verified" /\ op' = op /\ Verified(op) /\ op \in Operations
      BY <2>6 DEF PrintOut, TypeOK, History
    <3>2. CASE PrintInBounds(op)
      <4>1. stage' = "text" /\ text' = <<Printed(op)>> /\ printed' = <<op>>
        BY <2>6, <3>2 DEF PrintOut
      <4>2. /\ text' \in AtMostOne(Texts) /\ printed' \in AtMostOne(Operations)
            /\ text' # <<>> /\ printed'[1] = op /\ printed' # <<>>
        BY <3>1, <3>2, <4>1, <1>0, PrintedTyped, OptionalFacts
      <4> QED
        BY <3>1, <3>2, <4>1, <4>2 DEF TypeOK, History, HasOperation
    <3>3. CASE ~PrintInBounds(op)
      <4>1. stage' = "crashed" /\ text' = text /\ printed' = printed
        BY <2>6, <3>3 DEF PrintOut
      <4> QED
        BY <3>1, <3>3, <4>1 DEF TypeOK, History, HasOperation
    <3> QED
      BY <3>2, <3>3
  <2>7. CASE UNCHANGED vars
    BY <2>7 DEF vars, TypeOK, History, HasOperation
  <2> QED
    BY <2>1, <2>2, <2>3, <2>4, <2>5, <2>6, <2>7 DEF Next
<1> QED
  BY <1>1, <1>2, PTL DEF Spec

\* What the tools hand on is well formed: an operation that is built or parsed, and a text
\* that is printed, has the parts that verify, print and parse take for granted.
THEOREM TypeCorrect == Spec => []TypeOK
BY Invariant, PTL

----------------------------------------------------------------------------
(* The printer's bounds, and what the verifier finds wrong with a parsed operation. *)

\* After verify only a subscript map with symbols can take the printer out of bounds.
THEOREM PrinterInBounds == Spec => []PrintStaysInBounds
<1>1. TypeOK /\ History => PrintStaysInBounds
  <2> SUFFICES ASSUME TypeOK, History, stage = "crashed"
               PROVE  \E i \in DOMAIN op.maps : op.maps[i].syms > 0
    BY DEF PrintStaysInBounds
  <2>1. op \in Operations /\ Verified(op) /\ ~PrintInBounds(op)
    BY DEF TypeOK, History
  <2>2. op.kind = "indirect" /\ op.kind # "access" /\ op \in Indirect!Operation
    BY <2>1, Kinds DEF PrintInBounds
  <2>3. Indirect!Verified(op) /\ ~Indirect!PrintInBounds(op)
    BY <2>1, <2>2 DEF Verified, PrintInBounds
  <2> DEFINE n == Len(op.kinds)
             all == Indirect!AllVariables(op)
  <2>4. /\ n \in Nat /\ DOMAIN op.kinds = 1 .. n /\ DOMAIN op.maps = 1 .. n
        /\ \A i \in 1 .. n : /\ op.maps[i].dims = Len(op.captured) + op.args
                             /\ op.maps[i].syms \in Nat
                             /\ NumInputs(op.maps[i]) = op.maps[i].dims + op.maps[i].syms
                             /\ Indirect!NumInputs(op.maps[i]) = NumInputs(op.maps[i])
        /\ DOMAIN op.memrefs = 1 .. Len(op.memrefs)
        /\ \A i \in 1 .. n : op.kinds[i] => Indirect!MemrefIndex(op, i) \in 1 .. Len(op.memrefs)
    BY <2>2, <2>3, VerifiedFacts
  <2>5. Len(all) = Len(op.captured) + op.args /\ Len(op.captured) \in Nat /\ op.args \in Nat
    BY <2>2, VariableFacts
  <2> HIDE DEF all
  <2>6. PICK i \in 1 .. n : ~(Indirect!NumInputs(op.maps[i]) <= Len(all))
    BY <2>3, <2>4, Zenon DEF Indirect!PrintInBounds, all
  <2>7. /\ op.maps[i].dims = Len(op.captured) + op.args /\ op.maps[i].syms \in Nat
        /\ Indirect!NumInputs(op.maps[i]) = op.maps[i].dims + op.maps[i].syms
    BY <2>4, Zenon
  <2>8. op.maps[i].syms > 0
    BY <2>5, <2>6, <2>7
  <2> QED
    BY <2>4, <2>8
<1> QED
  BY <1>1, Invariant, PTL

LEMMA AccessRejected ==
  ASSUME NEW t \in Access!Text, Access!Parses(t), ~Access!Verified(Access!Parsed(t))
  PROVE  Access!Parsed(t).rank # Access!Parsed(t).set.dims
<1> DEFINE o == Access!Parsed(t)
<1>1. /\ NumInputs(o.map) = Len(o.indices) /\ Len(o.symbols) = Len(t.symbols)
      /\ Len(o.map.results) = Len(t.terms)
  BY AccessParsedTyped
<1>2. o.set = t.set[1] /\ o.order = t.order[1]
  BY DEF Access!Parsed
<1>3. /\ t.set[1].dims = Len(t.terms) /\ t.set[1].syms = Len(t.symbols)
      /\ t.order[1].ins = t.order[1].outs /\ t.order[1].outs = t.set[1].dims
  BY DEF Access!Parses, Access!SetMatchesMap
<1>4. Access!NumInputs(o.map) = NumInputs(o.map)
  BY DEF Access!NumInputs, NumInputs
<1>5. ~Access!Verified(o)
  OBVIOUS
<1> HIDE DEF o
<1>6. o.rank # o.set.dims
  BY <1>1, <1>2, <1>3, <1>4, <1>5 DEF Access!Verified
<1> QED
  BY <1>6 DEF o

LEMMA IndirectRejected ==
  ASSUME NEW t \in Indirect!Text, Indirect!Parses(t), ~Indirect!Verified(Indirect!Parsed(t))
  PROVE  LET o == Indirect!Parsed(t)
         IN \/ o.set = <<>> \/ o.order = <<>>
            \/ /\ o.set # <<>> /\ o.order # <<>>
               /\ \/ o.set[1].dims # o.order[1].ins \/ o.order[1].ins # o.order[1].outs
                  \/ o.args # o.set[1].dims
                  \/ o.rank # o.set[1].dims
                  \/ Len(o.kinds) # RankOf[o.base]
                  \/ \E i \in DOMAIN o.kinds : Len(o.maps[i].results) #
                       IF o.kinds[i] THEN Indirect!ResultRank(t.subs[i].memref[1]) ELSE 1
<1> DEFINE o == Indirect!Parsed(t)
           n == Len(t.subs)
<1>1. /\ o \in Indirect!Operation
      /\ o.args = Len(t.vars) /\ o.set = t.set /\ n \in Nat
      /\ Len(o.kinds) = n /\ DOMAIN o.kinds = 1 .. n
      /\ Len(o.maps) = n /\ DOMAIN o.maps = 1 .. n
      /\ Len(o.captured) = Len(Names(t)) /\ Len(o.symbols) = Len(t.symbols)
  BY IndirectParsedFacts
<1>2. \A i \in 1 .. n : o.maps[i] = Indirect!Canonical(Reads(t)[i], Names(t) \o IdsOf(t.vars))
  BY IndirectParsedFacts
<1>3. \A i \in 1 .. n : o.maps[i].dims = Len(o.captured) + o.args
  BY <1>1, <1>2, CanonicalFacts
<1>4. /\ Indirect!Cardinality(Indirect!Indirects(o.kinds)) = Len(o.memrefs)
      /\ \A i \in 1 .. n : o.kinds[i] =>
           /\ Indirect!MemrefIndex(o, i) \in DOMAIN o.memrefs
           /\ o.memrefs[Indirect!MemrefIndex(o, i)] = t.subs[i].memref[1]
  BY ParsedMemrefs
<1>5. \A k \in DOMAIN t.set : t.set[k].syms = Len(t.symbols)
  BY IndirectUnfolds
<1>6. ~Indirect!Verified(o)
  OBVIOUS
<1>7. o.set \in AtMostOne(IntegerSet) /\ o.order \in AtMostOne(Order)
  BY <1>1, IndirectSets
<1> HIDE DEF o, n
<1> SUFFICES ASSUME o.set # <<>>, o.order # <<>>, o.set[1].dims = o.order[1].ins,
                    o.order[1].ins = o.order[1].outs, o.args = o.set[1].dims,
                    o.rank = o.set[1].dims, Len(o.kinds) = RankOf[o.base],
                    \A i \in DOMAIN o.kinds : Len(o.maps[i].results) =
                       IF o.kinds[i] THEN Indirect!ResultRank(t.subs[i].memref[1]) ELSE 1
             PROVE  FALSE
  BY Zenon DEF o
<1>8. Len(o.set) = 1 /\ Len(o.order) = 1
  BY <1>7, OptionalFacts
<1>9. o.set[1].syms = Len(o.symbols)
  <2>1. 1 \in DOMAIN t.set
    BY <1>1, <1>7, <1>8, OptionalFacts
  <2> QED
    BY <2>1, <1>1, <1>5
<1>10. \A i \in 1 .. n : Len(o.maps[i].results) =
         IF o.kinds[i] THEN Indirect!ResultRank(o.memrefs[Indirect!MemrefIndex(o, i)]) ELSE 1
  BY <1>1, <1>4
<1>11. Indirect!Verified(o)
  BY <1>1, <1>3, <1>4, <1>8, <1>9, <1>10, Zenon
     DEF Indirect!Verified, Indirect!MemrefsMatch, Indirect!DomainUnified
<1> QED
  BY <1>6, <1>11

\* The parser derives operand lists, domains, kinds and memrefs that verify accepts: what
\* it rejects is what the text itself says of ranks, sizes and attributes.
THEOREM ParserAgreesWithVerifier == Spec => []ParserBuildsWhatVerifierExpects
<1>1. TypeOK /\ History => ParserBuildsWhatVerifierExpects
  <2> SUFFICES ASSUME TypeOK, History, stage = "rejected", text # <<>>
               PROVE  ParserBuildsWhatVerifierExpects
    BY DEF ParserBuildsWhatVerifierExpects
  <2>1. text[1] \in Texts /\ Parses(text[1]) /\ op = Parsed(text[1]) /\ ~Verified(op)
    BY OptionalFacts DEF TypeOK, History, HasOperation
  <2>2. op \in Operations /\ op.kind = text[1].kind
    BY <2>1, ParsedTyped
  <2>3. CASE op.kind = "access"
    <3>1. text[1] \in Access!Text /\ Access!Parses(text[1]) /\ op = Access!Parsed(text[1])
          /\ ~Access!Verified(op)
      BY <2>1, <2>2, <2>3, Kinds DEF Parses, Parsed, Verified
    <3>2. op.rank # op.set.dims
      BY <3>1, AccessRejected
    <3> QED
      BY <2>3, <3>2 DEF ParserBuildsWhatVerifierExpects
  <2>4. CASE op.kind = "indirect"
    <3>1. text[1] \in Indirect!Text /\ Indirect!Parses(text[1]) /\ op = Indirect!Parsed(text[1])
          /\ ~Indirect!Verified(op)
      BY <2>1, <2>2, <2>4, Kinds DEF Parses, Parsed, Verified
    <3>2. \/ op.set = <<>> \/ op.order = <<>>
          \/ /\ op.set # <<>> /\ op.order # <<>>
             /\ \/ op.set[1].dims # op.order[1].ins \/ op.order[1].ins # op.order[1].outs
                \/ op.args # op.set[1].dims
                \/ op.rank # op.set[1].dims
                \/ Len(op.kinds) # RankOf[op.base]
                \/ \E i \in DOMAIN op.kinds : Len(op.maps[i].results) #
                     IF op.kinds[i] THEN Indirect!ResultRank(text[1].subs[i].memref[1]) ELSE 1
      BY <3>1, IndirectRejected
    <3> QED
      BY <2>4, <3>2, Zenon DEF ParserBuildsWhatVerifierExpects
  <2> QED
    BY <2>2, <2>3, <2>4, Kinds
<1> QED
  BY <1>1, Invariant, PTL

----------------------------------------------------------------------------
(* Programs whose values are each the only result of their operation.  The parser tells  *)
(* operands apart by their spelling without the number (KTDPOps.cpp 673): the operands    *)
(* it collects are then the ones written.  With numbers they are not, which is what the   *)
(* run of MCMultiResult.cfg finds.                                                        *)

\* The text of an indirect tile writes no number after an id.
Plain(t) == t.kind = "indirect" =>
  \A i \in 1 .. Len(t.subs) : \A r \in 1 .. Len(t.subs[i].terms) :
    \A k \in 1 .. Len(t.subs[i].terms[r]) : t.subs[i].terms[r][k].tok.num = 0

\* No value is one of several results; no user writes a number.
SingleResults == \A v \in Values : NameOf[v].num = 0
PlainPrograms == \A t \in Programs : Plain(t)

LEMMA SameToken ==
  ASSUME NEW s \in Token, NEW t \in Token, s.id = t.id, s.num = t.num
  PROVE  s = t
BY DEF Token

\* A printed text writes no number either: neither do the names of the arguments.
LEMMA PrintedPlain ==
  ASSUME SingleResults, NEW o \in Indirect!Operation, Indirect!Verified(o),
         Indirect!PrintInBounds(o)
  PROVE  Plain(Indirect!Printed(o))
<1> DEFINE t == Indirect!Printed(o)
           all == Indirect!AllVariables(o)
<1>1. /\ all \in Seq(Token)
      /\ \A p \in 1 .. Len(o.captured) : o.captured[p] \in Values /\ all[p] = NameOf[o.captured[p]]
      /\ \A j \in 1 .. o.args : /\ j \in 1 .. Len(ArgumentNames)
                                /\ all[Len(o.captured) + j] = ArgumentNames[j]
      /\ \A p \in 1 .. Len(all) :
           \/ p \in 1 .. Len(o.captured)
           \/ p - Len(o.captured) \in 1 .. o.args /\ p = Len(o.captured) + (p - Len(o.captured))
  BY VariableFacts
<1>2. \A j \in 1 .. Len(ArgumentNames) : ArgumentNames[j].num = 0
  BY ArgumentNamesAssumption, LenProperties DEF Range
<1> HIDE DEF all
<1>3. \A p \in 1 .. Len(all) : all[p].num = 0
  <2> TAKE p \in 1 .. Len(all)
  <2>1. CASE p \in 1 .. Len(o.captured)
    BY <2>1, <1>1 DEF SingleResults
  <2>2. CASE p - Len(o.captured) \in 1 .. o.args /\ p = Len(o.captured) + (p - Len(o.captured))
    <3>1. all[p] = ArgumentNames[p - Len(o.captured)]
          /\ p - Len(o.captured) \in 1 .. Len(ArgumentNames)
      BY <2>2, <1>1, Zenon
    <3> QED
      BY <3>1, <1>2
  <2> QED
    BY <1>1, <2>1, <2>2
<1>4. /\ Len(t.subs) = Len(o.kinds)
      /\ \A i \in 1 .. Len(o.kinds) :
           /\ Len(t.subs[i].terms) = Len(o.maps[i].results)
           /\ \A r \in 1 .. Len(o.maps[i].results) :
                /\ Len(t.subs[i].terms[r]) = Len(o.maps[i].results[r])
                /\ \A k \in 1 .. Len(o.maps[i].results[r]) :
                     /\ o.maps[i].results[r][k] \in 1 .. Len(all)
                     /\ t.subs[i].terms[r][k].tok = all[o.maps[i].results[r][k]]
  BY IndirectPrintedFacts, Zenon DEF all
<1> HIDE DEF t
<1>5. ASSUME NEW i \in 1 .. Len(t.subs), NEW r \in 1 .. Len(t.subs[i].terms),
             NEW k \in 1 .. Len(t.subs[i].terms[r])
      PROVE  t.subs[i].terms[r][k].tok.num = 0
  <2>1. i \in 1 .. Len(o.kinds) /\ r \in 1 .. Len(o.maps[i].results)
    BY <1>4
  <2>2. k \in 1 .. Len(o.maps[i].results[r])
    BY <1>4, <2>1
  <2>3. /\ o.maps[i].results[r][k] \in 1 .. Len(all)
        /\ t.subs[i].terms[r][k].tok = all[o.maps[i].results[r][k]]
    BY <1>4, <2>1, <2>2, Zenon
  <2> QED
    BY <2>3, <1>3
<1> QED
  BY <1>5, Zenon DEF Plain, t

LEMMA TextsPlain ==
  ASSUME SingleResults, PlainPrograms, TypeOK, History, text # <<>>
  PROVE  Plain(text[1])
<1>1. CASE printed = <<>>
  BY <1>1 DEF History, PlainPrograms
<1>2. CASE printed # <<>>
  <2>1. /\ printed[1] \in Operations /\ Verified(printed[1]) /\ PrintInBounds(printed[1])
        /\ text = <<Printed(printed[1])>>
    BY <1>2, OptionalFacts DEF TypeOK, History
  <2>2. text[1] = Printed(printed[1]) /\ text[1] \in Texts
    BY <2>1, PrintedTyped, OptionalFacts
  <2>3. CASE printed[1].kind = "access" /\ printed[1] \in Access!Operation
    <3>1. text[1].kind = "access"
      BY <2>2, <2>3 DEF Printed, Access!Printed
    <3>2. text[1].kind # "indirect"
      BY <3>1
    <3> QED
      BY <3>2 DEF Plain
  <2>4. CASE printed[1].kind = "indirect" /\ printed[1].kind # "access"
             /\ printed[1] \in Indirect!Operation
    <3>1. Indirect!Verified(printed[1]) /\ Indirect!PrintInBounds(printed[1])
          /\ text[1] = Indirect!Printed(printed[1])
      BY <2>1, <2>2, <2>4 DEF Verified, PrintInBounds, Printed
    <3> QED
      BY <2>4, <3>1, PrintedPlain
  <2> QED
    BY <2>1, <2>3, <2>4, Kinds
<1> QED
  BY <1>1, <1>2

\* What position p of a subscript map reads is what the text says with this token.
ReadsAsWritten(o, t, p, tok) ==
  \/ p \in 1 .. Len(o.captured) /\ p <= Len(o.captured) /\ NameOf[o.captured[p]] = tok
  \/ /\ p - Len(o.captured) \in 1 .. Len(t.vars) /\ ~(p <= Len(o.captured))
     /\ t.vars[p - Len(o.captured)].id = tok.id

\* What the captured variables of a parsed operation are, and what its subscripts read.
WellRead(o, t) ==
  /\ DOMAIN o.maps = 1 .. Len(t.subs) /\ Len(t.subs) \in Nat
  /\ DOMAIN o.captured = 1 .. Len(o.captured) /\ Len(o.captured) \in Nat
  /\ \A p \in 1 .. Len(o.captured) :
       /\ o.captured[p] \in Values
       /\ \A j \in 1 .. Len(t.vars) : t.vars[j].id # NameOf[o.captured[p]].id
       /\ \E i \in 1 .. Len(t.subs) : \E r \in 1 .. Len(t.subs[i].terms) :
            \E k \in 1 .. Len(t.subs[i].terms[r]) :
              t.subs[i].terms[r][k].tok = NameOf[o.captured[p]]
  /\ \A p, q \in 1 .. Len(o.captured) : o.captured[p] = o.captured[q] => p = q
  /\ \A i \in 1 .. Len(t.subs) :
       /\ t.subs[i].terms \in AffineTerms
       /\ Len(o.maps[i].results) = Len(t.subs[i].terms)
       /\ DOMAIN o.maps[i].results = 1 .. Len(t.subs[i].terms)
       /\ \A r \in 1 .. Len(t.subs[i].terms) :
            /\ DOMAIN o.maps[i].results[r] = 1 .. Len(t.subs[i].terms[r])
            /\ DOMAIN t.subs[i].terms[r] = 1 .. Len(t.subs[i].terms[r])
            /\ \A k \in 1 .. Len(t.subs[i].terms[r]) :
                 ReadsAsWritten(o, t, o.maps[i].results[r][k], t.subs[i].terms[r][k].tok)

LEMMA ParsedReads ==
  ASSUME SingleResults, NEW t \in Indirect!Text, Indirect!Parses(t), Plain(t)
  PROVE  WellRead(Indirect!Parsed(t), t)
<1> DEFINE o == Indirect!Parsed(t)
           n == Len(t.subs)
<1>1. /\ n \in Nat /\ DOMAIN o.maps = 1 .. n
      /\ Len(o.captured) = Len(Names(t)) /\ DOMAIN o.captured = 1 .. Len(Names(t))
      /\ \A k \in 1 .. Len(Names(t)) :
           o.captured[k] \in Values /\ NameOf[o.captured[k]] = Captured(t)[k]
  BY IndirectParsedFacts
<1>2. \A i \in 1 .. n : o.maps[i] = Indirect!Canonical(Reads(t)[i], Names(t) \o IdsOf(t.vars))
  BY IndirectParsedFacts
<1> HIDE DEF o
<1>3. /\ Len(Names(t)) \in Nat
      /\ \A k \in 1 .. Len(Names(t)) :
           /\ Captured(t)[k].id = Names(t)[k]
           /\ \A j \in 1 .. Len(t.vars) : t.vars[j].id # Names(t)[k]
           /\ \E i \in 1 .. n : \E j \in 1 .. Len(Reads(t)[i].operands) :
                Captured(t)[k] = Reads(t)[i].operands[j]
      /\ \A j, k \in 1 .. Len(Names(t)) : Names(t)[j] = Names(t)[k] => j = k
  BY CapturedFacts
<1>4. \A i \in 1 .. n : t.subs[i].terms \in AffineTerms /\ Reads(t)[i] = ReadMap(t.subs[i].terms)
  BY ReadsTyped
<1>5. /\ t.kind = "indirect" /\ t.vars \in Seq(Token) /\ Len(t.vars) \in Nat
  BY IndirectSets, ReadsTyped
<1>6. ASSUME NEW p \in 1 .. Len(o.captured)
      PROVE  /\ o.captured[p] \in Values
             /\ \A j \in 1 .. Len(t.vars) : t.vars[j].id # NameOf[o.captured[p]].id
             /\ \E i \in 1 .. n : \E r \in 1 .. Len(t.subs[i].terms) :
                  \E k \in 1 .. Len(t.subs[i].terms[r]) :
                    t.subs[i].terms[r][k].tok = NameOf[o.captured[p]]
  <2>1. o.captured[p] \in Values /\ NameOf[o.captured[p]] = Captured(t)[p]
    BY <1>1
  <2>2. PICK i \in 1 .. n : \E j \in 1 .. Len(Reads(t)[i].operands) :
          Captured(t)[p] = Reads(t)[i].operands[j]
    BY <1>1, <1>3
  <2>3. PICK j \in 1 .. Len(ReadMap(t.subs[i].terms).operands) :
          Captured(t)[p] = ReadMap(t.subs[i].terms).operands[j]
    BY <1>4, <2>2
  <2>4. \E r \in 1 .. Len(t.subs[i].terms) : \E k \in 1 .. Len(t.subs[i].terms[r]) :
          ReadMap(t.subs[i].terms).operands[j] = t.subs[i].terms[r][k].tok
    BY <1>4, ReadMapFacts
  <2>5. \E r \in 1 .. Len(t.subs[i].terms) : \E k \in 1 .. Len(t.subs[i].terms[r]) :
          t.subs[i].terms[r][k].tok = NameOf[o.captured[p]]
    BY <2>1, <2>3, <2>4
  <2>6. \A m \in 1 .. Len(t.vars) : t.vars[m].id # NameOf[o.captured[p]].id
    BY <2>1, <1>1, <1>3
  <2> QED
    BY <2>1, <2>2, <2>5, <2>6, Zenon
<1>7. ASSUME NEW p \in 1 .. Len(o.captured), NEW q \in 1 .. Len(o.captured),
             o.captured[p] = o.captured[q]
      PROVE  p = q
  <2>1. p \in 1 .. Len(Names(t)) /\ q \in 1 .. Len(Names(t))
    BY <1>1, Zenon
  <2>2. NameOf[o.captured[p]] = Captured(t)[p] /\ NameOf[o.captured[q]] = Captured(t)[q]
    BY <2>1, <1>1, Zenon
  <2>3. Captured(t)[p].id = Names(t)[p] /\ Captured(t)[q].id = Names(t)[q]
    BY <2>1, <1>3, Zenon
  <2>4. Names(t)[p] = Names(t)[q]
    BY <2>2, <2>3, <1>7, Zenon
  <2> QED
    BY <2>1, <2>4, <1>3, Zenon
<1>8. ASSUME NEW i \in 1 .. n
      PROVE  /\ Len(o.maps[i].results) = Len(t.subs[i].terms)
             /\ DOMAIN o.maps[i].results = 1 .. Len(t.subs[i].terms)
             /\ \A r \in 1 .. Len(t.subs[i].terms) :
                  /\ DOMAIN o.maps[i].results[r] = 1 .. Len(t.subs[i].terms[r])
                  /\ DOMAIN t.subs[i].terms[r] = 1 .. Len(t.subs[i].terms[r])
                  /\ \A k \in 1 .. Len(t.subs[i].terms[r]) :
                       ReadsAsWritten(o, t, o.maps[i].results[r][k], t.subs[i].terms[r][k].tok)
  <2> DEFINE terms == t.subs[i].terms
             map == Indirect!Canonical(Reads(t)[i], Names(t) \o IdsOf(t.vars))
  <2>1. /\ map \in AffineMap /\ Len(map.results) = Len(terms)
        /\ \A r \in 1 .. Len(terms) :
             /\ Len(map.results[r]) = Len(terms[r])
             /\ \A k \in 1 .. Len(terms[r]) :
                  \/ /\ map.results[r][k] \in 1 .. Len(Names(t))
                     /\ Names(t)[map.results[r][k]] = terms[r][k].tok.id
                  \/ /\ map.results[r][k] - Len(Names(t)) \in 1 .. Len(t.vars)
                     /\ t.vars[map.results[r][k] - Len(Names(t))].id = terms[r][k].tok.id
    BY CanonicalFacts
  <2>2. terms \in Seq(Seq(Term)) /\ \A r \in 1 .. Len(terms) : \A k \in 1 .. Len(terms[r]) :
          terms[r][k].tok.num = 0
    BY <1>4, <1>5 DEF AffineTerms, Term, Plain
  <2>3. o.maps[i] = map
    BY <1>2
  <2> HIDE DEF terms, map
  <2>4. map.results \in Seq(Seq(Nat))
    BY <2>1 DEF AffineMap
  <2>5. DOMAIN map.results = 1 .. Len(terms)
    BY <2>1, <2>4, LenProperties
  <2>6. ASSUME NEW r \in 1 .. Len(terms)
        PROVE  /\ DOMAIN map.results[r] = 1 .. Len(terms[r])
               /\ DOMAIN terms[r] = 1 .. Len(terms[r])
               /\ \A k \in 1 .. Len(terms[r]) : terms[r][k] \in Term
               /\ \A k \in 1 .. Len(terms[r]) : map.results[r][k] \in Nat
    <3>1. terms[r] \in Seq(Term) /\ map.results[r] \in Seq(Nat) /\ Len(map.results[r]) = Len(terms[r])
      BY <2>1, <2>2, <2>4, ElementOfSeq
    <3> QED
      BY <3>1, LenProperties, ElementOfSeq
  <2>7. ASSUME NEW r \in 1 .. Len(terms), NEW k \in 1 .. Len(terms[r])
        PROVE  ReadsAsWritten(o, t, map.results[r][k], terms[r][k].tok)
    <3> DEFINE p == map.results[r][k]
               tok == terms[r][k].tok
    <3>1. p \in Nat /\ tok \in Token /\ tok.num = 0
      BY <2>2, <2>6 DEF Term
    <3>2. \/ p \in 1 .. Len(Names(t)) /\ Names(t)[p] = tok.id
          \/ p - Len(Names(t)) \in 1 .. Len(t.vars) /\ t.vars[p - Len(Names(t))].id = tok.id
      BY <2>1
    <3> HIDE DEF p, tok
    <3>3. CASE p \in 1 .. Len(Names(t)) /\ Names(t)[p] = tok.id
      <4>1. o.captured[p] \in Values /\ NameOf[o.captured[p]].id = tok.id
        BY <3>3, <1>1, <1>3
      <4>2. NameOf[o.captured[p]] \in Token /\ NameOf[o.captured[p]].num = 0
        BY <4>1, NamesAssumption DEF SingleResults
      <4>3. NameOf[o.captured[p]] = tok
        BY <3>1, <4>1, <4>2, SameToken
      <4> QED
        BY <3>1, <3>3, <4>3, <1>1, <1>3 DEF p, tok, ReadsAsWritten
    <3>4. CASE p - Len(Names(t)) \in 1 .. Len(t.vars) /\ t.vars[p - Len(Names(t))].id = tok.id
      <4>1. ~(p <= Len(Names(t)))
        BY <3>1, <3>4, <1>3, <1>5
      <4> QED
        BY <3>4, <4>1, <1>1 DEF p, tok, ReadsAsWritten
    <3> QED
      BY <3>2, <3>3, <3>4
  <2> QED
    BY <2>1, <2>3, <2>5, <2>6, <2>7, Zenon DEF terms
<1>9. WellRead(o, t)
  <2> HIDE DEF n
  <2>1. \A p, q \in 1 .. Len(o.captured) : o.captured[p] = o.captured[q] => p = q
    BY <1>7, Zenon
  <2>2. DOMAIN o.captured = 1 .. Len(o.captured) /\ Len(o.captured) \in Nat
    BY <1>1, <1>3, Zenon
  <2> QED
    BY <1>1, <1>4, <1>6, <1>8, <2>1, <2>2, Zenon DEF n, WellRead
<1> QED
  BY <1>9 DEF o

LEMMA ParsedFrom ==
  ASSUME SingleResults, PlainPrograms, TypeOK, History, IndirectParsed
  PROVE  /\ text[1] \in Indirect!Text /\ Indirect!Parses(text[1]) /\ Plain(text[1])
         /\ op = Indirect!Parsed(text[1])
<1>1. HasOperation /\ text # <<>> /\ op.kind = "indirect"
  BY DEF IndirectParsed, JustParsed, HasOperation
<1>2. text[1] \in Texts /\ Parses(text[1]) /\ op = Parsed(text[1])
  BY <1>1, OptionalFacts DEF TypeOK, History
<1>3. text[1].kind = "indirect" /\ text[1].kind # "access" /\ text[1] \in Indirect!Text
  BY <1>1, <1>2, ParsedTyped, Kinds
<1> QED
  BY <1>1, <1>2, <1>3, TextsPlain DEF Parses, Parsed

\* Every subscript of a parsed operation reads what its text names there, if every value is
\* the only result of its operation (its renumbering: KTDPOps.cpp 271-372).
THEOREM SubscriptsReadTheirNames ==
  ASSUME SingleResults, PlainPrograms
  PROVE  Spec => []SubscriptsReadWhatTheyName
<1>1. TypeOK /\ History => SubscriptsReadWhatTheyName
  <2> SUFFICES ASSUME TypeOK, History, IndirectParsed PROVE SubscriptsReadWhatTheyName
    BY DEF SubscriptsReadWhatTheyName
  <2> DEFINE t == text[1]
  <2>1. WellRead(op, t)
    <3> HIDE DEF t
    <3>1. t \in Indirect!Text /\ Indirect!Parses(t) /\ Plain(t) /\ op = Indirect!Parsed(t)
      BY ParsedFrom DEF t
    <3> QED
      BY <3>1, ParsedReads
  <2> HIDE DEF t
  <2> SUFFICES ASSUME NEW i \in DOMAIN op.maps, NEW r \in DOMAIN op.maps[i].results,
                      NEW k \in DOMAIN op.maps[i].results[r]
               PROVE  LET p == op.maps[i].results[r][k]
                          tok == t.subs[i].terms[r][k].tok
                      IN IF p <= Len(op.captured) THEN NameOf[op.captured[p]] = tok
                         ELSE t.vars[p - Len(op.captured)].id = tok.id
    BY Zenon DEF SubscriptsReadWhatTheyName, t
  <2>3. ReadsAsWritten(op, t, op.maps[i].results[r][k], t.subs[i].terms[r][k].tok)
    BY <2>1, Zenon DEF WellRead
  <2> QED
    BY <2>3, Zenon DEF ReadsAsWritten
<1> QED
  BY <1>1, Invariant, PTL
\* The captured variables of a parsed operation are the values that its text names and its
\* intermediate variables do not hide, each once (KTDPOps.cpp 659-698).
THEOREM ParserCapturesEveryValue ==
  ASSUME SingleResults, PlainPrograms
  PROVE  Spec => []CapturesEveryValue
<1>1. TypeOK /\ History => CapturesEveryValue
  <2> SUFFICES ASSUME TypeOK, History, IndirectParsed PROVE CapturesEveryValue
    BY DEF CapturesEveryValue
  <2> DEFINE t == text[1]
             n == Len(op.captured)
             At(v) == \E i \in DOMAIN t.subs : \E r \in DOMAIN t.subs[i].terms :
                        \E k \in DOMAIN t.subs[i].terms[r] : t.subs[i].terms[r][k].tok = NameOf[v]
             named == {v \in Values : At(v)}
             inner == {t.vars[j].id : j \in DOMAIN t.vars}
  <2>1. WellRead(op, t) /\ t \in Indirect!Text
    <3> HIDE DEF t
    <3>1. t \in Indirect!Text /\ Indirect!Parses(t) /\ Plain(t) /\ op = Indirect!Parsed(t)
      BY ParsedFrom DEF t
    <3> QED
      BY <3>1, ParsedReads
  <2> HIDE DEF t
  <2>2. DOMAIN t.subs = 1 .. Len(t.subs) /\ DOMAIN t.vars = 1 .. Len(t.vars)
        /\ \A i \in 1 .. Len(t.subs) : DOMAIN t.subs[i].terms = 1 .. Len(t.subs[i].terms)
    <3>1. \A i \in 1 .. Len(t.subs) : t.subs[i].terms \in Seq(Seq(Term))
      BY <2>1, ReadsTyped DEF AffineTerms, Term
    <3> QED
      BY <2>1, <3>1, ReadsTyped, LenProperties
  <2>3. /\ DOMAIN op.captured = 1 .. n /\ n \in Nat
        /\ \A p \in 1 .. n :
             /\ op.captured[p] \in Values
             /\ \A j \in 1 .. Len(t.vars) : t.vars[j].id # NameOf[op.captured[p]].id
             /\ \E i \in 1 .. Len(t.subs) : \E r \in 1 .. Len(t.subs[i].terms) :
                  \E k \in 1 .. Len(t.subs[i].terms[r]) :
                    t.subs[i].terms[r][k].tok = NameOf[op.captured[p]]
        /\ \A p, q \in 1 .. n : op.captured[p] = op.captured[q] => p = q
    BY <2>1, Zenon DEF WellRead
  <2>8. \A i \in 1 .. Len(t.subs) : \A r \in 1 .. Len(t.subs[i].terms) :
          DOMAIN t.subs[i].terms[r] = 1 .. Len(t.subs[i].terms[r])
    BY <2>1, Zenon DEF WellRead
  <2>9. \A i \in 1 .. Len(t.subs) : \A r \in 1 .. Len(t.subs[i].terms) :
          \A k \in 1 .. Len(t.subs[i].terms[r]) :
            ReadsAsWritten(op, t, op.maps[i].results[r][k], t.subs[i].terms[r][k].tok)
    BY <2>1, Zenon DEF WellRead
  <2> HIDE DEF n
  <2>4. ASSUME NEW p \in DOMAIN op.captured
        PROVE  op.captured[p] \in {v \in named : NameOf[v].id \notin inner}
    <3>0. p \in 1 .. n
      BY <2>3
    <3>1. PICK i \in 1 .. Len(t.subs) : \E r \in 1 .. Len(t.subs[i].terms) :
            \E k \in 1 .. Len(t.subs[i].terms[r]) :
              t.subs[i].terms[r][k].tok = NameOf[op.captured[p]]
      BY <3>0, <2>3, Zenon
    <3>2. PICK r \in 1 .. Len(t.subs[i].terms) : \E k \in 1 .. Len(t.subs[i].terms[r]) :
            t.subs[i].terms[r][k].tok = NameOf[op.captured[p]]
      BY <3>1
    <3>3. PICK k \in 1 .. Len(t.subs[i].terms[r]) :
            t.subs[i].terms[r][k].tok = NameOf[op.captured[p]]
      BY <3>2
    <3>4. i \in DOMAIN t.subs /\ r \in DOMAIN t.subs[i].terms /\ k \in DOMAIN t.subs[i].terms[r]
      BY <2>2, <2>8
    <3>5. At(op.captured[p]) /\ op.captured[p] \in Values
      BY <3>0, <3>3, <3>4, <2>3, SMTT(30)
    <3>6. \A j \in 1 .. Len(t.vars) : t.vars[j].id # NameOf[op.captured[p]].id
      BY <3>0, <2>3, Zenon
    <3>7. NameOf[op.captured[p]].id \notin inner
      BY <3>6, <2>2
    <3> HIDE DEF At
    <3> QED
      BY <3>5, <3>7
  <2>5. ASSUME NEW v \in named, NameOf[v].id \notin inner
        PROVE  \E p \in DOMAIN op.captured : op.captured[p] = v
    <3>1. v \in Values /\ At(v)
      <4> HIDE DEF At
      <4> QED
        BY <2>5
    <3>2. PICK i \in DOMAIN t.subs : \E r \in DOMAIN t.subs[i].terms :
            \E k \in DOMAIN t.subs[i].terms[r] : t.subs[i].terms[r][k].tok = NameOf[v]
      BY <3>1
    <3>3. PICK r \in DOMAIN t.subs[i].terms :
            \E k \in DOMAIN t.subs[i].terms[r] : t.subs[i].terms[r][k].tok = NameOf[v]
      BY <3>2
    <3>4. PICK k \in DOMAIN t.subs[i].terms[r] : t.subs[i].terms[r][k].tok = NameOf[v]
      BY <3>3
    <3>9. i \in 1 .. Len(t.subs) /\ r \in 1 .. Len(t.subs[i].terms)
          /\ k \in 1 .. Len(t.subs[i].terms[r])
      BY <2>2, <2>8, ZenonT(30)
    <3> DEFINE p == op.maps[i].results[r][k]
    <3>5. ReadsAsWritten(op, t, p, NameOf[v])
      BY <2>9, <3>4, <3>9, Zenon
    <3> HIDE DEF p
    <3>6. \A j \in 1 .. Len(t.vars) : t.vars[j].id # NameOf[v].id
      BY <2>2, <2>5, Zenon
    <3>7. p \in 1 .. n /\ NameOf[op.captured[p]] = NameOf[v]
      BY <3>5, <3>6, Zenon DEF ReadsAsWritten, n
    <3>8. op.captured[p] = v
      BY <3>1, <3>7, <2>3, ResolveFacts
    <3> QED
      BY <3>7, <3>8, <2>3
  <2>6. {op.captured[k] : k \in DOMAIN op.captured} = {v \in named : NameOf[v].id \notin inner}
    <3> HIDE DEF named, inner
    <3> QED
      BY <2>4, <2>5
  <2>7. \A j, k \in DOMAIN op.captured : op.captured[j] = op.captured[k] => j = k
    BY <2>3
  <2> QED
    BY <2>6, <2>7 DEF CapturesEveryValue, t
<1> QED
  BY <1>1, Invariant, PTL
----------------------------------------------------------------------------
(* The round trip. *)

\* A map whose ids carry no number is readable, and its operands are the ids as written.
LEMMA PlainReads ==
  ASSUME SingleResults, NEW terms \in AffineTerms,
         \A i \in 1 .. Len(terms) : \A k \in 1 .. Len(terms[i]) : terms[i][k].tok.num = 0
  PROVE  LET read == ReadMap(terms)
         IN /\ ReadableMap(terms)
            /\ \A i \in 1 .. Len(terms) : \A k \in 1 .. Len(terms[i]) :
                 read.operands[read.map.results[i][k]] = terms[i][k].tok
<1> DEFINE all == FlattenSeq(terms)
           read == ReadMap(terms)
<1>1. terms \in Seq(Seq(Term))
  BY DEF AffineTerms, Term
<1>2. \A i \in 1 .. Len(terms) : \A k \in 1 .. Len(terms[i]) :
        terms[i][k] \in Term /\ terms[i][k].tok \in Token
  <2>1. \A i \in 1 .. Len(terms) : terms[i] \in Seq(Term)
    BY <1>1, ElementOfSeq
  <2>2. \A i \in 1 .. Len(terms) : \A k \in 1 .. Len(terms[i]) : terms[i][k] \in Term
    BY <2>1, ElementOfSeq
  <2> QED
    BY <2>2 DEF Term
<1>3. all \in Seq(Term)
  BY <1>1, FlattenFacts
<1>4. \A p \in 1 .. Len(all) : \E i \in 1 .. Len(terms) : \E j \in 1 .. Len(terms[i]) :
        all[p] = terms[i][j]
  BY <1>1, FlattenFrom
<1>5. ReadableMap(terms)
  <2> HIDE DEF all
  <2>1. DOMAIN all = 1 .. Len(all)
    BY <1>3, LenProperties
  <2>2. \A p \in DOMAIN all : all[p].tok.num = 0
    BY <2>1, <1>4, SMTT(30)
  <2>3. \A p \in DOMAIN all : ~Numbered(all[p].tok)
    BY <2>2 DEF Numbered, SingleResults
  <2> QED
    BY <2>3, Zenon DEF ReadableMap, all
<1>6. /\ read.operands \in Seq(Token)
      /\ \A k \in 1 .. Len(read.operands) : \E i \in 1 .. Len(terms) :
           \E j \in 1 .. Len(terms[i]) : read.operands[k] = terms[i][j].tok
      /\ \A i \in 1 .. Len(terms) : \A j \in 1 .. Len(terms[i]) :
           /\ read.map.results[i][j] \in 1 .. Len(read.operands)
           /\ read.operands[read.map.results[i][j]].id = terms[i][j].tok.id
  BY ReadMapFacts
<1> HIDE DEF read
<1>7. \A k \in 1 .. Len(read.operands) : read.operands[k] \in Token /\ read.operands[k].num = 0
  <2>1. \A k \in 1 .. Len(read.operands) : read.operands[k] \in Token
    BY <1>6, ElementOfSeq
  <2>2. ASSUME NEW k \in 1 .. Len(read.operands) PROVE read.operands[k].num = 0
    <3>1. PICK i \in 1 .. Len(terms) : \E j \in 1 .. Len(terms[i]) :
            read.operands[k] = terms[i][j].tok
      BY <1>6
    <3> QED
      BY <3>1
  <2> QED
    BY <2>1, <2>2
<1>8. ASSUME NEW i \in 1 .. Len(terms), NEW k \in 1 .. Len(terms[i])
      PROVE  read.operands[read.map.results[i][k]] = terms[i][k].tok
  <2> DEFINE p == read.map.results[i][k]
             tok == terms[i][k].tok
  <2>1. p \in 1 .. Len(read.operands) /\ read.operands[p].id = tok.id
    BY <1>6
  <2>2. tok \in Token /\ tok.num = 0
    BY <1>2
  <2> HIDE DEF p, tok
  <2>3. read.operands[p] \in Token /\ read.operands[p].num = 0
    BY <1>7, <2>1
  <2>4. read.operands[p] = tok
    BY <2>1, <2>2, <2>3, SameToken
  <2> QED
    BY <2>4 DEF p, tok
<1> QED
  BY <1>5, <1>8 DEF read

\* An access tile's operation is read back with other positions and the same meaning.
LEMMA AccessRoundTrip ==
  ASSUME SingleResults, NEW o \in Access!Operation, Access!Verified(o)
  PROVE  /\ Access!Parses(Access!Printed(o))
         /\ Access!Verified(Access!Parsed(Access!Printed(o)))
         /\ Access!Meaning(Access!Parsed(Access!Printed(o))) = Access!Meaning(o)
<1> DEFINE t == Access!Printed(o)
           q == Access!Parsed(t)
           vals == [k \in DOMAIN o.indices |-> NameOf[o.indices[k]]]
           toks == [k \in DOMAIN o.symbols |-> NameOf[o.symbols[k]]]
           read == ReadMap(t.terms)
           n == Len(o.map.results)
<1>1. /\ o.base \in Views /\ o.map \in AffineMap /\ o.indices \in Seq(Values)
      /\ o.symbols \in Seq(Values) /\ o.set \in IntegerSet /\ o.order \in Order /\ o.rank \in Nat
  BY AccessSets
<1>2. /\ NumInputs(o.map) = Len(o.indices) /\ o.set.dims = n /\ o.set.syms = Len(o.symbols)
      /\ o.order.ins = o.order.outs /\ o.order.outs = o.set.dims /\ o.rank = o.set.dims
  BY DEF Access!Verified, Access!NumInputs, NumInputs
<1>3. /\ vals \in Seq(Token) /\ Len(vals) = Len(o.indices) /\ Len(o.indices) \in Nat
      /\ \A k \in 1 .. Len(o.indices) : o.indices[k] \in Values /\ vals[k] = NameOf[o.indices[k]]
  BY <1>1, NamesTyped
<1>4. /\ toks \in Seq(Token) /\ Len(toks) = Len(o.symbols) /\ DOMAIN toks = 1 .. Len(o.symbols)
      /\ \A k \in 1 .. Len(o.symbols) : o.symbols[k] \in Values /\ toks[k] = NameOf[o.symbols[k]]
  BY <1>1, NamesTyped
<1>5. t = [kind |-> "access", base |-> o.base, terms |-> PrintedMap(o.map, vals),
           symbols |-> toks, set |-> <<o.set>>, order |-> <<o.order>>,
           type |-> RankOf[o.base], rank |-> o.rank]
  BY AccessUnfolds
<1>6. t \in Access!Text
  BY AccessPrintedTyped
<1> HIDE DEF t, vals, toks
<1>7. /\ t.base = o.base /\ t.terms = PrintedMap(o.map, vals) /\ t.symbols = toks
      /\ t.set = <<o.set>> /\ t.order = <<o.order>> /\ t.type = RankOf[o.base] /\ t.rank = o.rank
  BY <1>5
<1>8. /\ t.terms \in AffineTerms /\ Len(t.terms) = n
      /\ \A i \in 1 .. n :
           /\ Len(t.terms[i]) = Len(o.map.results[i])
           /\ \A k \in 1 .. Len(o.map.results[i]) :
                /\ o.map.results[i][k] \in 1 .. Len(vals)
                /\ t.terms[i][k].tok = vals[o.map.results[i][k]]
  <2> DEFINE terms == PrintedMap(o.map, vals)
  <2>1. /\ terms \in AffineTerms /\ Len(terms) = n
        /\ \A i \in 1 .. n :
             /\ Len(terms[i]) = Len(o.map.results[i])
             /\ \A k \in 1 .. Len(o.map.results[i]) :
                  /\ o.map.results[i][k] \in 1 .. Len(vals)
                  /\ terms[i][k].tok = vals[o.map.results[i][k]]
    <3> DEFINE map == o.map
    <3>1. map \in AffineMap /\ NumInputs(map) <= Len(vals)
      BY <1>1, <1>2, <1>3
    <3> HIDE DEF map
    <3>2. /\ terms \in AffineTerms /\ Len(terms) = Len(map.results)
          /\ \A i \in 1 .. Len(map.results) :
               /\ Len(terms[i]) = Len(map.results[i])
               /\ \A k \in 1 .. Len(map.results[i]) :
                    /\ map.results[i][k] \in 1 .. NumInputs(map)
                    /\ map.results[i][k] \in 1 .. Len(vals)
                    /\ terms[i][k].tok = vals[map.results[i][k]]
                    /\ terms[i][k].sym <=> map.results[i][k] > map.dims
      BY <1>3, <3>1, PrintedMapFacts, Zenon DEF map
    <3> QED
      BY <3>2, Zenon DEF map
  <2>2. t.terms = terms
    BY <1>7
  <2> HIDE DEF terms, n
  <2> QED
    BY <2>1, <2>2, Zenon
<1>9. ASSUME NEW i \in 1 .. Len(t.terms), NEW k \in 1 .. Len(t.terms[i])
      PROVE  /\ o.map.results[i][k] \in 1 .. Len(o.indices)
             /\ o.indices[o.map.results[i][k]] \in Values
             /\ t.terms[i][k].tok = NameOf[o.indices[o.map.results[i][k]]]
             /\ t.terms[i][k].tok.num = 0
  <2>1. o.map.results[i][k] \in 1 .. Len(o.indices)
        /\ t.terms[i][k].tok = vals[o.map.results[i][k]]
    BY <1>3, <1>8
  <2>2. o.indices[o.map.results[i][k]] \in Values
        /\ t.terms[i][k].tok = NameOf[o.indices[o.map.results[i][k]]]
    BY <2>1, <1>3
  <2> QED
    BY <2>1, <2>2 DEF SingleResults
<1>10. /\ ReadableMap(t.terms)
       /\ \A i \in 1 .. Len(t.terms) : \A k \in 1 .. Len(t.terms[i]) :
            read.operands[read.map.results[i][k]] = t.terms[i][k].tok
  BY <1>8, <1>9, PlainReads
<1>11. /\ read.map \in AffineMap /\ read.operands \in Seq(Token)
       /\ \A k \in 1 .. Len(read.operands) : \E i \in 1 .. Len(t.terms) :
            \E j \in 1 .. Len(t.terms[i]) : read.operands[k] = t.terms[i][j].tok
       /\ Len(read.map.results) = Len(t.terms)
       /\ \A i \in 1 .. Len(t.terms) :
            /\ Len(read.map.results[i]) = Len(t.terms[i])
            /\ \A j \in 1 .. Len(t.terms[i]) : read.map.results[i][j] \in 1 .. Len(read.operands)
  BY <1>8, ReadMapFacts
<1> HIDE DEF read
<1>12. DOMAIN read.operands = 1 .. Len(read.operands)
       /\ \A k \in DOMAIN read.operands : Resolvable(read.operands[k])
  <2>1. DOMAIN read.operands = 1 .. Len(read.operands)
    BY <1>11, LenProperties
  <2>2. ASSUME NEW k \in 1 .. Len(read.operands) PROVE Resolvable(read.operands[k])
    <3>1. PICK i \in 1 .. Len(t.terms) : \E j \in 1 .. Len(t.terms[i]) :
            read.operands[k] = t.terms[i][j].tok
      BY <1>11
    <3>2. PICK j \in 1 .. Len(t.terms[i]) : read.operands[k] = t.terms[i][j].tok
      BY <3>1
    <3>3. PICK v \in Values : t.terms[i][j].tok = NameOf[v]
      BY <1>9
    <3> QED
      BY <3>2, <3>3, ResolveFacts
  <2> QED
    BY <2>1, <2>2
<1>13. \A k \in DOMAIN t.symbols : Resolvable(t.symbols[k]) /\ Resolve(t.symbols[k]) = o.symbols[k]
  BY <1>4, <1>7, ResolveFacts
<1>14. Access!Parses(t)
  <2>1. Access!Readable(t)
    BY <1>7, <1>10, <1>12, <1>13, AccessUnfolds, Zenon DEF read
  <2>2. Len(t.set) = 1 /\ Len(t.order) = 1 /\ t.set[1] = o.set /\ t.order[1] = o.order
    BY <1>7
  <2>3. Len(t.symbols) = Len(o.symbols)
    BY <1>4, <1>7
  <2> QED
    BY <1>2, <1>8, <2>1, <2>2, <2>3 DEF Access!Parses, Access!SetMatchesMap
<1>15. q = [kind |-> "access", base |-> o.base, map |-> read.map,
            indices |-> [k \in DOMAIN read.operands |-> Resolve(read.operands[k])],
            symbols |-> [k \in DOMAIN t.symbols |-> Resolve(t.symbols[k])],
            set |-> o.set, order |-> o.order, rank |-> o.rank]
  <2>1. t.set[1] = o.set /\ t.order[1] = o.order
    BY <1>7
  <2> QED
    BY <1>7, <2>1, AccessUnfolds, Zenon DEF read
<1>16. Access!Verified(q)
  <2>1. q.rank = q.set.dims
    BY <1>2, <1>15
  <2> QED
    BY <2>1, <1>6, <1>14, AccessRejected
<1> HIDE DEF q
<1>17. q.base = o.base /\ q.symbols = o.symbols /\ q.set = o.set /\ q.order = o.order
       /\ q.rank = o.rank /\ q.map = read.map
       /\ \A k \in 1 .. Len(read.operands) : q.indices[k] = Resolve(read.operands[k])
  <2>1. [k \in DOMAIN t.symbols |-> Resolve(t.symbols[k])] = o.symbols
    <3>1. DOMAIN t.symbols = 1 .. Len(o.symbols) /\ o.symbols \in [1 .. Len(o.symbols) -> Values]
      BY <1>1, <1>4, <1>7, LenProperties
    <3> QED
      BY <3>1, <1>13
  <2> QED
    BY <1>12, <1>15, <2>1
<1>18. Access!Coordinates(q) = Access!Coordinates(o)
  <2>1. o.map.results \in Seq(Seq(Nat)) /\ read.map.results \in Seq(Seq(Nat))
    BY <1>1, <1>11 DEF AffineMap
  <2>2. DOMAIN o.map.results = 1 .. n /\ DOMAIN read.map.results = 1 .. n
    BY <1>8, <1>11, <2>1, LenProperties
  <2>3. \A i \in 1 .. n : DOMAIN o.map.results[i] = 1 .. Len(t.terms[i])
                          /\ DOMAIN read.map.results[i] = 1 .. Len(t.terms[i])
    <3> TAKE i \in 1 .. n
    <3>1. o.map.results[i] \in Seq(Nat) /\ read.map.results[i] \in Seq(Nat)
      BY <2>1, <2>2, <1>8, <1>11, ElementOfSeq
    <3>2. Len(o.map.results[i]) = Len(t.terms[i]) /\ Len(read.map.results[i]) = Len(t.terms[i])
      BY <1>8, <1>11
    <3> QED
      BY <3>1, <3>2, LenProperties
  <2>4. ASSUME NEW i \in 1 .. n, NEW k \in 1 .. Len(t.terms[i])
        PROVE  q.indices[read.map.results[i][k]] = o.indices[o.map.results[i][k]]
    <3>1. read.map.results[i][k] \in 1 .. Len(read.operands)
          /\ read.operands[read.map.results[i][k]] = t.terms[i][k].tok
      BY <1>8, <1>10, <1>11
    <3>2. q.indices[read.map.results[i][k]] = Resolve(t.terms[i][k].tok)
      BY <3>1, <1>17
    <3>3. o.indices[o.map.results[i][k]] \in Values
          /\ t.terms[i][k].tok = NameOf[o.indices[o.map.results[i][k]]]
      BY <1>8, <1>9
    <3> QED
      BY <3>2, <3>3, ResolveFacts
  <2> HIDE DEF n
  <2>5. Access!Coordinates(q) =
          [i \in 1 .. n |-> [k \in 1 .. Len(t.terms[i]) |-> q.indices[read.map.results[i][k]]]]
    BY <1>17, <2>2, <2>3 DEF Access!Coordinates
  <2>6. Access!Coordinates(o) =
          [i \in 1 .. n |-> [k \in 1 .. Len(t.terms[i]) |-> o.indices[o.map.results[i][k]]]]
    BY <2>2, <2>3 DEF Access!Coordinates
  <2> QED
    BY <2>4, <2>5, <2>6
<1>19. Access!Meaning(q) = Access!Meaning(o)
  BY <1>17, <1>18 DEF Access!Meaning
<1> QED
  BY <1>14, <1>16, <1>19 DEF q, t
\* The names of a region's arguments: apart from each other and from every value's.
LEMMA ArgumentNamesApart ==
  /\ \A j \in 1 .. Len(ArgumentNames) : ArgumentNames[j] \in Token /\ ArgumentNames[j].num = 0
  /\ \A j, k \in 1 .. Len(ArgumentNames) : ArgumentNames[j].id = ArgumentNames[k].id => j = k
  /\ \A j \in 1 .. Len(ArgumentNames) : \A v \in Values : NameOf[v].id # ArgumentNames[j].id
<1>1. DOMAIN ArgumentNames = 1 .. Len(ArgumentNames)
      /\ \A j \in 1 .. Len(ArgumentNames) : ArgumentNames[j] \in Token
  BY ArgumentNamesAssumption, LenProperties, ElementOfSeq
<1>2. \A j \in 1 .. Len(ArgumentNames) : ArgumentNames[j] \in Range(ArgumentNames)
  BY <1>1 DEF Range
<1>3. \A j \in 1 .. Len(ArgumentNames) : ArgumentNames[j].num = 0
  BY <1>2, ArgumentNamesAssumption
<1>4. ASSUME NEW j \in 1 .. Len(ArgumentNames), NEW k \in 1 .. Len(ArgumentNames),
             ArgumentNames[j].id = ArgumentNames[k].id
      PROVE  j = k
  <2>1. ArgumentNames[j] = ArgumentNames[k]
    BY <1>1, <1>3, <1>4, SameToken
  <2> QED
    BY <1>1, <2>1, ArgumentNamesAssumption DEF IsInjective
<1> QED
  BY <1>1, <1>2, <1>3, <1>4, ArgumentNamesAssumption

\* A token in the text of a printed operation is the name of what position p reads.
Named(o, t, p, tok) ==
  \/ p \in 1 .. Len(o.captured) /\ o.captured[p] \in Values /\ tok = NameOf[o.captured[p]]
  \/ /\ p - Len(o.captured) \in 1 .. Len(t.vars) /\ ~(p <= Len(o.captured))
     /\ p - Len(o.captured) \in 1 .. Len(ArgumentNames)
     /\ tok = ArgumentNames[p - Len(o.captured)] /\ tok = t.vars[p - Len(o.captured)]

LEMMA PrintedNames ==
  ASSUME NEW o \in Indirect!Operation, Indirect!Verified(o), Indirect!PrintInBounds(o)
  PROVE  LET t == Indirect!Printed(o)
         IN /\ Len(t.vars) = o.args
            /\ \A j \in 1 .. o.args : j \in 1 .. Len(ArgumentNames) /\ t.vars[j] = ArgumentNames[j]
            /\ \A i \in 1 .. Len(t.subs) : \A r \in 1 .. Len(t.subs[i].terms) :
                 \A k \in 1 .. Len(t.subs[i].terms[r]) :
                   /\ Named(o, t, o.maps[i].results[r][k], t.subs[i].terms[r][k].tok)
                   /\ ~t.subs[i].terms[r][k].sym
<1> DEFINE t == Indirect!Printed(o)
           all == Indirect!AllVariables(o)
           args == SubSeq(ArgumentNames, 1, o.args)
           c == Len(o.captured)
<1>1. /\ Len(all) = c + o.args /\ o.args \in Nat /\ c \in Nat
      /\ \A p \in 1 .. c : o.captured[p] \in Values /\ all[p] = NameOf[o.captured[p]]
      /\ Len(args) = o.args
      /\ \A j \in 1 .. o.args :
           /\ j \in 1 .. Len(ArgumentNames) /\ args[j] = ArgumentNames[j]
           /\ all[c + j] = ArgumentNames[j]
      /\ \A p \in 1 .. Len(all) : \/ p \in 1 .. c
                                  \/ p - c \in 1 .. o.args /\ p = c + (p - c)
  BY VariableFacts
<1>2. /\ t.vars = args /\ Len(t.subs) = Len(o.kinds)
      /\ \A i \in 1 .. Len(o.kinds) :
           /\ Len(t.subs[i].terms) = Len(o.maps[i].results)
           /\ \A r \in 1 .. Len(o.maps[i].results) :
                /\ Len(t.subs[i].terms[r]) = Len(o.maps[i].results[r])
                /\ \A k \in 1 .. Len(o.maps[i].results[r]) :
                     /\ o.maps[i].results[r][k] \in 1 .. Len(all)
                     /\ t.subs[i].terms[r][k].tok = all[o.maps[i].results[r][k]]
                     /\ ~t.subs[i].terms[r][k].sym
  BY IndirectPrintedFacts, Zenon
<1> HIDE DEF t, all, args
<1>3. ASSUME NEW i \in 1 .. Len(t.subs), NEW r \in 1 .. Len(t.subs[i].terms),
             NEW k \in 1 .. Len(t.subs[i].terms[r])
      PROVE  /\ Named(o, t, o.maps[i].results[r][k], t.subs[i].terms[r][k].tok)
             /\ ~t.subs[i].terms[r][k].sym
  <2> DEFINE p == o.maps[i].results[r][k]
             tok == t.subs[i].terms[r][k].tok
  <2>1. i \in 1 .. Len(o.kinds) /\ r \in 1 .. Len(o.maps[i].results)
    BY <1>2
  <2>2. k \in 1 .. Len(o.maps[i].results[r])
    BY <1>2, <2>1
  <2>3. p \in 1 .. Len(all) /\ tok = all[p] /\ ~t.subs[i].terms[r][k].sym
    BY <1>2, <2>1, <2>2, Zenon
  <2> HIDE DEF p, tok, c
  <2>4. CASE p \in 1 .. c
    <3>1. o.captured[p] \in Values /\ tok = NameOf[o.captured[p]]
      BY <1>1, <2>3, <2>4
    <3>2. Named(o, t, p, tok)
      BY <2>4, <3>1 DEF Named, c
    <3> QED
      BY <2>3, <3>2 DEF p, tok
  <2>5. CASE p - c \in 1 .. o.args /\ p = c + (p - c)
    <3> DEFINE j == p - c
    <3>1. j \in 1 .. Len(ArgumentNames) /\ args[j] = ArgumentNames[j] /\ all[c + j] = ArgumentNames[j]
      BY <1>1, <2>5
    <3>2. p = c + j /\ j \in 1 .. Len(t.vars)
      BY <1>1, <1>2, <2>5
    <3>3. ~(p <= c)
      BY <1>1, <2>3, <2>5
    <3>4. tok = ArgumentNames[j] /\ tok = t.vars[j]
      <4> HIDE DEF j
      <4> QED
        BY <1>2, <2>3, <3>1, <3>2
    <3>5. Named(o, t, p, tok)
      BY <3>1, <3>2, <3>3, <3>4, Zenon DEF Named, c
    <3> QED
      BY <2>3, <3>5 DEF p, tok
  <2> QED
    BY <1>1, <2>3, <2>4, <2>5
<1>4. Len(t.vars) = o.args
      /\ \A j \in 1 .. o.args : j \in 1 .. Len(ArgumentNames) /\ t.vars[j] = ArgumentNames[j]
  BY <1>1, <1>2
<1> QED
  BY <1>3, <1>4, Zenon DEF t

\* The memrefs that a printed text has are those of its operation, in their order.
LEMMA PrintedMemrefs ==
  ASSUME NEW o \in Indirect!Operation, Indirect!Verified(o), Indirect!PrintInBounds(o)
  PROVE  Indirect!Memrefs(Indirect!Printed(o)) = o.memrefs
<1> DEFINE t == Indirect!Printed(o)
           n == Len(o.kinds)
           I == Subscripted(t)
           ms == Indirect!Memrefs(t)
<1>1. /\ n \in Nat /\ DOMAIN o.kinds = 1 .. n
      /\ DOMAIN o.memrefs = 1 .. Len(o.memrefs) /\ Len(o.memrefs) \in Nat
      /\ Cardinality(Indirect!Indirects(o.kinds)) = Len(o.memrefs)
  BY VerifiedFacts
<1>2. /\ t \in Indirect!Text /\ Len(t.subs) = n
      /\ \A i \in 1 .. n :
           t.subs[i].memref = IF o.kinds[i]
                              THEN <<o.memrefs[Indirect!MemrefIndex(o, i)]>> ELSE <<>>
  BY IndirectPrintedFacts, Zenon
<1> HIDE DEF t, ms
<1>3. \A i \in 1 .. n : /\ o.kinds[i] <=> t.subs[i].memref # <<>>
                        /\ o.kinds[i] => t.subs[i].memref[1] = o.memrefs[Indirect!MemrefIndex(o, i)]
  <2> TAKE i \in 1 .. n
  <2> DEFINE m == o.memrefs[Indirect!MemrefIndex(o, i)]
  <2>1. t.subs[i].memref = IF o.kinds[i] THEN <<m>> ELSE <<>>
    BY <1>2
  <2> HIDE DEF m
  <2>2. <<m>> # <<>> /\ <<m>>[1] = m
    OBVIOUS
  <2> QED
    BY <2>1, <2>2 DEF m
<1>4. I = Indirect!Indirects(o.kinds) /\ I \subseteq 1 .. n
  BY <1>1, <1>2, <1>3 DEF Subscripted, Indirect!Indirects
<1>5. \A i : Indirect!MemrefIndex(o, i) = Cardinality({j \in I : j <= i})
  BY <1>4 DEF Indirect!MemrefIndex, Indirect!Cardinality, Cardinality
<1>6. /\ ms \in Seq(Views) /\ Len(ms) = Cardinality(I)
      /\ \A i \in I : ms[Cardinality({j \in I : j <= i})] = t.subs[i].memref[1]
  BY <1>2, MemrefFacts DEF ms
<1>7. I \subseteq Int /\ IsFiniteSet(I)
  <2> HIDE DEF I
  <2>1. IsFiniteSet(1 .. n)
    BY <1>1, FS_Interval
  <2> QED
    BY <1>1, <1>4, <2>1, FS_Subset
<1> HIDE DEF I
<1>8. \A m \in 1 .. Len(o.memrefs) : ms[m] = o.memrefs[m]
  <2> TAKE m \in 1 .. Len(o.memrefs)
  <2>1. PICK i \in I : Cardinality({j \in I : j <= i}) = m
    <3>1. Nth(I, m) \in I /\ Cardinality({j \in I : j <= Nth(I, m)}) = m
      BY <1>1, <1>4, <1>7, NthFacts
    <3> QED
      BY <3>1
  <2>2. ms[m] = t.subs[i].memref[1] /\ Indirect!MemrefIndex(o, i) = m
    BY <1>5, <1>6, <2>1
  <2>3. i \in 1 .. n /\ o.kinds[i]
    BY <1>4, <1>1, <2>1 DEF Indirect!Indirects
  <2> QED
    BY <1>3, <2>2, <2>3
<1>9. ms = o.memrefs
  <2>1. Len(ms) = Len(o.memrefs) /\ o.memrefs \in Seq(Views)
    BY <1>1, <1>4, <1>6, IndirectSets
  <2> QED
    BY <1>6, <1>8, <2>1, SeqEqual
<1> QED
  BY <1>9 DEF ms, t
\* What a printed text captures has the name of a value: the arguments are not captured.
LEMMA PrintedCaptures ==
  ASSUME SingleResults, NEW o \in Indirect!Operation, Indirect!Verified(o),
         Indirect!PrintInBounds(o)
  PROVE  LET t == Indirect!Printed(o)
         IN \A k \in 1 .. Len(Names(t)) : Resolvable(Captured(t)[k])
<1> DEFINE t == Indirect!Printed(o)
<1>1. t \in Indirect!Text
  BY IndirectPrintedFacts
<1>2. \A i \in 1 .. Len(t.subs) : \A r \in 1 .. Len(t.subs[i].terms) :
        \A k \in 1 .. Len(t.subs[i].terms[r]) :
          Named(o, t, o.maps[i].results[r][k], t.subs[i].terms[r][k].tok)
  BY PrintedNames, Zenon
<1> HIDE DEF t
<1>3. /\ \A k \in 1 .. Len(Names(t)) :
           /\ Captured(t)[k].id = Names(t)[k]
           /\ \A j \in 1 .. Len(t.vars) : t.vars[j].id # Names(t)[k]
           /\ \E i \in 1 .. Len(t.subs) : \E j \in 1 .. Len(Reads(t)[i].operands) :
                Captured(t)[k] = Reads(t)[i].operands[j]
  BY <1>1, CapturedFacts
<1>4. \A i \in 1 .. Len(t.subs) : t.subs[i].terms \in AffineTerms
                                  /\ Reads(t)[i] = ReadMap(t.subs[i].terms)
  BY <1>1, ReadsTyped
<1>5. ASSUME NEW k \in 1 .. Len(Names(t)) PROVE Resolvable(Captured(t)[k])
  <2>1. PICK i \in 1 .. Len(t.subs) : \E j \in 1 .. Len(Reads(t)[i].operands) :
          Captured(t)[k] = Reads(t)[i].operands[j]
    BY <1>3
  <2>2. PICK j \in 1 .. Len(ReadMap(t.subs[i].terms).operands) :
          Captured(t)[k] = ReadMap(t.subs[i].terms).operands[j]
    BY <1>4, <2>1
  <2>3. \E r \in 1 .. Len(t.subs[i].terms) : \E m \in 1 .. Len(t.subs[i].terms[r]) :
          ReadMap(t.subs[i].terms).operands[j] = t.subs[i].terms[r][m].tok
    BY <1>4, ReadMapFacts
  <2>4. PICK r \in 1 .. Len(t.subs[i].terms) : \E m \in 1 .. Len(t.subs[i].terms[r]) :
          Captured(t)[k] = t.subs[i].terms[r][m].tok
    BY <2>2, <2>3
  <2>5. PICK m \in 1 .. Len(t.subs[i].terms[r]) : Captured(t)[k] = t.subs[i].terms[r][m].tok
    BY <2>4
  <2> DEFINE p == o.maps[i].results[r][m]
             tok == Captured(t)[k]
  <2>6. Named(o, t, p, tok)
    BY <1>2, <2>5
  <2>7. \A j1 \in 1 .. Len(t.vars) : t.vars[j1].id # tok.id
    BY <1>3
  <2> HIDE DEF p, tok
  <2>8. o.captured[p] \in Values /\ tok = NameOf[o.captured[p]]
    BY <2>6, <2>7 DEF Named
  <2>9. Resolvable(tok)
    BY <2>8, ResolveFacts
  <2> QED
    BY <2>9 DEF tok
<1> QED
  BY <1>5, Zenon DEF t

\* Every subscript of a printed text can be moved to the unified operands.
LEMMA PrintedCanonicalizable ==
  ASSUME SingleResults, NEW o \in Indirect!Operation, Indirect!Verified(o),
         Indirect!PrintInBounds(o)
  PROVE  LET t == Indirect!Printed(o)
         IN \A i \in 1 .. Len(t.subs) :
              /\ ReadableMap(t.subs[i].terms)
              /\ Indirect!Canonicalizable(Reads(t)[i], Names(t) \o IdsOf(t.vars))
<1> DEFINE t == Indirect!Printed(o)
           unified == Names(t) \o IdsOf(t.vars)
<1>1. t \in Indirect!Text /\ t.kind = "indirect" /\ Plain(t)
  BY IndirectPrintedFacts, PrintedPlain
<1>2. \A i \in 1 .. Len(t.subs) : \A r \in 1 .. Len(t.subs[i].terms) :
        \A k \in 1 .. Len(t.subs[i].terms[r]) : ~t.subs[i].terms[r][k].sym
  BY PrintedNames, Zenon
<1> HIDE DEF t
<1>3. /\ Names(t) \in Seq(STRING)
      /\ \A i \in 1 .. Len(t.subs) : \A j \in 1 .. Len(Reads(t)[i].operands) :
           \/ \E k \in 1 .. Len(t.vars) : t.vars[k].id = Reads(t)[i].operands[j].id
           \/ \E k \in 1 .. Len(Names(t)) : Names(t)[k] = Reads(t)[i].operands[j].id
  BY <1>1, CapturedFacts
<1>4. /\ IdsOf(t.vars) \in Seq(STRING) /\ Len(IdsOf(t.vars)) = Len(t.vars)
      /\ \A j \in 1 .. Len(t.vars) : IdsOf(t.vars)[j] = t.vars[j].id
      /\ \A i \in 1 .. Len(t.subs) : /\ t.subs[i].terms \in AffineTerms
                                     /\ Reads(t)[i] = ReadMap(t.subs[i].terms)
                                     /\ Reads(t)[i].operands \in Seq(Token)
  BY <1>1, ReadsTyped
<1>5. /\ \A k \in 1 .. Len(Names(t)) : Names(t)[k] \in ToSet(unified)
      /\ \A k \in 1 .. Len(t.vars) : t.vars[k].id \in ToSet(unified)
  <2> DEFINE u == Names(t)
             v == IdsOf(t.vars)
  <2>1. u \in Seq(STRING) /\ v \in Seq(STRING)
    BY <1>3, <1>4
  <2> HIDE DEF u, v
  <2>2. DOMAIN (u \o v) = 1 .. Len(u) + Len(v) /\ Len(u) \in Nat /\ Len(v) \in Nat
    <3>1. u \o v \in Seq(STRING) /\ Len(u \o v) = Len(u) + Len(v)
      BY <2>1, ConcatProperties
    <3> QED
      BY <2>1, <3>1, LenProperties
  <2>3. ASSUME NEW k \in 1 .. Len(u) PROVE u[k] \in ToSet(u \o v)
    <3>1. k \in DOMAIN (u \o v) /\ (u \o v)[k] = u[k]
      BY <2>1, <2>2, ConcatProperties
    <3> QED
      BY <3>1 DEF ToSet
  <2>4. ASSUME NEW k \in 1 .. Len(v) PROVE v[k] \in ToSet(u \o v)
    <3>1. Len(u) + k \in DOMAIN (u \o v) /\ (u \o v)[Len(u) + k] = v[k]
      BY <2>1, <2>2, ConcatProperties
    <3> QED
      BY <3>1 DEF ToSet
  <2>5. \A k \in 1 .. Len(t.vars) : t.vars[k].id = v[k] /\ k \in 1 .. Len(v)
    BY <1>4 DEF v
  <2> QED
    BY <2>3, <2>4, <2>5, Zenon DEF u, v
<1>6. ASSUME NEW i \in 1 .. Len(t.subs)
      PROVE  ReadableMap(t.subs[i].terms) /\ Indirect!Canonicalizable(Reads(t)[i], unified)
  <2> DEFINE read == Reads(t)[i]
             terms == t.subs[i].terms
  <2>1. terms \in AffineTerms /\ read = ReadMap(terms) /\ read.operands \in Seq(Token)
    BY <1>4
  <2>2. \A r \in 1 .. Len(terms) : \A k \in 1 .. Len(terms[r]) :
          terms[r][k].tok.num = 0 /\ ~terms[r][k].sym
    BY <1>1, <1>2 DEF Plain
  <2> HIDE DEF terms, unified
  <2>3. ReadableMap(terms)
    BY <2>1, <2>2, PlainReads
  <2>4. read.map.syms = 0
    BY <2>1, <2>2, ReadMapFacts, SMTT(30)
  <2>5. \A j \in 1 .. Len(read.operands) : read.operands[j].id \in ToSet(unified)
    BY <1>3, <1>5
  <2> HIDE DEF read
  <2>6. DOMAIN read.operands = 1 .. Len(read.operands)
    BY <2>1, LenProperties
  <2>7. \A x \in Indirect!ToSet(Indirect!Ids(read.operands)) : x \in Indirect!ToSet(unified)
    BY <2>5, <2>6 DEF Indirect!ToSet, ToSet, Indirect!Ids
  <2> QED
    BY <2>3, <2>4, <2>7 DEF Indirect!Canonicalizable, read, terms
<1> QED
  BY <1>6, Zenon DEF t, unified

LEMMA IndirectReparses ==
  ASSUME SingleResults, NEW o \in Indirect!Operation, Indirect!Verified(o),
         Indirect!PrintInBounds(o)
  PROVE  Indirect!Parses(Indirect!Printed(o))
<1> DEFINE t == Indirect!Printed(o)
           toks == [k \in DOMAIN o.symbols |-> NameOf[o.symbols[k]]]
           ms == Indirect!Memrefs(t)
           m == Len(o.memrefs)
           ranks == [k \in 1 .. m |-> RankOf[o.memrefs[k]]]
<1>1. /\ t \in Indirect!Text /\ t.base = o.base /\ t.set = o.set /\ t.symbols = toks
      /\ t.types = <<RankOf[o.base]>> \o ranks
  BY IndirectPrintedFacts, Zenon
<1>2. \A i \in 1 .. Len(t.subs) :
        /\ ReadableMap(t.subs[i].terms)
        /\ Indirect!Canonicalizable(Reads(t)[i], Names(t) \o IdsOf(t.vars))
  BY PrintedCanonicalizable, Zenon
<1>3. \A k \in 1 .. Len(Names(t)) : Resolvable(Captured(t)[k])
  BY PrintedCaptures, Zenon
<1>4. ms = o.memrefs
  BY PrintedMemrefs
<1>5. /\ o.symbols \in Seq(Values) /\ o.base \in Views /\ o.memrefs \in Seq(Views)
      /\ o.set \in AtMostOne(IntegerSet)
  BY IndirectSets
<1>6. /\ Len(o.set) = 1 /\ o.set[1].syms = Len(o.symbols)
  BY DEF Indirect!Verified
<1>7. /\ Len(toks) = Len(o.symbols) /\ DOMAIN toks = 1 .. Len(o.symbols)
      /\ \A k \in 1 .. Len(o.symbols) : o.symbols[k] \in Values /\ toks[k] = NameOf[o.symbols[k]]
  BY <1>5, NamesTyped
<1> HIDE DEF t, toks, ms, ranks
<1>8. DOMAIN t.subs = 1 .. Len(t.subs) /\ DOMAIN Reads(t) = 1 .. Len(t.subs)
  BY <1>1, ReadsTyped
<1>9. DOMAIN Captured(t) = 1 .. Len(Names(t))
  BY <1>1, CapturedFacts, LenProperties
<1>10. Len(t.types) = Len(ms) + 1
       /\ t.types = [k \in DOMAIN t.types |-> RankOf[(<<t.base>> \o ms)[k]]]
  <2> DEFINE all == <<o.base>> \o ms
             R == Nat \cup {Unranked}
  <2>1. m \in Nat /\ \A k \in 1 .. m : o.memrefs[k] \in Views
    BY <1>5, LenProperties, ElementOfSeq
  <2>2. ranks \in Seq(R) /\ Len(ranks) = m /\ \A k \in 1 .. m : ranks[k] = RankOf[o.memrefs[k]]
    <3>1. ranks \in [1 .. m -> R] /\ \A k \in 1 .. m : ranks[k] = RankOf[o.memrefs[k]]
      BY <2>1, ViewsAssumption DEF ranks
    <3> HIDE DEF R
    <3> QED
      BY <2>1, <3>1, FunctionIsSeq
  <2>3. RankOf[o.base] \in R
    BY <1>5, ViewsAssumption
  <2> HIDE DEF R
  <2>4. /\ t.types \in Seq(R) /\ Len(t.types) = m + 1 /\ t.types[1] = RankOf[o.base]
        /\ \A k \in 1 .. m : t.types[k + 1] = ranks[k]
    BY <1>1, <2>1, <2>2, <2>3, SMT
  <2>5. /\ all[1] = o.base /\ \A k \in 1 .. m : all[k + 1] = o.memrefs[k]
    <3>1. ms \in Seq(Views) /\ Len(ms) = m
      BY <1>4, <1>5
    <3> QED
      BY <1>4, <1>5, <2>1, <3>1, SMT
  <2> HIDE DEF all, m
  <2>6. ASSUME NEW k \in 1 .. m + 1 PROVE t.types[k] = RankOf[all[k]]
    <3>1. CASE k = 1
      BY <3>1, <2>4, <2>5
    <3>2. CASE k # 1
      <4>1. k - 1 \in 1 .. m /\ k = (k - 1) + 1
        BY <3>2, <2>1
      <4>2. t.types[k] = ranks[k - 1] /\ all[k] = o.memrefs[k - 1]
        BY <4>1, <2>4, <2>5
      <4> QED
        BY <4>1, <4>2, <2>2
    <3> QED
      BY <3>1, <3>2
  <2>7. DOMAIN t.types = 1 .. m + 1 /\ t.types = [k \in DOMAIN t.types |-> t.types[k]]
    BY <2>4, LenProperties
  <2>8. t.types = [k \in DOMAIN t.types |-> RankOf[all[k]]]
    BY <2>6, <2>7
  <2> QED
    BY <1>1, <1>4, <2>4, <2>8 DEF all, m
<1>11. \A k \in DOMAIN t.symbols : Resolvable(t.symbols[k])
  BY <1>1, <1>7, ResolveFacts
<1>12. \A k \in DOMAIN t.set : t.set[k].syms = Len(t.symbols)
  <2>1. DOMAIN t.set = 1 .. 1
    BY <1>1, <1>5, <1>6, OptionalFacts
  <2> QED
    BY <1>1, <1>6, <1>7, <2>1
<1>13. Indirect!Parses(t)
  BY <1>2, <1>3, <1>8, <1>9, <1>10, <1>11, <1>12, IndirectUnfolds, Zenon DEF ms
<1> QED
  BY <1>13 DEF t
\* Where a printed text stands between two operations, both positions read one variable.
LEMMA SameVariable ==
  ASSUME NEW o, NEW q, NEW t, NEW p, NEW p2, NEW tok,
         Named(o, t, p, tok), ReadsAsWritten(q, t, p2, tok),
         Len(o.captured) \in Nat, p \in Nat,
         \A k \in 1 .. Len(q.captured) : q.captured[k] \in Values,
         \A j \in 1 .. Len(t.vars) : j \in 1 .. Len(ArgumentNames) /\ t.vars[j] = ArgumentNames[j]
  PROVE  Indirect!Variable(q, p2) = Indirect!Variable(o, p)
<1>1. CASE p \in 1 .. Len(o.captured) /\ o.captured[p] \in Values /\ tok = NameOf[o.captured[p]]
  <2>1. p2 \in 1 .. Len(q.captured) /\ p2 <= Len(q.captured) /\ NameOf[q.captured[p2]] = tok
    <3>1. \A j \in 1 .. Len(t.vars) : t.vars[j].id # tok.id
      BY <1>1, ArgumentNamesApart, SMTT(30)
    <3> QED
      BY <3>1, Zenon DEF ReadsAsWritten
  <2>2. q.captured[p2] = o.captured[p]
    BY <1>1, <2>1, ResolveFacts
  <2>3. p <= Len(o.captured)
    BY <1>1
  <2> QED
    BY <2>1, <2>2, <2>3, Zenon DEF Indirect!Variable
<1>2. CASE /\ p - Len(o.captured) \in 1 .. Len(t.vars) /\ ~(p <= Len(o.captured))
           /\ p - Len(o.captured) \in 1 .. Len(ArgumentNames)
           /\ tok = ArgumentNames[p - Len(o.captured)] /\ tok = t.vars[p - Len(o.captured)]
  <2> DEFINE j == p - Len(o.captured)
             j2 == p2 - Len(q.captured)
  <2>1. j \in 1 .. Len(ArgumentNames) /\ tok = ArgumentNames[j] /\ ~(p <= Len(o.captured))
    BY <1>2
  <2> HIDE DEF j
  <2>2. \A v \in Values : NameOf[v] # tok
    BY <2>1, ArgumentNamesApart
  <2>3. j2 \in 1 .. Len(t.vars) /\ ~(p2 <= Len(q.captured)) /\ t.vars[j2].id = tok.id
    BY <2>2, Zenon DEF ReadsAsWritten
  <2> HIDE DEF j2
  <2>4. j2 \in 1 .. Len(ArgumentNames) /\ ArgumentNames[j2].id = ArgumentNames[j].id
    BY <2>1, <2>3
  <2>5. j2 = j
    BY <2>1, <2>4, ArgumentNamesApart
  <2> QED
    BY <2>1, <2>3, <2>5, Zenon DEF Indirect!Variable, j, j2
<1> QED
  BY <1>1, <1>2 DEF Named

\* An indirect tile's operation is read back with its captured variables in another order,
\* every subscript map over another domain, and the same meaning.
LEMMA IndirectRoundTrip ==
  ASSUME SingleResults, NEW o \in Indirect!Operation, Indirect!Verified(o),
         Indirect!PrintInBounds(o)
  PROVE  /\ Indirect!Verified(Indirect!Parsed(Indirect!Printed(o)))
         /\ Indirect!Meaning(Indirect!Parsed(Indirect!Printed(o))) = Indirect!Meaning(o)
<1> DEFINE t == Indirect!Printed(o)
           q == Indirect!Parsed(t)
           n == Len(o.kinds)
<1>1. /\ t \in Indirect!Text /\ t.base = o.base /\ t.set = o.set /\ t.order = o.order
      /\ t.rank = o.rank /\ t.symbols = [k \in DOMAIN o.symbols |-> NameOf[o.symbols[k]]]
      /\ Len(t.subs) = n
      /\ \A i \in 1 .. n :
           /\ t.subs[i].memref = IF o.kinds[i]
                                 THEN <<o.memrefs[Indirect!MemrefIndex(o, i)]>> ELSE <<>>
           /\ Len(t.subs[i].terms) = Len(o.maps[i].results)
           /\ \A r \in 1 .. Len(o.maps[i].results) :
                Len(t.subs[i].terms[r]) = Len(o.maps[i].results[r])
  BY IndirectPrintedFacts, Zenon
<1>2. /\ Len(t.vars) = o.args
      /\ \A j \in 1 .. o.args : j \in 1 .. Len(ArgumentNames) /\ t.vars[j] = ArgumentNames[j]
      /\ \A i \in 1 .. Len(t.subs) : \A r \in 1 .. Len(t.subs[i].terms) :
           \A k \in 1 .. Len(t.subs[i].terms[r]) :
             Named(o, t, o.maps[i].results[r][k], t.subs[i].terms[r][k].tok)
  BY PrintedNames, Zenon
<1>3. Indirect!Parses(t) /\ Plain(t) /\ Indirect!Memrefs(t) = o.memrefs
  BY IndirectReparses, PrintedPlain, PrintedMemrefs
<1> HIDE DEF t
<1>4. WellRead(q, t)
  BY <1>1, <1>3, ParsedReads
<1>5. /\ q \in Indirect!Operation /\ q.args = Len(t.vars) /\ q.base = t.base
      /\ q.memrefs = Indirect!Memrefs(t) /\ q.set = t.set /\ q.order = t.order /\ q.rank = t.rank
      /\ Len(q.kinds) = Len(t.subs) /\ DOMAIN q.kinds = 1 .. Len(t.subs)
      /\ \A i \in 1 .. Len(t.subs) : q.kinds[i] <=> t.subs[i].memref # <<>>
      /\ DOMAIN q.maps = 1 .. Len(t.subs)
      /\ Len(q.symbols) = Len(t.symbols) /\ DOMAIN q.symbols = 1 .. Len(t.symbols)
      /\ \A k \in 1 .. Len(t.symbols) : q.symbols[k] \in Values /\ NameOf[q.symbols[k]] = t.symbols[k]
  BY <1>1, <1>3, IndirectParsedFacts
<1>6. ~Indirect!Verified(q) =>
        \/ q.set = <<>> \/ q.order = <<>>
        \/ /\ q.set # <<>> /\ q.order # <<>>
           /\ \/ q.set[1].dims # q.order[1].ins \/ q.order[1].ins # q.order[1].outs
              \/ q.args # q.set[1].dims
              \/ q.rank # q.set[1].dims
              \/ Len(q.kinds) # RankOf[q.base]
              \/ \E i \in DOMAIN q.kinds : Len(q.maps[i].results) #
                   IF q.kinds[i] THEN Indirect!ResultRank(t.subs[i].memref[1]) ELSE 1
  BY <1>1, <1>3, IndirectRejected
<1> HIDE DEF q
<1>7. /\ n \in Nat /\ DOMAIN o.kinds = 1 .. n /\ \A i \in 1 .. n : o.kinds[i] \in BOOLEAN
      /\ DOMAIN o.maps = 1 .. n /\ \A i \in 1 .. n : o.maps[i] \in AffineMap
  BY VerifiedFacts
<1>8. \A i \in 1 .. n : /\ o.kinds[i] <=> t.subs[i].memref # <<>>
                        /\ o.kinds[i] => t.subs[i].memref[1] = o.memrefs[Indirect!MemrefIndex(o, i)]
  <2> TAKE i \in 1 .. n
  <2> DEFINE m == o.memrefs[Indirect!MemrefIndex(o, i)]
  <2>1. t.subs[i].memref = IF o.kinds[i] THEN <<m>> ELSE <<>>
    BY <1>1
  <2> HIDE DEF m
  <2>2. <<m>> # <<>> /\ <<m>>[1] = m
    OBVIOUS
  <2> QED
    BY <2>1, <2>2 DEF m
<1> HIDE DEF n
<1>9. q.kinds = o.kinds
  <2>1. q.kinds \in Seq(BOOLEAN) /\ o.kinds \in Seq(BOOLEAN) /\ Len(q.kinds) = Len(o.kinds)
    BY <1>1, <1>5, IndirectSets DEF n
  <2>2. \A i \in 1 .. n : q.kinds[i] \in BOOLEAN /\ o.kinds[i] \in BOOLEAN
    BY <2>1, ElementOfSeq DEF n
  <2>3. \A i \in 1 .. n : q.kinds[i] <=> o.kinds[i]
    BY <1>1, <1>5, <1>8
  <2>4. \A i \in 1 .. Len(q.kinds) : q.kinds[i] = o.kinds[i]
    BY <2>1, <2>2, <2>3, Zenon DEF n
  <2> QED
    BY <2>1, <2>4, SeqEqual
<1>10. /\ Len(o.set) = 1 /\ Len(o.order) = 1
       /\ o.set[1].dims = o.order[1].ins /\ o.order[1].ins = o.order[1].outs
       /\ o.args = o.set[1].dims /\ n = RankOf[o.base] /\ o.rank = o.set[1].dims
       /\ \A i \in 1 .. n : Len(o.maps[i].results) =
            IF o.kinds[i] THEN Indirect!ResultRank(o.memrefs[Indirect!MemrefIndex(o, i)]) ELSE 1
  BY <1>7 DEF Indirect!Verified, n
<1>11. \A i \in 1 .. n :
         /\ Len(q.maps[i].results) = Len(t.subs[i].terms)
         /\ DOMAIN q.maps[i].results = 1 .. Len(t.subs[i].terms)
         /\ \A r \in 1 .. Len(t.subs[i].terms) :
              /\ DOMAIN q.maps[i].results[r] = 1 .. Len(t.subs[i].terms[r])
              /\ \A k \in 1 .. Len(t.subs[i].terms[r]) :
                   ReadsAsWritten(q, t, q.maps[i].results[r][k], t.subs[i].terms[r][k].tok)
  <2> TAKE i \in 1 .. n
  <2>1. i \in 1 .. Len(t.subs)
    BY <1>1
  <2> QED
    BY <2>1, <1>4, Zenon DEF WellRead
<1>12. Indirect!Verified(q)
  <2>1. q.set # <<>> /\ q.order # <<>>
    <3>1. Len(<<>>) = 0
      OBVIOUS
    <3> QED
      BY <1>1, <1>5, <1>10, <3>1
  <2>2. \A i \in 1 .. n : Len(q.maps[i].results) =
          IF q.kinds[i] THEN Indirect!ResultRank(t.subs[i].memref[1]) ELSE 1
    <3> TAKE i \in 1 .. n
    <3>1. Len(q.maps[i].results) = Len(o.maps[i].results)
      BY <1>1, <1>11
    <3>2. o.kinds[i] => t.subs[i].memref[1] = o.memrefs[Indirect!MemrefIndex(o, i)]
      BY <1>8
    <3>3. Len(o.maps[i].results) =
            IF o.kinds[i] THEN Indirect!ResultRank(o.memrefs[Indirect!MemrefIndex(o, i)]) ELSE 1
      BY <1>10
    <3> QED
      BY <1>9, <3>1, <3>2, <3>3, Zenon
  <2>3. /\ q.set[1].dims = q.order[1].ins /\ q.order[1].ins = q.order[1].outs
        /\ q.args = q.set[1].dims /\ q.rank = q.set[1].dims /\ Len(q.kinds) = RankOf[q.base]
    BY <1>1, <1>2, <1>5, <1>10
  <2>4. DOMAIN q.kinds = 1 .. n
    BY <1>1, <1>5
  <2> QED
    BY <1>6, <2>1, <2>2, <2>3, <2>4, Zenon
<1>13. q.symbols = o.symbols
  <2>1. q.symbols \in Seq(Values) /\ o.symbols \in Seq(Values)
    BY <1>5, IndirectSets
  <2>2. /\ Len(t.symbols) = Len(o.symbols)
        /\ \A k \in 1 .. Len(o.symbols) : o.symbols[k] \in Values /\ t.symbols[k] = NameOf[o.symbols[k]]
    BY <1>1, <2>1, NamesTyped
  <2>3. \A k \in 1 .. Len(q.symbols) : q.symbols[k] = o.symbols[k]
    <3> TAKE k \in 1 .. Len(q.symbols)
    <3>1. q.symbols[k] \in Values /\ o.symbols[k] \in Values
          /\ NameOf[q.symbols[k]] = NameOf[o.symbols[k]]
      BY <1>5, <2>2
    <3> QED
      BY <3>1, ResolveFacts
  <2> QED
    BY <1>5, <2>1, <2>2, <2>3, SeqEqual
<1> DEFINE reads(x) == [i \in DOMAIN x.maps |-> [r \in DOMAIN x.maps[i].results |->
                         [k \in DOMAIN x.maps[i].results[r] |->
                           Indirect!Variable(x, x.maps[i].results[r][k])]]]
<1>14. reads(q) = reads(o)
  <2>1. ASSUME NEW i \in 1 .. n
        PROVE  /\ DOMAIN o.maps[i].results = 1 .. Len(t.subs[i].terms)
               /\ \A r \in 1 .. Len(t.subs[i].terms) :
                    /\ DOMAIN o.maps[i].results[r] = 1 .. Len(t.subs[i].terms[r])
                    /\ \A k \in 1 .. Len(t.subs[i].terms[r]) : o.maps[i].results[r][k] \in Nat
    <3>1. o.maps[i].results \in Seq(Seq(Nat)) /\ Len(o.maps[i].results) = Len(t.subs[i].terms)
      BY <1>1, <1>7 DEF AffineMap
    <3>2. DOMAIN o.maps[i].results = 1 .. Len(t.subs[i].terms)
      BY <3>1, LenProperties
    <3>3. ASSUME NEW r \in 1 .. Len(t.subs[i].terms)
          PROVE  /\ DOMAIN o.maps[i].results[r] = 1 .. Len(t.subs[i].terms[r])
                 /\ \A k \in 1 .. Len(t.subs[i].terms[r]) : o.maps[i].results[r][k] \in Nat
      <4>1. o.maps[i].results[r] \in Seq(Nat)
            /\ Len(o.maps[i].results[r]) = Len(t.subs[i].terms[r])
        BY <1>1, <3>1, ElementOfSeq
      <4> QED
        BY <4>1, LenProperties, ElementOfSeq
    <3> QED
      BY <3>2, <3>3
  <2>2. /\ Len(o.captured) \in Nat
        /\ \A k \in 1 .. Len(q.captured) : q.captured[k] \in Values
        /\ \A j \in 1 .. Len(t.vars) : j \in 1 .. Len(ArgumentNames) /\ t.vars[j] = ArgumentNames[j]
    BY <1>2, <1>5, VariableFacts
  <2>3. ASSUME NEW i \in 1 .. n, NEW r \in 1 .. Len(t.subs[i].terms),
               NEW k \in 1 .. Len(t.subs[i].terms[r])
        PROVE  Indirect!Variable(q, q.maps[i].results[r][k])
                 = Indirect!Variable(o, o.maps[i].results[r][k])
    <3>1. Named(o, t, o.maps[i].results[r][k], t.subs[i].terms[r][k].tok)
      BY <1>1, <1>2
    <3>2. ReadsAsWritten(q, t, q.maps[i].results[r][k], t.subs[i].terms[r][k].tok)
      BY <1>11, Zenon
    <3>3. o.maps[i].results[r][k] \in Nat
      BY <2>1
    <3> QED
      BY <2>2, <3>1, <3>2, <3>3, SameVariable, SMTT(30)
  <2>4. DOMAIN q.maps = 1 .. n /\ DOMAIN o.maps = 1 .. n
    BY <1>1, <1>5, <1>7
  <2> DEFINE At(x, i, r) == [k \in 1 .. Len(t.subs[i].terms[r]) |->
                              Indirect!Variable(x, x.maps[i].results[r][k])]
  <2>5. reads(q) = [i \in 1 .. n |-> [r \in 1 .. Len(t.subs[i].terms) |-> At(q, i, r)]]
    BY <1>11, <2>4
  <2>6. reads(o) = [i \in 1 .. n |-> [r \in 1 .. Len(t.subs[i].terms) |-> At(o, i, r)]]
    BY <2>1, <2>4
  <2>7. \A i \in 1 .. n : \A r \in 1 .. Len(t.subs[i].terms) : At(q, i, r) = At(o, i, r)
    BY <2>3
  <2> HIDE DEF At, reads
  <2> QED
    BY <2>5, <2>6, <2>7
<1> HIDE DEF reads
<1>15. Indirect!Meaning(q) = Indirect!Meaning(o)
  <2>1. \A x : Indirect!Meaning(x) =
          [args |-> x.args, base |-> x.base, kinds |-> x.kinds, memrefs |-> x.memrefs,
           reads |-> reads(x), symbols |-> x.symbols, set |-> x.set, order |-> x.order,
           rank |-> x.rank]
    BY Zenon DEF Indirect!Meaning, reads
  <2> QED
    BY <1>1, <1>2, <1>3, <1>5, <1>9, <1>13, <1>14, <2>1
<1> QED
  BY <1>12, <1>15 DEF q, t
LEMMA PrintedFrom ==
  ASSUME SingleResults, TypeOK, History, printed # <<>>
  PROVE  LET o == printed[1]
         IN /\ text # <<>> /\ text[1] = Printed(o)
            /\ Parses(text[1]) /\ Verified(Parsed(text[1]))
            /\ Meaning(Parsed(text[1])) = Meaning(o)
<1> DEFINE o == printed[1]
           t == Printed(o)
<1>1. o \in Operations /\ Verified(o) /\ PrintInBounds(o) /\ text = <<t>>
  BY OptionalFacts DEF TypeOK, History
<1>2. t \in Texts
  BY <1>1, PrintedTyped
<1> HIDE DEF o
<1>3. text # <<>> /\ text[1] = t
  <2> HIDE DEF t
  <2> QED
    BY <1>1
<1>4. CASE o.kind = "access" /\ o \in Access!Operation
  <2>1. t = Access!Printed(o) /\ Access!Verified(o)
    BY <1>1, <1>4 DEF Printed, Verified
  <2>2. Access!Parses(t) /\ Access!Verified(Access!Parsed(t))
        /\ Access!Meaning(Access!Parsed(t)) = Access!Meaning(o)
    BY <1>4, <2>1, AccessRoundTrip
  <2>3. t.kind = "access"
    BY <2>1 DEF Access!Printed
  <2> HIDE DEF t
  <2>4. Parses(t) /\ Parsed(t) = Access!Parsed(t)
    BY <2>2, <2>3 DEF Parses, Parsed
  <2>5. Parsed(t).kind = "access"
    BY <1>2, <2>3, <2>4, ParsedTyped
  <2> QED
    BY <1>3, <1>4, <2>2, <2>4, <2>5 DEF Verified, Meaning, o, t
<1>5. CASE o.kind = "indirect" /\ o.kind # "access" /\ o \in Indirect!Operation
  <2>1. t = Indirect!Printed(o) /\ Indirect!Verified(o) /\ Indirect!PrintInBounds(o)
    BY <1>1, <1>5 DEF Printed, Verified, PrintInBounds
  <2>2. Indirect!Parses(t) /\ Indirect!Verified(Indirect!Parsed(t))
        /\ Indirect!Meaning(Indirect!Parsed(t)) = Indirect!Meaning(o)
    BY <1>5, <2>1, IndirectReparses, IndirectRoundTrip
  <2>3. t.kind = "indirect" /\ t.kind # "access"
    BY <2>1 DEF Indirect!Printed
  <2> HIDE DEF t
  <2>4. Parses(t) /\ Parsed(t) = Indirect!Parsed(t)
    BY <2>2, <2>3 DEF Parses, Parsed
  <2>5. Parsed(t).kind = "indirect" /\ Parsed(t).kind # "access"
    BY <1>2, <2>3, <2>4, ParsedTyped
  <2> QED
    BY <1>3, <1>5, <2>2, <2>4, <2>5 DEF Verified, Meaning, o, t
<1> QED
  BY <1>1, <1>4, <1>5, Kinds DEF o

\* What was verified and printed is never rejected by the next tool, neither by its parser
\* nor by its verifier, if every value is the only result of its operation.
THEOREM PrintedTextIsRead ==
  ASSUME SingleResults
  PROVE  Spec => []PrintedTextReads
<1>1. TypeOK /\ History => PrintedTextReads
  <2> SUFFICES ASSUME TypeOK, History, printed # <<>> PROVE stage \notin {"error", "rejected"}
    BY DEF PrintedTextReads
  <2>1. text # <<>> /\ Parses(text[1]) /\ Verified(Parsed(text[1]))
    BY PrintedFrom
  <2>2. stage # "error"
    BY <2>1 DEF History
  <2>3. stage # "rejected"
    BY <2>1 DEF History, HasOperation
  <2> QED
    BY <2>2, <2>3
<1> QED
  BY <1>1, Invariant, PTL

\* The operation that the next tool holds means what the printed one meant.
THEOREM RoundTripKeepsMeaning ==
  ASSUME SingleResults
  PROVE  Spec => []RoundTrip
<1>1. TypeOK /\ History => RoundTrip
  <2> SUFFICES ASSUME TypeOK, History, JustParsed, printed # <<>>
               PROVE  Meaning(op) = Meaning(printed[1])
    BY DEF RoundTrip
  <2>1. op = Parsed(text[1])
    BY DEF JustParsed, History, HasOperation
  <2>2. Meaning(Parsed(text[1])) = Meaning(printed[1])
    BY PrintedFrom
  <2> QED
    BY <2>1, <2>2, Zenon
<1> QED
  BY <1>1, Invariant, PTL
=============================================================================
