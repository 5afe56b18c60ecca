--------------------------- MODULE Requests_proofs ---------------------------
(***************************************************************************)
(* Theorems about what the service computes of a request, for any input.   *)
(*                                                                         *)
(* Everything rests on one fact about orders of finitely many places: the  *)
(* places can be counted off.  A selection of a list, a sort and a best    *)
(* element are instances of it.  Where a definition is recursive, or a     *)
(* least element is needed, WFMin gives a least counterexample.            *)
(***************************************************************************)
EXTENDS Requests, SequenceTheorems, FiniteSetTheorems, FunctionTheorems,
        WellFoundedInduction, TLAPS

-----------------------------------------------------------------------------
(* Orders.                                                                 *)

(* A set of natural numbers has a least one.                               *)
LEMMA LeastNumber ==
    ASSUME NEW T \in SUBSET Nat, T # {}
    PROVE  \E n \in T : \A m \in T : n <= m
<1>1. \E x \in T : \A y \in T : ~ (<<y, x>> \in OpToRel(<, Nat))
  BY WFMin, NatLessThanWellFounded, Zenon
<1>2. \E x \in T : \A y \in T : ~ (y < x)
  BY <1>1, Zenon DEF OpToRel
<1>3. QED
  BY <1>2

(* before gives every place of D the places before it.                     *)
IsOrder(before, D) ==
    /\ IsFiniteSet(D)
    /\ before \in [D -> SUBSET D]
    /\ \A i \in D : i \notin before[i]
    /\ \A i, j, k \in D : i \in before[j] /\ j \in before[k] => i \in before[k]
    /\ \A i, j \in D : i # j => i \in before[j] \/ j \in before[i]

Count(before, D) == [i \in D |-> Cardinality(before[i]) + 1]

(* The n-th place.                                                         *)
Places(before, D) ==
    [n \in 1 .. Cardinality(D) |-> CHOOSE i \in D : Cardinality(before[i]) = n - 1]

(* The later a place in an order, the more places are before it.           *)
LEMMA CountGrows ==
    ASSUME NEW D, NEW before, IsOrder(before, D)
    PROVE  /\ Cardinality(D) \in Nat
           /\ Count(before, D) \in [D -> 1 .. Cardinality(D)]
           /\ \A i, j \in D : i \in before[j] => Count(before, D)[i] < Count(before, D)[j]
<1>1. \A i \in D : before[i] \in SUBSET D /\ IsFiniteSet(before[i]) /\ Cardinality(before[i]) \in Nat
  BY FS_Subset, FS_CardinalityType DEF IsOrder
<1>2. Cardinality(D) \in Nat
  BY FS_CardinalityType DEF IsOrder
<1>3. ASSUME NEW i \in D
      PROVE  Cardinality(before[i]) < Cardinality(D)
  <2>1. Cardinality(before[i]) <= Cardinality(D) /\ before[i] # D
    BY <1>1, FS_Subset DEF IsOrder
  <2>2. Cardinality(before[i]) # Cardinality(D)
    BY <1>1, <2>1, FS_Subset DEF IsOrder
  <2>3. QED
    BY <1>1, <1>2, <2>1, <2>2
<1>4. ASSUME NEW i \in D, NEW j \in D, i \in before[j]
      PROVE  Cardinality(before[i]) < Cardinality(before[j])
  <2>1. before[i] \in SUBSET before[j] /\ before[i] # before[j]
    BY <1>1, <1>4 DEF IsOrder
  <2>2. Cardinality(before[i]) <= Cardinality(before[j])
    BY <1>1, <2>1, FS_Subset
  <2>3. Cardinality(before[i]) # Cardinality(before[j])
    BY <1>1, <2>1, FS_Subset
  <2>4. QED
    BY <1>1, <2>2, <2>3
<1>5. Count(before, D) \in [D -> 1 .. Cardinality(D)]
  BY <1>1, <1>2, <1>3 DEF Count
<1>6. QED
  BY <1>1, <1>2, <1>4, <1>5 DEF Count

(* The places of an order are counted off without a gap or a repetition.   *)
LEMMA CountedOff ==
    ASSUME NEW D, NEW before, IsOrder(before, D)
    PROVE  LET at == Places(before, D)
           IN  /\ Cardinality(D) \in Nat
               /\ at \in [1 .. Cardinality(D) -> D]
               /\ \A i \in D : \E n \in 1 .. Cardinality(D) : at[n] = i
               /\ \A m, n \in 1 .. Cardinality(D) : m < n => at[m] \in before[at[n]]
               /\ \A m, n \in 1 .. Cardinality(D) : at[m] = at[n] => m = n
<1> DEFINE N == Cardinality(D)
           count == Count(before, D)
           at == Places(before, D)
<1>1. N \in Nat /\ count \in [D -> 1 .. N]
  BY CountGrows
<1>2. \A i, j \in D : i \in before[j] => count[i] < count[j]
  BY CountGrows
<1>3. \A i, j \in D : count[i] = count[j] => i = j
  BY <1>1, <1>2 DEF IsOrder
<1>4. \A n \in 1 .. N : \E i \in D : count[i] = n
  <2>1. count \in Injection(D, 1 .. N)
    BY <1>1, <1>3 DEF Injection, IsInjective
  <2>2. IsFiniteSet(1 .. N) /\ Cardinality(1 .. N) = N
    BY <1>1, FS_Interval
  <2>3. count \in Surjection(D, 1 .. N)
    BY <2>1, <2>2, FS_Injection
  <2>4. QED
    BY <2>3 DEF Surjection
<1>5. \A n \in 1 .. N : at[n] \in D /\ count[at[n]] = n
  <2>1. TAKE n \in 1 .. N
  <2>2. PICK i \in D : count[i] = n
    BY <1>4
  <2>3. \A j \in D : Cardinality(before[j]) = count[j] - 1
    BY CountGrows, FS_Subset, FS_CardinalityType DEF Count, IsOrder
  <2>4. \E j \in D : Cardinality(before[j]) = n - 1
    BY <2>2, <2>3
  <2>5. at[n] \in D /\ Cardinality(before[at[n]]) = n - 1
    BY <2>4 DEF Places
  <2>6. QED
    BY <1>1, <2>3, <2>5
<1>6. at \in [1 .. N -> D]
  BY <1>5 DEF Places
<1>7. \A i \in D : \E n \in 1 .. N : at[n] = i
  BY <1>1, <1>3, <1>5
<1>8. ASSUME NEW m \in 1 .. N, NEW n \in 1 .. N, m < n
      PROVE  at[m] \in before[at[n]]
  <2>1. at[m] # at[n] /\ ~(count[at[n]] < count[at[m]])
    BY <1>1, <1>5, <1>8
  <2>2. QED
    BY <1>2, <1>5, <2>1 DEF IsOrder
<1>9. QED
  BY <1>1, <1>5, <1>6, <1>7, <1>8, Zenon

(* The elements of a list, taken in an order of some of its places.        *)
LEMMA InOrderElements ==
    ASSUME NEW S, NEW s \in Seq(S), NEW D \in SUBSET DOMAIN s, NEW before, IsOrder(before, D)
    PROVE  LET t == InOrder(s, before)
               at == Places(before, D)
           IN  /\ t \in Seq(S) /\ Len(t) = Cardinality(D) /\ Cardinality(D) \in Nat
               /\ DOMAIN t = 1 .. Cardinality(D)
               /\ at \in [DOMAIN t -> D]
               /\ \A n \in DOMAIN t : t[n] = s[at[n]]
               /\ ToSet(t) = {s[i] : i \in D}
<1> DEFINE t == InOrder(s, before)
           at == Places(before, D)
           N == Cardinality(D)
<1>1. /\ N \in Nat
      /\ at \in [1 .. N -> D]
      /\ \A i \in D : \E n \in 1 .. N : at[n] = i
  BY CountedOff
<1>2. DOMAIN before = D
  BY DEF IsOrder
<1>3. t = [n \in 1 .. N |-> s[at[n]]]
  <2>1. t = [n \in 1 .. Cardinality(DOMAIN before) |->
                s[CHOOSE i \in DOMAIN before : Cardinality(before[i]) = n - 1]]
    BY DEF InOrder
  <2>2. t = [n \in 1 .. N |-> s[CHOOSE i \in D : Cardinality(before[i]) = n - 1]]
    BY <1>2, <2>1, Zenon
  <2>3. QED
    BY <2>2 DEF Places
<1>4. \A i \in D : s[i] \in S
  BY LenProperties
<1>5. t \in [1 .. N -> S]
  BY <1>1, <1>3, <1>4
<1>6. t \in Seq(S) /\ Len(t) = N
  BY <1>1, <1>5, SeqDef
<1>7. ToSet(t) = {s[i] : i \in D}
  BY <1>1, <1>3 DEF ToSet
<1>8. QED
  BY <1>1, <1>3, <1>6, <1>7

(* The places of a list are finitely many and ordered as numbers.          *)
LEMMA PlacesAreOrdered ==
    ASSUME NEW S, NEW s \in Seq(S), NEW I \in SUBSET DOMAIN s
    PROVE  /\ IsFiniteSet(DOMAIN s) /\ DOMAIN s \subseteq Nat \ {0}
           /\ IsOrder([i \in I |-> {j \in I : j < i}], I)
<1>1. IsFiniteSet(DOMAIN s) /\ DOMAIN s \subseteq Nat \ {0}
  <2>1. Len(s) \in Nat /\ DOMAIN s = 1 .. Len(s)
    BY LenProperties
  <2>2. IsFiniteSet(1 .. Len(s))
    BY <2>1, FS_Interval
  <2>3. QED
    BY <2>1, <2>2
<1>2. IsFiniteSet(I) /\ I \subseteq Nat
  BY <1>1, FS_Subset
<1>3. QED
  BY <1>1, <1>2 DEF IsOrder

(* t is s at the places I, in the order of s.                              *)
IsSubsequence(t, s, I) ==
    \E at \in [DOMAIN t -> I] :
       /\ \A n \in DOMAIN t : t[n] = s[at[n]]
       /\ \A m, n \in DOMAIN t : m < n => at[m] < at[n]

(* A selection keeps the order of the list.                                *)
LEMMA SelectedElements ==
    ASSUME NEW S, NEW s \in Seq(S), NEW I \in SUBSET DOMAIN s,
           NEW t, t = Selected(s, I)
    PROVE  /\ t \in Seq(S) /\ Len(t) = Cardinality(I) /\ Cardinality(I) \in Nat
           /\ DOMAIN t = 1 .. Cardinality(I)
           /\ ToSet(t) = {s[i] : i \in I}
           /\ IsSubsequence(t, s, I)
<1> DEFINE before == [i \in I |-> {j \in I : j < i}]
           at == Places(before, I)
<1>1. IsOrder(before, I)
  BY PlacesAreOrdered
<1>2. t = InOrder(s, before)
  BY DEF Selected
<1>3. /\ t \in Seq(S) /\ Len(t) = Cardinality(I) /\ Cardinality(I) \in Nat
      /\ DOMAIN t = 1 .. Cardinality(I)
      /\ at \in [DOMAIN t -> I]
      /\ \A n \in DOMAIN t : t[n] = s[at[n]]
      /\ ToSet(t) = {s[i] : i \in I}
  <2> HIDE DEF before
  <2>1. QED
    BY <1>1, <1>2, InOrderElements
<1>4. \A m, n \in 1 .. Cardinality(I) : m < n => at[m] \in before[at[n]]
  BY <1>1, CountedOff
<1>5. \A m, n \in DOMAIN t : m < n => at[m] < at[n]
  BY <1>3, <1>4
<1>6. QED
  BY <1>3, <1>5 DEF IsSubsequence

(* Of a finite set with a strict order, the least element.                 *)
LEMMA FirstOfOrder ==
    ASSUME NEW D, NEW before, IsOrder(before, D), D # {}
    PROVE  \E i \in D : \A j \in D : j \notin before[i]
<1> DEFINE counts == {Count(before, D)[i] : i \in D}
<1>1. counts \in SUBSET Nat /\ counts # {}
  BY CountGrows
<1>2. PICK n \in counts : \A m \in counts : n <= m
  <2> HIDE DEF counts
  <2>1. QED
    BY <1>1, LeastNumber
<1>3. PICK i \in D : Count(before, D)[i] = n
  BY <1>2
<1>4. \A j \in D : n <= Count(before, D)[j]
  BY <1>2
<1>5. QED
  BY <1>1, <1>3, <1>4, CountGrows

-----------------------------------------------------------------------------
(* Lists of lists.                                                         *)

(* The recursive definition of FlattenSeq has a solution.                  *)
LEMMA FlattenExists ==
    ASSUME NEW S, NEW seqs \in Seq(Seq(S))
    PROVE  \A n \in 1 .. Len(seqs) :
              \E f \in [1 .. n -> Seq(S)] :
                 \A i \in 1 .. n : f[i] = IF i = 1 THEN seqs[i] ELSE f[i - 1] \o seqs[i]
<1> DEFINE Solves(f, n) == \A i \in 1 .. n : f[i] = IF i = 1 THEN seqs[i] ELSE f[i - 1] \o seqs[i]
           bad == {n \in 1 .. Len(seqs) : ~ \E f \in [1 .. n -> Seq(S)] : Solves(f, n)}
<1>1. Len(seqs) \in Nat /\ \A i \in 1 .. Len(seqs) : seqs[i] \in Seq(S)
  BY LenProperties
<1>2. SUFFICES ASSUME bad # {} PROVE FALSE
  OBVIOUS
<1>3. bad \in SUBSET Nat
  BY <1>1
<1>4. PICK n \in bad : \A m \in bad : n <= m
  <2> HIDE DEF bad
  <2>1. QED
    BY <1>2, <1>3, LeastNumber
<1>5. n \in 1 .. Len(seqs) /\ ~ \E f \in [1 .. n -> Seq(S)] : Solves(f, n)
  OBVIOUS
<1>6. CASE n = 1
  <2> DEFINE f == [i \in 1 .. 1 |-> seqs[1]]
  <2>1. f \in [1 .. n -> Seq(S)] /\ Solves(f, n)
    BY <1>1, <1>5, <1>6
  <2>2. QED
    BY <1>5, <2>1
<1>7. CASE n # 1
  <2>1. n - 1 \in 1 .. Len(seqs) /\ n - 1 \notin bad
    <3> HIDE DEF bad
    <3>1. QED
      BY <1>1, <1>4, <1>5, <1>7
  <2>2. PICK f \in [1 .. n - 1 -> Seq(S)] : Solves(f, n - 1)
    BY <2>1
  <2> DEFINE g == [i \in 1 .. n |-> IF i = n THEN f[n - 1] \o seqs[n] ELSE f[i]]
  <2>3. f[n - 1] \o seqs[n] \in Seq(S)
    BY <1>1, <1>5, <1>7, <2>1, ConcatProperties
  <2>4. g \in [1 .. n -> Seq(S)]
    BY <1>1, <1>5, <2>3
  <2>5. ASSUME NEW i \in 1 .. n
        PROVE  g[i] = IF i = 1 THEN seqs[i] ELSE g[i - 1] \o seqs[i]
    <3>1. CASE i = n
      <4>1. g[n] = f[n - 1] \o seqs[n]
        <5>1. n \in 1 .. n
          BY <1>1, <1>5
        <5>2. QED
          BY <5>1, Zenon
      <4>2. g[n - 1] = f[n - 1]
        BY <1>1, <1>5, <1>7, <2>1
      <4>3. QED
        BY <1>7, <3>1, <4>1, <4>2, Zenon
    <3>2. CASE i # n
      <4>1. i \in 1 .. n - 1 /\ g[i] = f[i]
        BY <1>1, <1>5, <3>2
      <4>2. i # 1 => g[i - 1] = f[i - 1]
        BY <1>1, <1>5, <3>2
      <4>3. f[i] = IF i = 1 THEN seqs[i] ELSE f[i - 1] \o seqs[i]
        BY <2>2, <4>1
      <4>4. QED
        BY <4>1, <4>2, <4>3
    <3>3. QED
      BY <3>1, <3>2
  <2>6. QED
    BY <1>5, <2>4, <2>5
<1>8. QED
  BY <1>6, <1>7

(* What FlattenSeq folds: each list is put behind the ones before it.      *)
LEMMA FlattenEquation ==
    ASSUME NEW S, NEW seqs \in Seq(Seq(S)), Len(seqs) # 0
    PROVE  \E f \in [1 .. Len(seqs) -> Seq(S)] :
              /\ f[1] = seqs[1]
              /\ \A i \in 2 .. Len(seqs) : f[i] = f[i - 1] \o seqs[i]
              /\ FlattenSeq(seqs) = f[Len(seqs)]
<1> DEFINE L == Len(seqs)
           Solution(f) == f = [i \in 1 .. L |-> IF i = 1 THEN seqs[i] ELSE f[i - 1] \o seqs[i]]
           flatten == CHOOSE f : Solution(f)
<1>1. L \in Nat \ {0} /\ seqs[1] \in Seq(S)
  BY LenProperties
<1>2. FlattenSeq(seqs) = flatten[L]
  BY Zenon DEF FlattenSeq
<1>3. PICK f \in [1 .. L -> Seq(S)] :
         \A i \in 1 .. L : f[i] = IF i = 1 THEN seqs[i] ELSE f[i - 1] \o seqs[i]
  <2>1. L \in 1 .. L
    BY <1>1
  <2> DEFINE Solved(n) ==
        \E f \in [1 .. n -> Seq(S)] :
           \A i \in 1 .. n : f[i] = IF i = 1 THEN seqs[i] ELSE f[i - 1] \o seqs[i]
  <2>2. \A n \in 1 .. L : Solved(n)
    BY FlattenExists
  <2>3. Solved(L)
    <3> HIDE DEF Solved
    <3>1. QED
      BY <2>1, <2>2
  <2>4. QED
    BY <2>3
<1>4. Solution(f)
  BY <1>1, <1>3
<1>5. Solution(flatten)
  <2> HIDE DEF Solution
  <2>1. QED
    BY <1>4, Zenon
<1>6. \A i \in 1 .. L : flatten[i] = IF i = 1 THEN seqs[i] ELSE flatten[i - 1] \o seqs[i]
  <2> HIDE DEF flatten
  <2>1. QED
    BY <1>5
<1>7. \A i \in 1 .. L : flatten[i] = f[i]
  <2> HIDE DEF flatten, Solution
  <2> DEFINE bad == {i \in 1 .. L : flatten[i] # f[i]}
  <2>1. SUFFICES ASSUME bad # {} PROVE FALSE
    OBVIOUS
  <2>2. PICK i \in bad : \A j \in bad : i <= j
    <3>1. bad \in SUBSET Nat
      BY <1>1
    <3> HIDE DEF bad
    <3>2. QED
      BY <2>1, <3>1, LeastNumber
  <2>3. i # 1 => flatten[i - 1] = f[i - 1]
    BY <1>1, <2>2
  <2>4. flatten[i] = f[i]
    BY <1>3, <1>6, <2>2, <2>3
  <2>5. QED
    BY <2>2, <2>4
<1>8. ASSUME NEW i \in 2 .. L
      PROVE  f[i] = f[i - 1] \o seqs[i]
  <2>1. i \in 1 .. L /\ i # 1
    BY <1>1
  <2>2. QED
    BY <1>3, <2>1, Zenon
<1>9. f[1] = seqs[1] /\ L \in 1 .. L
  <2>1. 1 \in 1 .. L /\ L \in 1 .. L
    BY <1>1
  <2>2. QED
    BY <1>3, <2>1, Zenon
<1>10. FlattenSeq(seqs) = f[L]
  BY <1>2, <1>7, <1>9, Zenon
<1>11. QED
  BY <1>3, <1>8, <1>9, <1>10, Zenon

(* The places of the first n lists.                                        *)
SlotsUpTo(seqs, n) == {x \in (1 .. n) \X (Nat \ {0}) : x[2] <= Len(seqs[x[1]])}

(* t spells the first n lists out: every place once.                       *)
Spells(t, seqs, n) ==
    \E at \in [1 .. Len(t) -> SlotsUpTo(seqs, n)] :
       /\ \A x \in SlotsUpTo(seqs, n) : \E k \in 1 .. Len(t) : at[k] = x
       /\ \A k, l \in 1 .. Len(t) : at[k] = at[l] => k = l
       /\ \A k \in 1 .. Len(t) : t[k] = seqs[at[k][1]][at[k][2]]

(* Putting one more list behind what spells the first lists spells that    *)
(* list too.                                                               *)
LEMMA SpellsNext ==
    ASSUME NEW S, NEW seqs \in Seq(Seq(S)), NEW n \in 1 .. Len(seqs),
           NEW t \in Seq(S), NEW w \in Seq(S), Spells(t, seqs, n - 1),
           Len(w) = Len(t) + Len(seqs[n]),
           \A k \in 1 .. Len(w) : w[k] = IF k <= Len(t) THEN t[k] ELSE seqs[n][k - Len(t)]
    PROVE  Spells(w, seqs, n)
<1> DEFINE T == Len(t)
           old == SlotsUpTo(seqs, n - 1)
           new == SlotsUpTo(seqs, n)
<1>1. /\ T \in Nat /\ Len(seqs[n]) \in Nat /\ Len(seqs) \in Nat
      /\ Len(w) = T + Len(seqs[n])
  BY LenProperties
<1>2. PICK at \in [1 .. T -> old] :
         /\ \A x \in old : \E k \in 1 .. T : at[k] = x
         /\ \A k, l \in 1 .. T : at[k] = at[l] => k = l
         /\ \A k \in 1 .. T : t[k] = seqs[at[k][1]][at[k][2]]
  BY DEF Spells
<1>3. \A x : x \in new <=> x \in old \/ \E p \in 1 .. Len(seqs[n]) : x = <<n, p>>
  BY <1>1 DEF SlotsUpTo
<1>4. \A x \in old : x[1] # n
  BY <1>1 DEF SlotsUpTo
<1> DEFINE at2 == [k \in 1 .. Len(w) |-> IF k <= T THEN at[k] ELSE <<n, k - T>>]
<1>5. \A k \in 1 .. Len(w) : /\ k <= T => k \in 1 .. T
                             /\ ~(k <= T) => k - T \in 1 .. Len(seqs[n])
  BY <1>1
<1> HIDE DEF old, new
<1>6. ASSUME NEW k \in 1 .. Len(w)
      PROVE  /\ k <= T => at2[k] = at[k] /\ at2[k] \in old /\ k \in 1 .. T
             /\ ~(k <= T) => at2[k] = <<n, k - T>> /\ k - T \in 1 .. Len(seqs[n])
  BY <1>2, <1>5
<1>7. at2 \in [1 .. Len(w) -> new]
  BY <1>3, <1>6
<1>8. ASSUME NEW x \in new
      PROVE  \E k \in 1 .. Len(w) : at2[k] = x
  <2>1. CASE x \in old
    <3>1. PICK k \in 1 .. T : at[k] = x
      BY <1>2, <2>1
    <3>2. k \in 1 .. Len(w) /\ k <= T
      BY <1>1
    <3>3. QED
      BY <1>6, <3>1, <3>2
  <2>2. CASE \E p \in 1 .. Len(seqs[n]) : x = <<n, p>>
    <3>1. PICK p \in 1 .. Len(seqs[n]) : x = <<n, p>>
      BY <2>2
    <3>2. p + T \in 1 .. Len(w) /\ ~(p + T <= T) /\ (p + T) - T = p
      BY <1>1
    <3>3. QED
      BY <1>6, <3>1, <3>2
  <2>3. QED
    BY <1>3, <2>1, <2>2
<1>9. ASSUME NEW k \in 1 .. Len(w), NEW l \in 1 .. Len(w), at2[k] = at2[l]
      PROVE  k = l
  <2>1. CASE k <= T /\ l <= T
    BY <1>2, <1>6, <1>9, <2>1
  <2>2. CASE ~(k <= T) /\ ~(l <= T)
    <3>1. k - T = l - T
      BY <1>6, <1>9, <2>2
    <3>2. QED
      BY <1>1, <3>1
  <2>3. CASE k <= T /\ ~(l <= T)
    <3>1. at2[k] \in old /\ at2[l] = <<n, l - T>>
      BY <1>6, <2>3
    <3>2. QED
      BY <1>4, <1>9, <3>1
  <2>4. CASE ~(k <= T) /\ l <= T
    <3>1. at2[l] \in old /\ at2[k] = <<n, k - T>>
      BY <1>6, <2>4
    <3>2. QED
      BY <1>4, <1>9, <3>1
  <2>5. QED
    BY <2>1, <2>2, <2>3, <2>4
<1>10. ASSUME NEW k \in 1 .. Len(w)
       PROVE  w[k] = seqs[at2[k][1]][at2[k][2]]
  <2>1. CASE k <= T
    BY <1>2, <1>6, <2>1
  <2>2. CASE ~(k <= T)
    BY <1>6, <2>2
  <2>3. QED
    BY <2>1, <2>2
<1> HIDE DEF at2
<1>11. \E f \in [1 .. Len(w) -> new] :
          /\ \A x \in new : \E k \in 1 .. Len(w) : f[k] = x
          /\ \A k, l \in 1 .. Len(w) : f[k] = f[l] => k = l
          /\ \A k \in 1 .. Len(w) : w[k] = seqs[f[k][1]][f[k][2]]
  BY <1>7, <1>8, <1>9, <1>10, Zenon
<1>12. QED
  BY <1>11 DEF Spells, new

(* What a list of lists flattens to spells its lists out.                  *)
LEMMA FlattenSpells ==
    ASSUME NEW S, NEW seqs \in Seq(Seq(S))
    PROVE  /\ FlattenSeq(seqs) \in Seq(S)
           /\ Spells(FlattenSeq(seqs), seqs, Len(seqs))
<1> DEFINE L == Len(seqs)
<1>1. L \in Nat /\ \A n \in 1 .. L : seqs[n] \in Seq(S) /\ Len(seqs[n]) \in Nat
  BY LenProperties
<1>2. CASE L = 0
  <2>1. seqs = <<>> /\ FlattenSeq(seqs) = seqs
    BY <1>2, EmptySeq DEF FlattenSeq
  <2>2. SlotsUpTo(seqs, 0) = {}
    BY DEF SlotsUpTo
  <2>3. Len(<<>>) = 0 /\ <<>> \in Seq(S) /\ <<>> \in [1 .. 0 -> {}]
    BY EmptySeq
  <2>4. Spells(<<>>, seqs, 0)
    BY <2>2, <2>3 DEF Spells
  <2>5. QED
    BY <1>2, <2>1, <2>3, <2>4
<1>3. CASE L # 0
  <2>1. PICK f \in [1 .. L -> Seq(S)] :
           /\ f[1] = seqs[1]
           /\ \A i \in 2 .. L : f[i] = f[i - 1] \o seqs[i]
           /\ FlattenSeq(seqs) = f[L]
    BY <1>3, FlattenEquation
  <2> DEFINE bad == {n \in 1 .. L : ~Spells(f[n], seqs, n)}
  <2>2. \A i \in 1 .. L : f[i] \in Seq(S)
    BY <2>1
  <2>3. Spells(f[1], seqs, 1)
    <3>1. Len(<<>>) = 0 /\ <<>> \in Seq(S) /\ Spells(<<>>, seqs, 1 - 1)
      <4>1. SlotsUpTo(seqs, 1 - 1) = {}
        BY DEF SlotsUpTo
      <4>2. Len(<<>>) = 0 /\ <<>> \in Seq(S) /\ <<>> \in [1 .. 0 -> {}]
        BY EmptySeq
      <4>3. QED
        BY <4>1, <4>2 DEF Spells
    <3>2. f[1] = seqs[1] /\ 1 \in 1 .. L
      BY <1>1, <1>3, <2>1
    <3>3. /\ Len(f[1]) = Len(<<>>) + Len(seqs[1])
          /\ \A k \in 1 .. Len(f[1]) : f[1][k] = IF k <= Len(<<>>) THEN <<>>[k] ELSE seqs[1][k - Len(<<>>)]
      BY <1>1, <3>1, <3>2
    <3>4. QED
      BY <2>2, <3>1, <3>2, <3>3, SpellsNext
  <2>4. bad = {}
    <3>1. SUFFICES ASSUME bad # {} PROVE FALSE
      OBVIOUS
    <3>2. PICK n \in bad : \A m \in bad : n <= m
      <4>1. bad \in SUBSET Nat
        BY <1>1
      <4> HIDE DEF bad
      <4>2. QED
        BY <3>1, <4>1, LeastNumber
    <3>3. n \in 2 .. L /\ n - 1 \in 1 .. L /\ n \in 1 .. L
      BY <1>1, <2>3, <3>2
    <3>4. n - 1 \notin bad
      <4> HIDE DEF bad
      <4>1. QED
        BY <1>1, <3>2, <3>3
    <3>5. Spells(f[n - 1], seqs, n - 1)
      BY <3>3, <3>4
    <3>6. f[n] = f[n - 1] \o seqs[n]
      BY <2>1, <3>3, Zenon
    <3>7. f[n - 1] \in Seq(S) /\ seqs[n] \in Seq(S) /\ f[n] \in Seq(S)
      BY <1>1, <2>2, <3>3
    <3>8. /\ Len(f[n]) = Len(f[n - 1]) + Len(seqs[n])
          /\ \A k \in 1 .. Len(f[n]) :
                f[n][k] = IF k <= Len(f[n - 1]) THEN f[n - 1][k] ELSE seqs[n][k - Len(f[n - 1])]
      <4>1. PICK t \in Seq(S) : t = f[n - 1]
        BY <3>7
      <4>2. PICK u \in Seq(S) : u = seqs[n]
        BY <3>7
      <4>3. PICK w : w = t \o u
        OBVIOUS
      <4>4. /\ Len(w) = Len(t) + Len(u)
            /\ \A k \in 1 .. Len(t) + Len(u) : w[k] = IF k <= Len(t) THEN t[k] ELSE u[k - Len(t)]
        BY <4>3, ConcatProperties, Zenon
      <4>5. f[n] = w
        BY <3>6, <4>1, <4>2, <4>3, Zenon
      <4>6. QED
        BY <4>1, <4>2, <4>4, <4>5, Zenon
    <3>9. Spells(f[n], seqs, n)
      BY <3>3, <3>5, <3>7, <3>8, SpellsNext
    <3>10. QED
      BY <3>2, <3>9
  <2>5. L \in 1 .. L
    BY <1>1, <1>3
  <2>6. QED
    BY <2>1, <2>2, <2>4, <2>5
<1>4. QED
  BY <1>2, <1>3

(* A function on 1 .. n is a sequence of length n.                         *)
LEMMA FunctionIsSeq ==
    ASSUME NEW S, NEW n \in Nat, NEW f \in [1 .. n -> S]
    PROVE  f \in Seq(S) /\ Len(f) = n /\ DOMAIN f = 1 .. n
BY SeqDef

(* A concatenation of lists has the elements of all of them.               *)
LEMMA FlattenElements ==
    ASSUME NEW S, NEW seqs \in Seq(Seq(S))
    PROVE  /\ FlattenSeq(seqs) \in Seq(S)
           /\ ToSet(FlattenSeq(seqs)) = UNION {ToSet(seqs[n]) : n \in DOMAIN seqs}
<1> DEFINE L == Len(seqs)
           t == FlattenSeq(seqs)
<1>1. t \in Seq(S) /\ Spells(t, seqs, L)
  BY FlattenSpells
<1>2. /\ L \in Nat /\ DOMAIN seqs = 1 .. L /\ DOMAIN t = 1 .. Len(t)
      /\ \A n \in 1 .. L : Len(seqs[n]) \in Nat /\ DOMAIN seqs[n] = 1 .. Len(seqs[n])
  BY <1>1, LenProperties
<1> HIDE DEF t
<1>3. PICK at \in [1 .. Len(t) -> SlotsUpTo(seqs, L)] :
         /\ \A x \in SlotsUpTo(seqs, L) : \E k \in 1 .. Len(t) : at[k] = x
         /\ \A k \in 1 .. Len(t) : t[k] = seqs[at[k][1]][at[k][2]]
  BY <1>1 DEF Spells
<1>4. \A x \in SlotsUpTo(seqs, L) : x[1] \in 1 .. L /\ x[2] \in 1 .. Len(seqs[x[1]])
  BY <1>2 DEF SlotsUpTo
<1>5. \A n \in 1 .. L, p \in Nat : p \in 1 .. Len(seqs[n]) => <<n, p>> \in SlotsUpTo(seqs, L)
  BY <1>2 DEF SlotsUpTo
<1>6. ASSUME NEW e \in ToSet(t)
      PROVE  \E n \in 1 .. L : e \in ToSet(seqs[n])
  <2>1. PICK k \in 1 .. Len(t) : e = t[k]
    BY <1>2 DEF ToSet
  <2>2. e = seqs[at[k][1]][at[k][2]] /\ at[k][1] \in 1 .. L /\ at[k][2] \in 1 .. Len(seqs[at[k][1]])
    BY <1>3, <1>4, <2>1
  <2>3. QED
    BY <1>2, <2>2 DEF ToSet
<1>7. ASSUME NEW n \in 1 .. L, NEW e \in ToSet(seqs[n])
      PROVE  e \in ToSet(t)
  <2>1. PICK p \in 1 .. Len(seqs[n]) : e = seqs[n][p]
    BY <1>2 DEF ToSet
  <2>2. PICK x : x = <<n, p>>
    OBVIOUS
  <2>3. x \in SlotsUpTo(seqs, L) /\ x[1] = n /\ x[2] = p
    BY <1>2, <1>5, <2>2
  <2>4. PICK k \in 1 .. Len(t) : at[k] = x
    BY <1>3, <2>3
  <2>5. t[k] = e
    BY <1>3, <2>1, <2>3, <2>4
  <2>6. QED
    BY <1>2, <2>5 DEF ToSet
<1>8. QED
  BY <1>1, <1>2, <1>6, <1>7 DEF t

(* Two lists put together have the elements of both.                       *)
LEMMA ConcatElements ==
    ASSUME NEW S, NEW s \in Seq(S), NEW t \in Seq(S)
    PROVE  s \o t \in Seq(S) /\ ToSet(s \o t) = ToSet(s) \cup ToSet(t)
<1>1. PICK w : w = s \o t
  OBVIOUS
<1>2. /\ w \in Seq(S) /\ Len(w) = Len(s) + Len(t)
      /\ \A i \in 1 .. Len(s) + Len(t) : w[i] = IF i <= Len(s) THEN s[i] ELSE t[i - Len(s)]
  BY <1>1, ConcatProperties, Zenon
<1>3. /\ Len(s) \in Nat /\ Len(t) \in Nat
      /\ DOMAIN s = 1 .. Len(s) /\ DOMAIN t = 1 .. Len(t) /\ DOMAIN w = 1 .. Len(s) + Len(t)
  BY <1>2, LenProperties
<1>4. ASSUME NEW e \in ToSet(w)
      PROVE  e \in ToSet(s) \/ e \in ToSet(t)
  <2>1. PICK i \in 1 .. Len(s) + Len(t) : e = w[i]
    BY <1>3 DEF ToSet
  <2>2. CASE i <= Len(s)
    <3>1. i \in 1 .. Len(s) /\ e = s[i]
      BY <1>2, <1>3, <2>1, <2>2
    <3>2. QED
      BY <1>3, <3>1 DEF ToSet
  <2>3. CASE ~(i <= Len(s))
    <3>1. i - Len(s) \in 1 .. Len(t) /\ e = t[i - Len(s)]
      BY <1>2, <1>3, <2>1, <2>3
    <3>2. QED
      BY <1>3, <3>1 DEF ToSet
  <2>4. QED
    BY <2>2, <2>3
<1>5. ASSUME NEW e \in ToSet(s)
      PROVE  e \in ToSet(w)
  <2>1. PICK i \in 1 .. Len(s) : e = s[i]
    BY <1>3 DEF ToSet
  <2>2. i \in 1 .. Len(s) + Len(t) /\ i <= Len(s)
    BY <1>3
  <2>3. w[i] = s[i]
    BY <1>2, <2>2
  <2>4. QED
    BY <1>3, <2>1, <2>2, <2>3 DEF ToSet
<1>6. ASSUME NEW e \in ToSet(t)
      PROVE  e \in ToSet(w)
  <2>1. PICK i \in 1 .. Len(t) : e = t[i]
    BY <1>3 DEF ToSet
  <2>2. i + Len(s) \in 1 .. Len(s) + Len(t) /\ ~(i + Len(s) <= Len(s)) /\ (i + Len(s)) - Len(s) = i
    BY <1>3
  <2>3. w[i + Len(s)] = t[i]
    BY <1>2, <2>2
  <2>4. QED
    BY <1>3, <2>1, <2>2, <2>3 DEF ToSet
<1>7. ToSet(w) = ToSet(s) \cup ToSet(t)
  BY <1>4, <1>5, <1>6
<1>8. QED
  BY <1>1, <1>2, <1>7, Zenon

(* The first occurrences of the elements of a list under a key: every      *)
(* element of the list has the key of one of them, and no two share one.   *)
LEMMA FirstPlaces ==
    ASSUME NEW S, NEW s \in Seq(S), NEW key
    PROVE  LET first == {i \in DOMAIN s : \A j \in DOMAIN s : j < i => key[j] # key[i]}
           IN  /\ \A i \in DOMAIN s : \E j \in first : key[j] = key[i]
               /\ \A i, j \in first : key[i] = key[j] => i = j
<1> DEFINE first == {i \in DOMAIN s : \A j \in DOMAIN s : j < i => key[j] # key[i]}
<1>1. DOMAIN s \subseteq Nat
  BY PlacesAreOrdered
<1>2. ASSUME NEW i \in DOMAIN s
      PROVE  \E j \in first : key[j] = key[i]
  <2> DEFINE same == {j \in DOMAIN s : key[j] = key[i]}
  <2>1. same \in SUBSET Nat /\ same # {}
    BY <1>1
  <2>2. PICK j \in same : \A k \in same : j <= k
    <3> HIDE DEF same
    <3>1. QED
      BY <2>1, LeastNumber
  <2>3. j \in first
    <3>1. j \in DOMAIN s /\ key[j] = key[i]
      BY <2>2
    <3>2. ASSUME NEW k \in DOMAIN s, k < j
          PROVE  key[k] # key[j]
      BY <1>1, <2>2, <3>1, <3>2
    <3>3. QED
      BY <3>1, <3>2
  <2>4. QED
    BY <2>2, <2>3
<1>3. ASSUME NEW i \in first, NEW j \in first, key[i] = key[j]
      PROVE  i = j
  <2>1. i \in Nat /\ j \in Nat /\ ~(i < j) /\ ~(j < i)
    BY <1>1, <1>3
  <2>2. QED
    BY <2>1
<1>4. QED
  BY <1>2, <1>3

-----------------------------------------------------------------------------
(* Searches.                                                               *)

(* dict.fromkeys keeps every element, and none twice.                      *)
LEMMA FirstOccurrencesElements ==
    ASSUME NEW S, NEW s \in Seq(S)
    PROVE  LET t == FirstOccurrences(s)
           IN  /\ t \in Seq(S) /\ ToSet(t) = ToSet(s)
               /\ Cardinality(ToSet(t)) = Len(t)
<1> DEFINE first == {i \in DOMAIN s : \A j \in DOMAIN s : j < i => s[j] # s[i]}
           t == FirstOccurrences(s)
<1>1. t = Selected(s, first)
  BY DEF FirstOccurrences
<1>2. /\ \A i \in DOMAIN s : \E j \in first : s[j] = s[i]
      /\ \A i, j \in first : s[i] = s[j] => i = j
  BY FirstPlaces
<1>3. first \in SUBSET DOMAIN s
  OBVIOUS
<1> HIDE DEF first
<1>4. /\ t \in Seq(S) /\ Len(t) = Cardinality(first) /\ Cardinality(first) \in Nat
      /\ ToSet(t) = {s[i] : i \in first}
  BY <1>1, <1>3, SelectedElements
<1>5. ToSet(t) = ToSet(s)
  <2>1. ToSet(s) = {s[i] : i \in DOMAIN s}
    BY DEF ToSet
  <2>2. QED
    BY <1>2, <1>3, <1>4, <2>1
<1>6. Cardinality(ToSet(t)) = Cardinality(first)
  <2> DEFINE T == ToSet(t)
             f == [i \in first |-> s[i]]
  <2>1. f \in Bijection(first, T)
    BY <1>2, <1>4 DEF Bijection, Injection, Surjection, IsInjective
  <2>2. IsFiniteSet(first)
    BY <1>3, PlacesAreOrdered DEF IsOrder
  <2> HIDE DEF f, T
  <2>3. ExistsBijection(first, T)
    BY <2>1 DEF ExistsBijection
  <2>4. Cardinality(T) = Cardinality(first)
    BY <2>2, <2>3, FS_Bijection
  <2>5. QED
    BY <2>4 DEF T
<1>7. QED
  BY <1>4, <1>5, <1>6

(* The places of a pair, when its elements differ.                         *)
LEMMA DistinctPair ==
    ASSUME NEW x, NEW y, x # y
    PROVE  DOMAIN <<x, y>> = 1 .. 2 /\ \A i, j \in 1 .. 2 : <<x, y>>[i] = <<x, y>>[j] => i = j
<1>1. DOMAIN <<x, y>> = 1 .. 2
  OBVIOUS
<1>2. ASSUME NEW i \in 1 .. 2, NEW j \in 1 .. 2, <<x, y>>[i] = <<x, y>>[j]
      PROVE  i = j
  <2>1. (i = 1 \/ i = 2) /\ (j = 1 \/ j = 2)
    OBVIOUS
  <2>2. QED
    BY <1>2, <2>1
<1>3. QED
  BY <1>1, <1>2

(* The places of a triple, when its elements differ.                       *)
LEMMA DistinctTriple ==
    ASSUME NEW x, NEW y, NEW z, x # y, x # z, y # z
    PROVE  /\ DOMAIN <<x, y, z>> = 1 .. 3
           /\ \A i, j \in 1 .. 3 : <<x, y, z>>[i] = <<x, y, z>>[j] => i = j
<1>1. DOMAIN <<x, y, z>> = 1 .. 3
  OBVIOUS
<1>2. ASSUME NEW i \in 1 .. 3, NEW j \in 1 .. 3, <<x, y, z>>[i] = <<x, y, z>>[j]
      PROVE  i = j
  <2>1. (i = 1 \/ i = 2 \/ i = 3) /\ (j = 1 \/ j = 2 \/ j = 3)
    OBVIOUS
  <2>2. QED
    BY <1>2, <2>1
<1>3. QED
  BY <1>1, <1>2

(* A triple as a sequence.                                                 *)
LEMMA TripleIsSeq ==
    ASSUME NEW x, NEW y, NEW z
    PROVE  /\ <<x, y, z>> \in Seq({x, y, z}) /\ Len(<<x, y, z>>) = 3
           /\ DOMAIN <<x, y, z>> = 1 .. 3
           /\ <<x, y, z>>[1] = x /\ <<x, y, z>>[2] = y /\ <<x, y, z>>[3] = z
OBVIOUS

(* The places of a pair.                                                   *)
LEMMA PairPlaces ==
    ASSUME NEW x, NEW y
    PROVE  DOMAIN <<x, y>> = 1 .. 2 /\ <<x, y>>[1] = x /\ <<x, y>>[2] = y
OBVIOUS

(* The patterns of one query: one to three, no two alike.                  *)
LEMMA BuildShape ==
    ASSUME NEW q, NEW scope, NEW absolute
    PROVE  LET b == BuildSearchPatterns(q, scope, absolute)
           IN  /\ b \in Seq(ToSet(b)) /\ b # <<>> /\ ToSet(b) # {}
               /\ Cardinality(ToSet(b)) = Len(b)
               /\ \A p \in ToSet(b) : p.query = q
<1> DEFINE b == BuildSearchPatterns(q, scope, absolute)
           At(f) == Pattern(q, f, scope.media)
<1>1. \E n \in 1 .. 3 : \E f :
         /\ b = [i \in 1 .. n |-> At(f[i])]
         /\ \A i, j \in 1 .. n : f[i] = f[j] => i = j
  <2> DEFINE seasonTag == <<"season tag", scope.season>>
             episodeTag == <<"episode tag", scope.season, scope.episode>>
  <2>1. CASE scope.season = NoNumber
    <3> DEFINE f == << <<"bare">> >>
    <3>1. b = [i \in DOMAIN f |-> At(f[i])]
      BY <2>1, Zenon DEF BuildSearchPatterns
    <3>2. DOMAIN f = 1 .. 1
      OBVIOUS
    <3>3. \A i, j \in 1 .. 1 : f[i] = f[j] => i = j
      OBVIOUS
    <3> HIDE DEF f
    <3>4. QED
      BY <3>1, <3>2, <3>3
  <2>2. CASE scope.season # NoNumber /\ scope.episode = NoNumber
    <3> DEFINE f == << seasonTag, <<"season word", scope.season>>, <<"bare">> >>
    <3>1. b = [i \in DOMAIN f |-> At(f[i])]
      BY <2>2, Zenon DEF BuildSearchPatterns
    <3>2. seasonTag # <<"season word", scope.season>> /\ seasonTag # <<"bare">>
          /\ <<"season word", scope.season>> # <<"bare">>
      OBVIOUS
    <3>3. DOMAIN f = 1 .. 3 /\ \A i, j \in 1 .. 3 : f[i] = f[j] => i = j
      BY <3>2, DistinctTriple
    <3> HIDE DEF f
    <3>4. QED
      BY <3>1, <3>3
  <2>3. CASE scope.season # NoNumber /\ scope.episode # NoNumber /\ absolute = NoNumber
    <3> DEFINE f == << episodeTag, seasonTag >>
    <3>1. b = [i \in DOMAIN f |-> At(f[i])]
      BY <2>3, Zenon DEF BuildSearchPatterns
    <3>2. episodeTag # seasonTag
      OBVIOUS
    <3>3. DOMAIN f = 1 .. 2 /\ \A i, j \in 1 .. 2 : f[i] = f[j] => i = j
      BY <3>2, DistinctPair
    <3> HIDE DEF f
    <3>4. QED
      BY <3>1, <3>3
  <2>4. CASE scope.season # NoNumber /\ scope.episode # NoNumber /\ absolute # NoNumber
    <3> DEFINE f == << episodeTag, <<"absolute tag", absolute>>, seasonTag >>
    <3>1. b = [i \in DOMAIN f |-> At(f[i])]
      BY <2>4, Zenon DEF BuildSearchPatterns
    <3>2. episodeTag # <<"absolute tag", absolute>> /\ episodeTag # seasonTag
          /\ <<"absolute tag", absolute>> # seasonTag
      OBVIOUS
    <3>3. DOMAIN f = 1 .. 3 /\ \A i, j \in 1 .. 3 : f[i] = f[j] => i = j
      BY <3>2, DistinctTriple
    <3> HIDE DEF f
    <3>4. QED
      BY <3>1, <3>3
  <2>5. QED
    BY <2>1, <2>2, <2>3, <2>4
<1> HIDE DEF b, At
<1>a. PICK n \in 1 .. 3 : \E f :
         /\ b = [i \in 1 .. n |-> At(f[i])]
         /\ \A i, j \in 1 .. n : f[i] = f[j] => i = j
  BY <1>1
<1>2. PICK f :
         /\ b = [i \in 1 .. n |-> At(f[i])]
         /\ \A i, j \in 1 .. n : f[i] = f[j] => i = j
  BY <1>a
<1> USE DEF At
<1> HIDE DEF b
<1>3. \A i, j \in 1 .. n : b[i] = b[j] => i = j
  BY <1>2 DEF Pattern
<1>4. DOMAIN b = 1 .. n /\ b \in [1 .. n -> ToSet(b)]
  BY <1>2 DEF ToSet
<1>5. b \in Seq(ToSet(b)) /\ Len(b) = n
  BY <1>2, <1>4, FunctionIsSeq
<1>6. Cardinality(ToSet(b)) = n
  <2> DEFINE T == ToSet(b)
  <2>1. b \in Bijection(1 .. n, T)
    BY <1>3, <1>4 DEF Bijection, Injection, Surjection, IsInjective, ToSet
  <2>2. IsFiniteSet(1 .. n) /\ Cardinality(1 .. n) = n
    <3>1. n \in Int /\ 1 \in Int /\ ~(1 > n) /\ n - 1 + 1 = n
      OBVIOUS
    <3>2. QED
      BY <3>1, FS_Interval
  <2> HIDE DEF T
  <2>3. ExistsBijection(1 .. n, T)
    BY <2>1 DEF ExistsBijection
  <2>4. Cardinality(T) = n
    BY <2>2, <2>3, FS_Bijection
  <2>5. QED
    BY <2>4 DEF T
<1>7. ToSet(b) # {} /\ \A p \in ToSet(b) : p.query = q
  BY <1>2, <1>4 DEF ToSet, Pattern
<1>8. QED
  BY <1>5, <1>6, <1>7, EmptySeq DEF b

(* A list of elements of S is one of any set that holds S.                 *)
LEMMA WiderSeq ==
    ASSUME NEW S, NEW T, S \subseteq T, NEW s \in Seq(S)
    PROVE  s \in Seq(T) /\ ToSet(s) \subseteq S
<1>1. Len(s) \in Nat /\ DOMAIN s = 1 .. Len(s) /\ \A i \in 1 .. Len(s) : s[i] \in S
  BY LenProperties
<1>2. s \in [1 .. Len(s) -> S]
  BY LenProperties
<1>3. s \in [1 .. Len(s) -> T]
  BY <1>2
<1>4. QED
  BY <1>1, <1>3, FunctionIsSeq DEF ToSet

(* The passes of one query, as a set.                                      *)
PassesOf(q, scope, absolute) ==
    {BuildSearchPatterns(q, scope, absolute)}
    \cup {b \in {BuildSearchPatterns(BareTitle(q), scope, NoNumber)} : HasBareTitlePass(q, scope)}

(* What the passes of all the queries ask for.                             *)
AllPasses(queries, scope, absolute) ==
    UNION {PassesOf(queries[n], scope, absolute) : n \in DOMAIN queries}

(* The prefetch is the patterns of all passes, none of them twice.         *)
LEMMA PrefetchElements ==
    ASSUME NEW S, NEW N \in Nat, NEW queries, DOMAIN queries = 1 .. N, NEW scope, NEW absolute,
           AllPasses(queries, scope, absolute) \subseteq Seq(S)
    PROVE  LET t == RequestPatterns(queries, scope, absolute)
           IN  /\ t \in Seq(S)
               /\ ToSet(t) = UNION {ToSet(b) : b \in AllPasses(queries, scope, absolute)}
               /\ Cardinality(ToSet(t)) = Len(t)
<1> DEFINE Build(q) == BuildSearchPatterns(q, scope, absolute)
           Bare(q) == BuildSearchPatterns(BareTitle(q), scope, NoNumber)
           Of(q) == Build(q) \o (IF HasBareTitlePass(q, scope) THEN Bare(q) ELSE <<>>)
           lists == [n \in DOMAIN queries |-> Of(queries[n])]
           all == AllPasses(queries, scope, absolute)
<1>1. RequestPatterns(queries, scope, absolute) = FirstOccurrences(FlattenSeq(lists))
  BY DEF RequestPatterns
<1>2. ASSUME NEW n \in DOMAIN queries
      PROVE  /\ lists[n] \in Seq(S)
             /\ ToSet(lists[n]) = UNION {ToSet(b) : b \in PassesOf(queries[n], scope, absolute)}
  <2>1. PassesOf(queries[n], scope, absolute) \subseteq Seq(S)
    BY DEF AllPasses
  <2>2. CASE HasBareTitlePass(queries[n], scope)
    <3>1. PassesOf(queries[n], scope, absolute) = {Build(queries[n]), Bare(queries[n])}
      BY <2>2 DEF PassesOf
    <3>2. lists[n] = Build(queries[n]) \o Bare(queries[n])
      BY <2>2
    <3> HIDE DEF Build, Bare, lists
    <3>3. QED
      BY <2>1, <3>1, <3>2, ConcatElements
  <2>3. CASE ~HasBareTitlePass(queries[n], scope)
    <3>1. PassesOf(queries[n], scope, absolute) = {Build(queries[n])}
      BY <2>3 DEF PassesOf
    <3>2. lists[n] = Build(queries[n]) \o <<>>
      BY <2>3
    <3>3. lists[n] = Build(queries[n])
      BY <2>1, <3>1, <3>2, ConcatEmptySeq
    <3> HIDE DEF Build, lists
    <3>4. QED
      BY <2>1, <3>1, <3>3
  <2>4. QED
    BY <2>2, <2>3
<1>3. lists \in Seq(Seq(S)) /\ DOMAIN lists = DOMAIN queries
  BY <1>2, FunctionIsSeq
<1> HIDE DEF lists
<1>4. /\ FlattenSeq(lists) \in Seq(S)
      /\ ToSet(FlattenSeq(lists)) = UNION {ToSet(lists[n]) : n \in DOMAIN lists}
  BY <1>3, FlattenElements
<1>5. UNION {ToSet(lists[n]) : n \in DOMAIN lists} = UNION {ToSet(b) : b \in all}
  BY <1>2, <1>3 DEF AllPasses
<1>6. QED
  BY <1>1, <1>4, <1>5, FirstOccurrencesElements

(* The passes of a request are those of its queries.                       *)
LEMMA PassesElements ==
    ASSUME NEW S, NEW N \in Nat, NEW queries, DOMAIN queries = 1 .. N, NEW scope, NEW absolute,
           AllPasses(queries, scope, absolute) \subseteq Seq(S)
    PROVE  LET t == SequentialPasses(queries, scope, absolute)
           IN  /\ t \in Seq(Seq(S))
               /\ ToSet(t) = AllPasses(queries, scope, absolute)
<1> DEFINE Build(q) == BuildSearchPatterns(q, scope, absolute)
           Bare(q) == BuildSearchPatterns(BareTitle(q), scope, NoNumber)
           Of(q) == << Build(q) >> \o (IF HasBareTitlePass(q, scope) THEN << Bare(q) >> ELSE <<>>)
           lists == [n \in DOMAIN queries |-> Of(queries[n])]
<1>1. SequentialPasses(queries, scope, absolute) = FlattenSeq(lists)
  BY DEF SequentialPasses
<1>2. ASSUME NEW n \in DOMAIN queries
      PROVE  /\ lists[n] \in Seq(Seq(S))
             /\ ToSet(lists[n]) = PassesOf(queries[n], scope, absolute)
  <2>1. PassesOf(queries[n], scope, absolute) \subseteq Seq(S)
    BY DEF AllPasses
  <2>2. \A b : b \in Seq(S) => <<b>> \in Seq(Seq(S)) /\ ToSet(<<b>>) = {b}
    BY DEF ToSet
  <2>3. CASE HasBareTitlePass(queries[n], scope)
    <3>1. PassesOf(queries[n], scope, absolute) = {Build(queries[n]), Bare(queries[n])}
      BY <2>3 DEF PassesOf
    <3>2. lists[n] = << Build(queries[n]) >> \o << Bare(queries[n]) >>
      BY <2>3
    <3> HIDE DEF Build, Bare, lists
    <3>3. PICK x, y : x = << Build(queries[n]) >> /\ y = << Bare(queries[n]) >>
      OBVIOUS
    <3>4. /\ x \in Seq(Seq(S)) /\ ToSet(x) = {Build(queries[n])}
          /\ y \in Seq(Seq(S)) /\ ToSet(y) = {Bare(queries[n])}
      BY <2>1, <2>2, <3>1, <3>3
    <3>5. lists[n] = x \o y
      BY <3>2, <3>3, Zenon
    <3>6. x \o y \in Seq(Seq(S)) /\ ToSet(x \o y) = ToSet(x) \cup ToSet(y)
      BY <3>4, ConcatElements
    <3>7. QED
      BY <3>1, <3>4, <3>5, <3>6
  <2>4. CASE ~HasBareTitlePass(queries[n], scope)
    <3>1. PassesOf(queries[n], scope, absolute) = {Build(queries[n])}
      BY <2>4 DEF PassesOf
    <3>2. lists[n] = << Build(queries[n]) >> \o <<>>
      BY <2>4
    <3> HIDE DEF Build, lists
    <3>3. lists[n] = << Build(queries[n]) >>
      BY <2>1, <2>2, <3>1, <3>2, ConcatEmptySeq
    <3>4. QED
      BY <2>1, <2>2, <3>1, <3>3
  <2>5. QED
    BY <2>3, <2>4
<1>3. lists \in Seq(Seq(Seq(S))) /\ DOMAIN lists = DOMAIN queries
  BY <1>2, FunctionIsSeq
<1> HIDE DEF lists
<1>4. /\ FlattenSeq(lists) \in Seq(Seq(S))
      /\ ToSet(FlattenSeq(lists)) = UNION {ToSet(lists[n]) : n \in DOMAIN lists}
  BY <1>3, FlattenElements
<1>5. UNION {ToSet(lists[n]) : n \in DOMAIN lists} = AllPasses(queries, scope, absolute)
  BY <1>2, <1>3 DEF AllPasses
<1>6. QED
  BY <1>1, <1>4, <1>5

(* A pass has a pattern, and no pattern twice.                             *)
LEMMA PassShape ==
    ASSUME NEW queries, NEW scope, NEW absolute, NEW b \in AllPasses(queries, scope, absolute)
    PROVE  /\ b \in Seq(ToSet(b)) /\ ToSet(b) # {}
           /\ Cardinality(ToSet(b)) = Len(b)
<1>1. PICK n \in DOMAIN queries : b \in PassesOf(queries[n], scope, absolute)
  BY DEF AllPasses
<1>2. \/ b = BuildSearchPatterns(queries[n], scope, absolute)
      \/ b = BuildSearchPatterns(BareTitle(queries[n]), scope, NoNumber)
  BY <1>1 DEF PassesOf
<1>3. QED
  BY <1>2, BuildShape

(* One or two queries.                                                     *)
LEMMA QueriesShape ==
    ASSUME NEW q, NEW alt
    PROVE  \E N \in 1 .. 2 : DOMAIN SearchQueries(q, alt) = 1 .. N
<1>1. SearchQueries(q, alt) = <<q>> \/ SearchQueries(q, alt) = <<q, alt>>
  BY DEF SearchQueries
<1>2. DOMAIN <<q>> = 1 .. 1 /\ DOMAIN <<q, alt>> = 1 .. 2
  OBVIOUS
<1>3. QED
  BY <1>1, <1>2

(* A request of any query, alternate spelling and scope prefetches exactly *)
(* the patterns of its passes, none of them twice, and has a pass.         *)
THEOREM SearchesAreWellFormed ==
    ASSUME NEW q, NEW alt, NEW scope, NEW absolute
    PROVE  LET search == SearchGrouped(q, alt, scope, absolute)
           IN  /\ Len(search) >= 2
               /\ search[1] # <<>>
               /\ \A b \in DOMAIN search : Cardinality(ToSet(search[b])) = Len(search[b])
               /\ PrefetchCoversPasses(search)
               /\ PassesUsePrefetch(search)
<1> DEFINE queries == SearchQueries(q, alt)
           all == AllPasses(queries, scope, absolute)
           S == UNION {ToSet(b) : b \in all}
           search == SearchGrouped(q, alt, scope, absolute)
<1>1. PICK N \in 1 .. 2 : DOMAIN queries = 1 .. N
  BY QueriesShape
<1>2. N \in Nat
  OBVIOUS
<1>3. all # {}
  <2>1. BuildSearchPatterns(queries[1], scope, absolute) \in PassesOf(queries[1], scope, absolute)
    BY DEF PassesOf
  <2>2. 1 \in DOMAIN queries
    BY <1>1
  <2>3. QED
    BY <2>1, <2>2 DEF AllPasses
<1>4. \A b \in all : b \in Seq(ToSet(b)) /\ ToSet(b) # {} /\ Cardinality(ToSet(b)) = Len(b)
  BY PassShape
<1>5. all \subseteq Seq(S)
  <2>1. \A b \in all : ToSet(b) \subseteq S
    OBVIOUS
  <2> HIDE DEF all, S
  <2>2. QED
    BY <1>4, <2>1, WiderSeq
<1>6. PICK r : r = RequestPatterns(queries, scope, absolute)
  OBVIOUS
<1>7. PICK passes : passes = SequentialPasses(queries, scope, absolute)
  OBVIOUS
<1>8. /\ r \in Seq(S)
      /\ ToSet(r) = S
      /\ Cardinality(ToSet(r)) = Len(r)
  <2>1. /\ r \in Seq(S)
        /\ ToSet(r) = UNION {ToSet(b) : b \in AllPasses(queries, scope, absolute)}
        /\ Cardinality(ToSet(r)) = Len(r)
    <3> HIDE DEF queries, S
    <3>1. QED
      BY <1>1, <1>2, <1>5, <1>6, PrefetchElements
  <2>2. QED
    BY <2>1
<1>9. passes \in Seq(Seq(S)) /\ ToSet(passes) = all
  <2> HIDE DEF queries, S
  <2>1. QED
    BY <1>1, <1>2, <1>5, <1>7, PassesElements
<1>10. search = <<r>> \o passes
  BY <1>6, <1>7 DEF SearchGrouped
<1> HIDE DEF all, search, queries
<1>11. Len(passes) \in Nat \ {0} /\ DOMAIN passes = 1 .. Len(passes)
       /\ \A i \in 1 .. Len(passes) : passes[i] \in all
  <2>1. Len(passes) \in Nat /\ DOMAIN passes = 1 .. Len(passes)
    BY <1>9, LenProperties
  <2>2. all = {passes[i] : i \in 1 .. Len(passes)}
    BY <1>9, <2>1 DEF ToSet
  <2>3. Len(passes) # 0
    BY <1>3, <2>2
  <2>4. QED
    BY <2>1, <2>2, <2>3
<1>12. /\ Len(search) = 1 + Len(passes)
       /\ DOMAIN search = 1 .. 1 + Len(passes)
       /\ search[1] = r
       /\ \A b \in 2 .. 1 + Len(passes) : search[b] = passes[b - 1]
  <2>1. PICK h : h = <<r>>
    OBVIOUS
  <2>2. h \in Seq(Seq(S)) /\ Len(h) = 1 /\ h[1] = r
    BY <1>8, <2>1
  <2>3. search = h \o passes
    BY <1>10, <2>1, Zenon
  <2>4. /\ search \in Seq(Seq(S)) /\ Len(search) = Len(h) + Len(passes)
        /\ \A b \in 1 .. Len(h) + Len(passes) :
              search[b] = IF b <= Len(h) THEN h[b] ELSE passes[b - Len(h)]
    BY <1>9, <2>2, <2>3, ConcatProperties, Zenon
  <2>5. DOMAIN search = 1 .. 1 + Len(passes) /\ 1 \in 1 .. 1 + Len(passes)
    BY <1>11, <2>2, <2>4, LenProperties
  <2>6. \A b \in 2 .. 1 + Len(passes) : b \in 1 .. 1 + Len(passes) /\ ~(b <= 1)
    BY <1>11
  <2>7. QED
    BY <2>2, <2>4, <2>5, <2>6
<1>13. ASSUME NEW b \in 2 .. 1 + Len(passes)
       PROVE  search[b] \in all
  <2>1. b - 1 \in 1 .. Len(passes)
    BY <1>11
  <2>2. QED
    BY <1>11, <1>12, <2>1
<1>14. ASSUME NEW p \in all
       PROVE  \E b \in 2 .. 1 + Len(passes) : search[b] = p
  <2>1. PICK i \in 1 .. Len(passes) : passes[i] = p
    BY <1>9, <1>11 DEF ToSet
  <2>2. i + 1 \in 2 .. 1 + Len(passes) /\ (i + 1) - 1 = i
    BY <1>11
  <2>3. QED
    BY <1>12, <2>1, <2>2
<1>15. Len(search) >= 2
  BY <1>11, <1>12
<1>16. search[1] # <<>>
  <2>1. ToSet(<<>>) = {}
    BY DEF ToSet
  <2>2. PICK b \in all : ToSet(b) # {}
    BY <1>3, <1>4
  <2>3. S # {}
    BY <2>2
  <2>4. QED
    BY <1>8, <1>12, <2>1, <2>3
<1>17. ASSUME NEW b \in DOMAIN search
       PROVE  Cardinality(ToSet(search[b])) = Len(search[b])
  <2>1. b = 1 \/ b \in 2 .. 1 + Len(passes)
    BY <1>11, <1>12
  <2>2. QED
    BY <1>4, <1>8, <1>12, <1>13, <2>1
<1>18. PrefetchCoversPasses(search)
  BY <1>8, <1>12, <1>13 DEF PrefetchCoversPasses
<1>19. PassesUsePrefetch(search)
  BY <1>8, <1>12, <1>14 DEF PassesUsePrefetch
<1>20. QED
  BY <1>15, <1>16, <1>17, <1>18, <1>19 DEF search

(* What PluginSearch assumes of a request holds of every request: no pass  *)
(* asks outside the prefetch (services/qbittorrent.py, routers/search.py). *)
THEOREM RequestsAreWellFormed == Spec => []RequestIsWellFormed
<1>1. RequestIsWellFormed
  BY SearchesAreWellFormed DEF RequestIsWellFormed, Search
<1>2. QED
  BY <1>1, PTL

(* Nor does any prefetch run a search that no pass reads.                  *)
THEOREM PrefetchesAreUsed == Spec => []PrefetchIsAllUsed
<1>1. PrefetchIsAllUsed
  BY SearchesAreWellFormed DEF PrefetchIsAllUsed, Search
<1>2. QED
  BY <1>1, PTL

-----------------------------------------------------------------------------
(* Selections and sorts of a list, by the elements.                        *)

(* A selection by a condition has the elements that satisfy it.            *)
LEMMA SelectedWhere ==
    ASSUME NEW S, NEW s \in Seq(S), NEW good,
           NEW I, I = {i \in DOMAIN s : s[i] \in good}
    PROVE  Selected(s, I) \in Seq(S) /\ ToSet(Selected(s, I)) = ToSet(s) \cap good
<1>1. I \in SUBSET DOMAIN s
  OBVIOUS
<1>2. Selected(s, I) \in Seq(S) /\ ToSet(Selected(s, I)) = {s[i] : i \in I}
  BY <1>1, SelectedElements
<1>3. {s[i] : i \in I} = {s[i] : i \in DOMAIN s} \cap good
  OBVIOUS
<1>4. QED
  BY <1>2, <1>3 DEF ToSet

(* R puts some elements of S before others, and ties are transitive.       *)
IsWeakOrder(R, S) ==
    /\ \A x \in S : <<x, x>> \notin R
    /\ \A x, y, z \in S : <<x, y>> \in R /\ <<y, z>> \in R => <<x, z>> \in R
    /\ \A x, y, z \in S : <<x, z>> \in R => <<x, y>> \in R \/ <<y, z>> \in R

(* A stable sort's order of places.                                        *)
SortOrder(s, R) ==
    [i \in DOMAIN s |->
        {j \in DOMAIN s : <<s[j], s[i]>> \in R \/ (<<s[i], s[j]>> \notin R /\ j < i)}]

(* Sorting orders the places: by the elements, and equal elements as they  *)
(* were.                                                                   *)
LEMMA SortIsOrder ==
    ASSUME NEW S, NEW s \in Seq(S), NEW R, IsWeakOrder(R, S)
    PROVE  IsOrder(SortOrder(s, R), DOMAIN s)
<1> DEFINE D == DOMAIN s
           before == SortOrder(s, R)
           Rel(i, j) == <<s[i], s[j]>> \in R
<1>1. IsFiniteSet(D) /\ D \subseteq Nat
  BY PlacesAreOrdered
<1>2. \A i \in D : s[i] \in S
  BY LenProperties
<1>3. before \in [D -> SUBSET D]
  BY DEF SortOrder
<1>4. \A i, j \in D : i \in before[j] <=> Rel(i, j) \/ (~Rel(j, i) /\ i < j)
  BY DEF SortOrder
<1>5. /\ \A i \in D : ~Rel(i, i)
      /\ \A i, j, k \in D : Rel(i, j) /\ Rel(j, k) => Rel(i, k)
      /\ \A i, j, k \in D : Rel(i, k) => Rel(i, j) \/ Rel(j, k)
  BY <1>2 DEF IsWeakOrder
<1> HIDE DEF before, Rel, D
<1>6. ASSUME NEW i \in D
      PROVE  i \notin before[i]
  <2>1. ~Rel(i, i) /\ ~(i < i)
    BY <1>1, <1>5
  <2>2. QED
    BY <1>4, <2>1, Zenon
<1>7. ASSUME NEW i \in D, NEW j \in D, NEW k \in D, i \in before[j], j \in before[k]
      PROVE  i \in before[k]
  <2>1. i \in Nat /\ j \in Nat /\ k \in Nat
    BY <1>1
  <2>2. Rel(i, j) \/ (~Rel(j, i) /\ i < j)
    BY <1>4, <1>7
  <2>3. Rel(j, k) \/ (~Rel(k, j) /\ j < k)
    BY <1>4, <1>7
  <2>4. Rel(i, k) \/ (~Rel(k, i) /\ i < k)
    BY <1>5, <2>1, <2>2, <2>3
  <2>5. QED
    BY <1>4, <2>4
<1>8. ASSUME NEW i \in D, NEW j \in D, i # j
      PROVE  i \in before[j] \/ j \in before[i]
  <2>1. i < j \/ j < i
    BY <1>1, <1>8
  <2>2. QED
    BY <1>4, <2>1
<1>9. IsOrder(before, D)
  BY <1>1, <1>3, <1>6, <1>7, <1>8 DEF IsOrder
<1>10. QED
  BY <1>9 DEF before, D

(* t has the places of s, each once.                                       *)
IsRearrangement(t, s) ==
    \E at \in [DOMAIN s -> DOMAIN s] :
       /\ \A n \in DOMAIN s : t[n] = s[at[n]]
       /\ \A m, n \in DOMAIN s : at[m] = at[n] => m = n
       /\ \A i \in DOMAIN s : \E n \in DOMAIN s : at[n] = i

(* A sort has the elements of its list, each as often, in order.           *)
LEMMA SortedElements ==
    ASSUME NEW S, NEW s \in Seq(S), NEW R, IsWeakOrder(R, S),
           NEW t, t = InOrder(s, SortOrder(s, R))
    PROVE  /\ t \in Seq(S) /\ Len(t) = Len(s) /\ DOMAIN t = DOMAIN s
           /\ ToSet(t) = ToSet(s)
           /\ \A m, n \in DOMAIN t : m < n => <<t[n], t[m]>> \notin R
           /\ IsRearrangement(t, s)
<1> DEFINE D == DOMAIN s
           before == SortOrder(s, R)
           at == Places(before, D)
<1>1. IsOrder(before, D)
  BY SortIsOrder
<1>2. Len(s) \in Nat /\ D = 1 .. Len(s) /\ Cardinality(D) = Len(s) /\ \A i \in D : s[i] \in S
  <2>1. Len(s) \in Nat /\ D = 1 .. Len(s) /\ \A i \in D : s[i] \in S
    BY LenProperties
  <2>2. Cardinality(1 .. Len(s)) = Len(s)
    BY <2>1, FS_Interval
  <2>3. QED
    BY <2>1, <2>2
<1>3. /\ t \in Seq(S) /\ Len(t) = Cardinality(D)
      /\ DOMAIN t = 1 .. Cardinality(D)
      /\ \A n \in DOMAIN t : t[n] = s[at[n]]
      /\ ToSet(t) = {s[i] : i \in D}
  <2>1. t = InOrder(s, before)
    OBVIOUS
  <2> HIDE DEF before
  <2>2. QED
    BY <1>1, <2>1, InOrderElements
<1>4. /\ at \in [1 .. Cardinality(D) -> D]
      /\ \A i \in D : \E n \in 1 .. Cardinality(D) : at[n] = i
      /\ \A m, n \in 1 .. Cardinality(D) : m < n => at[m] \in before[at[n]]
      /\ \A m, n \in 1 .. Cardinality(D) : at[m] = at[n] => m = n
  BY <1>1, CountedOff
<1>5. \A i, j \in D : i \in before[j] => <<s[j], s[i]>> \notin R
  <2>1. \A i, j \in D : i \in before[j] => <<s[i], s[j]>> \in R \/ <<s[j], s[i]>> \notin R
    BY DEF SortOrder
  <2>2. QED
    BY <1>2, <2>1 DEF IsWeakOrder
<1> HIDE DEF before, at
<1>6. ASSUME NEW m \in DOMAIN t, NEW n \in DOMAIN t, m < n
      PROVE  <<t[n], t[m]>> \notin R
  <2>1. at[m] \in D /\ at[n] \in D /\ at[m] \in before[at[n]]
    BY <1>3, <1>4, <1>6
  <2>2. t[m] = s[at[m]] /\ t[n] = s[at[n]]
    BY <1>3
  <2>3. QED
    BY <1>5, <2>1, <2>2, Zenon
<1>7. ToSet(t) = ToSet(s)
  BY <1>3 DEF ToSet
<1>8. \E f \in [D -> D] :
         /\ \A n \in D : t[n] = s[f[n]]
         /\ \A m, n \in D : f[m] = f[n] => m = n
         /\ \A i \in D : \E n \in D : f[n] = i
  <2>1. 1 .. Cardinality(D) = D
    BY <1>2
  <2>2. at \in [D -> D] /\ \A n \in D : t[n] = s[at[n]]
    BY <1>3, <1>4, <2>1, Zenon
  <2>3. /\ \A m, n \in D : at[m] = at[n] => m = n
        /\ \A i \in D : \E n \in D : at[n] = i
    BY <1>4, <2>1, Zenon
  <2>4. QED
    BY <2>2, <2>3, Zenon
<1>9. QED
  BY <1>2, <1>3, <1>6, <1>7, <1>8 DEF IsRearrangement

-----------------------------------------------------------------------------
(* Picks: what every stage keeps of the listings.                          *)

(* The URL tells listings apart, and their numbers are numbers.            *)
AreListings(L) ==
    /\ \A l, m \in L : l.url = m.url => l = m
    /\ \A l \in L : l.seeders \in Int /\ l.size \in Int

(* union_by_url loses no listing, where a URL stands for one listing.      *)
LEMMA UnionByUrlElements ==
    ASSUME NEW L, AreListings(L), NEW batches \in Seq(Seq(L))
    PROVE  /\ UnionByUrl(batches) \in Seq(L)
           /\ ToSet(UnionByUrl(batches)) = UNION {ToSet(batches[n]) : n \in DOMAIN batches}
<1> DEFINE all == FlattenSeq(batches)
           url == [i \in DOMAIN all |-> all[i].url]
           first == {i \in DOMAIN all : \A j \in DOMAIN all : j < i => all[j].url # all[i].url}
<1>1. /\ all \in Seq(L)
      /\ ToSet(all) = UNION {ToSet(batches[n]) : n \in DOMAIN batches}
  BY FlattenElements
<1>2. UnionByUrl(batches) = Selected(all, first)
  BY DEF UnionByUrl
<1> HIDE DEF all
<1>3. \A i \in DOMAIN all : \E j \in first : all[j].url = all[i].url
  <2>1. first = {i \in DOMAIN all : \A j \in DOMAIN all : j < i => url[j] # url[i]}
    OBVIOUS
  <2> HIDE DEF first, url
  <2>2. \A i \in DOMAIN all : \E j \in first : url[j] = url[i]
    BY <1>1, <2>1, FirstPlaces
  <2>3. first \subseteq DOMAIN all
    BY DEF first
  <2>4. QED
    BY <2>2, <2>3 DEF url
<1>4. first \in SUBSET DOMAIN all
  OBVIOUS
<1> HIDE DEF first
<1>5. \A i \in DOMAIN all : all[i] \in L
  BY <1>1, LenProperties
<1>6. \A i \in DOMAIN all : \E j \in first : all[j] = all[i]
  BY <1>3, <1>4, <1>5 DEF AreListings
<1>7. /\ Selected(all, first) \in Seq(L)
      /\ ToSet(Selected(all, first)) = {all[i] : i \in first}
  BY <1>1, <1>4, SelectedElements
<1>8. {all[i] : i \in first} = {all[i] : i \in DOMAIN all}
  BY <1>4, <1>6
<1>9. QED
  BY <1>1, <1>2, <1>7, <1>8 DEF ToSet

(* filter_and_sort_results keeps what has the seeders and can be added.    *)
LEMMA FilterAndSortElements ==
    ASSUME NEW L, AreListings(L), NEW results \in Seq(L), NEW minimum
    PROVE  /\ FilterAndSort(results, minimum) \in Seq(L)
           /\ ToSet(FilterAndSort(results, minimum))
              = {l \in ToSet(results) : l.seeders >= minimum /\ l.addable}
<1> DEFINE kept == Selected(results, {i \in DOMAIN results :
                                         results[i].seeders >= minimum /\ results[i].addable})
           R == {x \in L \X L : x[1].seeders > x[2].seeders}
           order == [i \in DOMAIN kept |-> {j \in DOMAIN kept :
                        \/ kept[j].seeders > kept[i].seeders
                        \/ ~(kept[i].seeders > kept[j].seeders) /\ j < i}]
<1>1. FilterAndSort(results, minimum) = InOrder(kept, order)
  BY Zenon DEF FilterAndSort, Filtered, Sorted
<1>2. kept \in Seq(L) /\ ToSet(kept) = {l \in ToSet(results) : l.seeders >= minimum /\ l.addable}
  <2> DEFINE good == {l \in L : l.seeders >= minimum /\ l.addable}
             I == {i \in DOMAIN results : results[i].seeders >= minimum /\ results[i].addable}
  <2>1. \A i \in DOMAIN results : results[i] \in L
    BY LenProperties
  <2>2. I = {i \in DOMAIN results : results[i] \in good}
    BY <2>1
  <2>3. ToSet(results) \cap good = {l \in ToSet(results) : l.seeders >= minimum /\ l.addable}
    BY <2>1 DEF ToSet
  <2> HIDE DEF good, I
  <2>4. Selected(results, I) \in Seq(L) /\ ToSet(Selected(results, I)) = ToSet(results) \cap good
    BY <2>2, SelectedWhere
  <2>5. QED
    BY <2>3, <2>4 DEF I
<1> HIDE DEF kept
<1>3. \A i \in DOMAIN kept : kept[i] \in L
  BY <1>2, LenProperties
<1>4. order = SortOrder(kept, R)
  BY <1>3 DEF SortOrder
<1>5. IsWeakOrder(R, L)
  BY DEF IsWeakOrder, AreListings
<1> HIDE DEF R, order
<1>6. InOrder(kept, order) \in Seq(L) /\ ToSet(InOrder(kept, order)) = ToSet(kept)
  BY <1>2, <1>4, <1>5, SortedElements
<1>7. QED
  BY <1>1, <1>2, <1>6, Zenon

(* A pass keeps a listing for its language ...                             *)
IsUnderstood(l, config) ==
    config.target = NoTarget \/ IsAllowed(l.name, config.target, config.policy)

(* annotate_and_filter keeps what is allowed in the target language.       *)
LEMMA AnnotateElements ==
    ASSUME NEW L, NEW results \in Seq(L), NEW config
    PROVE  /\ AnnotateAndFilter(results, config) \in Seq(L)
           /\ ToSet(AnnotateAndFilter(results, config)) = {l \in ToSet(results) : IsUnderstood(l, config)}
<1> DEFINE good == {l \in L : IsUnderstood(l, config)}
           I == {i \in DOMAIN results : IsUnderstood(results[i], config)}
<1>1. AnnotateAndFilter(results, config) = Selected(results, I)
  BY Zenon DEF AnnotateAndFilter, Filtered, IsUnderstood
<1>2. \A i \in DOMAIN results : results[i] \in L
  BY LenProperties
<1>3. I = {i \in DOMAIN results : results[i] \in good}
  BY <1>2
<1>4. ToSet(results) \cap good = {l \in ToSet(results) : IsUnderstood(l, config)}
  BY <1>2 DEF ToSet
<1> HIDE DEF good, I
<1>5. Selected(results, I) \in Seq(L) /\ ToSet(Selected(results, I)) = ToSet(results) \cap good
  BY <1>3, SelectedWhere
<1>6. QED
  BY <1>1, <1>4, <1>5, Zenon

(* filter_by_year keeps the listings of that year.                         *)
LEMMA FilterByYearElements ==
    ASSUME NEW L, NEW results \in Seq(L), NEW year
    PROVE  /\ FilterByYear(results, year) \in Seq(L)
           /\ ToSet(FilterByYear(results, year)) = {l \in ToSet(results) : l.name.year = year}
<1> DEFINE good == {l \in L : l.name.year = year}
           I == {i \in DOMAIN results : results[i].name.year = year}
<1>1. FilterByYear(results, year) = Selected(results, I)
  BY Zenon DEF FilterByYear, Filtered
<1>2. \A i \in DOMAIN results : results[i] \in L
  BY LenProperties
<1>3. I = {i \in DOMAIN results : results[i] \in good}
  BY <1>2
<1>4. ToSet(results) \cap good = {l \in ToSet(results) : l.name.year = year}
  BY <1>2 DEF ToSet
<1> HIDE DEF good, I
<1>5. Selected(results, I) \in Seq(L) /\ ToSet(Selected(results, I)) = ToSet(results) \cap good
  BY <1>3, SelectedWhere
<1>6. QED
  BY <1>1, <1>4, <1>5, Zenon

(* ... and for its scope.                                                  *)
IsInScope(l, scope) ==
    \/ scope.season = NoNumber
    \/ IsPrimary(l.name, scope)
    \/ IsFallback(l.name, scope)

(* filter_by_scope keeps what is in scope: the fallback follows the        *)
(* primary matches, it does not replace them.                              *)
LEMMA FilterByScopeElements ==
    ASSUME NEW L, NEW results \in Seq(L), NEW scope
    PROVE  /\ FilterByScope(results, scope) \in Seq(L)
           /\ ToSet(FilterByScope(results, scope)) = {l \in ToSet(results) : IsInScope(l, scope)}
<1>1. CASE scope.season = NoNumber
  BY <1>1 DEF FilterByScope, IsInScope
<1>2. CASE scope.season # NoNumber
  <2> DEFINE primary == {l \in L : IsPrimary(l.name, scope)}
             fallback == {l \in L : IsFallback(l.name, scope)}
             I == {i \in DOMAIN results : IsPrimary(results[i].name, scope)}
             J == {i \in DOMAIN results : IsFallback(results[i].name, scope)}
  <2>1. FilterByScope(results, scope) = Selected(results, I) \o Selected(results, J)
    BY <1>2, Zenon DEF FilterByScope, Filtered
  <2>2. \A i \in DOMAIN results : results[i] \in L
    BY LenProperties
  <2>3. /\ I = {i \in DOMAIN results : results[i] \in primary}
        /\ J = {i \in DOMAIN results : results[i] \in fallback}
    BY <2>2
  <2>4. (ToSet(results) \cap primary) \cup (ToSet(results) \cap fallback)
        = {l \in ToSet(results) : IsInScope(l, scope)}
    BY <1>2, <2>2 DEF ToSet, IsInScope
  <2> HIDE DEF primary, fallback, I, J
  <2>5. PICK s, t : s = Selected(results, I) /\ t = Selected(results, J)
    OBVIOUS
  <2>6. /\ s \in Seq(L) /\ ToSet(s) = ToSet(results) \cap primary
        /\ t \in Seq(L) /\ ToSet(t) = ToSet(results) \cap fallback
    BY <2>3, <2>5, SelectedWhere
  <2>7. s \o t \in Seq(L) /\ ToSet(s \o t) = ToSet(s) \cup ToSet(t)
    BY <2>6, ConcatElements
  <2>8. FilterByScope(results, scope) = s \o t
    BY <2>1, <2>5, Zenon
  <2>9. QED
    BY <2>4, <2>6, <2>7, <2>8, Zenon
<1>3. QED
  BY <1>1, <1>2

FoundFor(found, patterns) == UNION {ToSet(found[p]) : p \in patterns}

(* What a pass keeps.                                                      *)
IsKept(l, scope, config) ==
    /\ l.seeders >= config.minimumSeeders /\ l.addable
    /\ IsUnderstood(l, config)
    /\ IsInScope(l, scope)

(* A pass keeps what its patterns found and all its filters admit.         *)
LEMMA PipelineElements ==
    ASSUME NEW L, AreListings(L), NEW P, NEW patterns \in Seq(P), NEW scope, NEW config,
           NEW found, \A p \in ToSet(patterns) : found[p] \in Seq(L)
    PROVE  LET t == SearchPipeline(found, patterns, scope, config)
           IN  /\ t \in Seq(L)
               /\ ToSet(t) = {l \in FoundFor(found, ToSet(patterns)) : IsKept(l, scope, config)}
<1> DEFINE lists == [i \in DOMAIN patterns |-> found[patterns[i]]]
<1>1. Len(patterns) \in Nat /\ DOMAIN patterns = 1 .. Len(patterns)
  BY LenProperties
<1>2. \A i \in DOMAIN patterns : patterns[i] \in ToSet(patterns)
  BY DEF ToSet
<1>3. lists \in [1 .. Len(patterns) -> Seq(L)]
  BY <1>1, <1>2
<1>4. lists \in Seq(Seq(L))
  <2> HIDE DEF lists
  <2>1. QED
    BY <1>1, <1>3, FunctionIsSeq
<1>5. UNION {ToSet(lists[n]) : n \in DOMAIN lists} = FoundFor(found, ToSet(patterns))
  BY DEF FoundFor, ToSet
<1> HIDE DEF lists
<1>6. PICK raw : raw = UnionByUrl(lists)
  OBVIOUS
<1>7. raw \in Seq(L) /\ ToSet(raw) = FoundFor(found, ToSet(patterns))
  BY <1>4, <1>5, <1>6, UnionByUrlElements
<1>8. PICK sorted : sorted = FilterAndSort(raw, config.minimumSeeders)
  OBVIOUS
<1>9. /\ sorted \in Seq(L)
      /\ ToSet(sorted) = {l \in ToSet(raw) : l.seeders >= config.minimumSeeders /\ l.addable}
  BY <1>7, <1>8, FilterAndSortElements
<1>10. PICK read : read = AnnotateAndFilter(sorted, config)
  OBVIOUS
<1>11. /\ read \in Seq(L)
       /\ ToSet(read) = {l \in ToSet(sorted) : IsUnderstood(l, config)}
  BY <1>9, <1>10, AnnotateElements
<1>12. PICK t : t = FilterByScope(read, scope)
  OBVIOUS
<1>13. t \in Seq(L) /\ ToSet(t) = {l \in ToSet(read) : IsInScope(l, scope)}
  BY <1>11, <1>12, FilterByScopeElements
<1>14. SearchPipeline(found, patterns, scope, config) = t
  BY <1>6, <1>8, <1>10, <1>12, Zenon DEF SearchPipeline, lists
<1>15. ToSet(t) = {l \in FoundFor(found, ToSet(patterns)) : IsKept(l, scope, config)}
  BY <1>7, <1>9, <1>11, <1>13 DEF IsKept
<1>16. QED
  BY <1>13, <1>14, <1>15, Zenon

(* What the passes of one query keep.                                      *)
KeptForQuery(found, q, scope, absolute, config) ==
    {l \in FoundFor(found, ToSet(BuildSearchPatterns(q, scope, absolute))) : IsKept(l, scope, config)}
    \cup {l \in FoundFor(found, ToSet(BuildSearchPatterns(BareTitle(q), scope, NoNumber))) :
             HasBareTitlePass(q, scope) /\ IsKept(l, scope, config) /\ l.name.year = q.year}

(* The two passes of a query keep what either of them keeps.               *)
LEMMA QueryPassesElements ==
    ASSUME NEW L, AreListings(L), NEW q, NEW scope, NEW absolute, NEW config, NEW found,
           \A b \in PassesOf(q, scope, absolute) : \A p \in ToSet(b) : found[p] \in Seq(L)
    PROVE  LET t == QueryPasses(found, q, scope, absolute, config)
           IN  /\ t \in Seq(Seq(L))
               /\ UNION {ToSet(x) : x \in ToSet(t)} = KeptForQuery(found, q, scope, absolute, config)
<1> DEFINE build == BuildSearchPatterns(q, scope, absolute)
           bare == BuildSearchPatterns(BareTitle(q), scope, NoNumber)
           Kept(b) == {l \in FoundFor(found, ToSet(b)) : IsKept(l, scope, config)}
           t == QueryPasses(found, q, scope, absolute, config)
<1>1. \A x \in Seq(L) : <<x>> \in Seq(Seq(L)) /\ ToSet(<<x>>) = {x}
  BY DEF ToSet
<1>2. PICK x : x = SearchPipeline(found, build, scope, config)
  OBVIOUS
<1>3. x \in Seq(L) /\ ToSet(x) = Kept(build)
  <2>1. build \in Seq(ToSet(build)) /\ \A p \in ToSet(build) : found[p] \in Seq(L)
    BY BuildShape DEF PassesOf
  <2> HIDE DEF build
  <2>2. QED
    BY <1>2, <2>1, PipelineElements
<1>4. CASE ~HasBareTitlePass(q, scope)
  <2>1. t = <<x>> \o <<>>
    BY <1>2, <1>4, Zenon DEF QueryPasses
  <2> HIDE DEF t
  <2>2. t = <<x>>
    BY <1>1, <1>3, <2>1, ConcatEmptySeq
  <2>3. t \in Seq(Seq(L)) /\ ToSet(t) = {x}
    BY <1>1, <1>3, <2>2
  <2>4. KeptForQuery(found, q, scope, absolute, config) = Kept(build)
    BY <1>4 DEF KeptForQuery
  <2>5. QED
    BY <1>3, <2>3, <2>4 DEF t
<1>5. CASE HasBareTitlePass(q, scope)
  <2>1. PICK z : z = SearchPipeline(found, bare, scope, config)
    OBVIOUS
  <2>2. z \in Seq(L) /\ ToSet(z) = Kept(bare)
    <3>1. bare \in Seq(ToSet(bare)) /\ \A p \in ToSet(bare) : found[p] \in Seq(L)
      BY <1>5, BuildShape DEF PassesOf
    <3> HIDE DEF bare
    <3>2. QED
      BY <2>1, <3>1, PipelineElements
  <2>3. PICK y : y = FilterByYear(z, q.year)
    OBVIOUS
  <2>4. y \in Seq(L) /\ ToSet(y) = {l \in ToSet(z) : l.name.year = q.year}
    BY <2>2, <2>3, FilterByYearElements
  <2>5. PICK u, v : u = <<x>> /\ v = <<y>>
    OBVIOUS
  <2>6. u \in Seq(Seq(L)) /\ ToSet(u) = {x} /\ v \in Seq(Seq(L)) /\ ToSet(v) = {y}
    BY <1>1, <1>3, <2>4, <2>5
  <2>7. t = u \o v
    BY <1>2, <1>5, <2>1, <2>3, <2>5, Zenon DEF QueryPasses
  <2> HIDE DEF t
  <2>8. u \o v \in Seq(Seq(L)) /\ ToSet(u \o v) = ToSet(u) \cup ToSet(v)
    BY <2>6, ConcatElements
  <2>9. t \in Seq(Seq(L)) /\ ToSet(t) = {x, y}
    BY <2>6, <2>7, <2>8
  <2>10. KeptForQuery(found, q, scope, absolute, config) = ToSet(x) \cup ToSet(y)
    BY <1>3, <1>5, <2>2, <2>4 DEF KeptForQuery
  <2>11. QED
    BY <2>9, <2>10 DEF t
<1>6. QED
  BY <1>4, <1>5

(* What the passes of all queries keep.                                    *)
KeptForQueries(found, queries, scope, absolute, config) ==
    UNION {KeptForQuery(found, queries[n], scope, absolute, config) : n \in DOMAIN queries}

(* A pick has an absolute number with an episode only.                     *)
AbsoluteFor(request) == IF request.scope.episode = NoNumber THEN NoNumber ELSE request.absolute

(* A bucket holds what some pass keeps of its resolution.                  *)
LEMMA GroupedElements ==
    ASSUME NEW L, AreListings(L), NEW request, NEW config, NEW found,
           \A b \in AllPasses(SearchQueries(request.query, request.alt), request.scope, AbsoluteFor(request)) :
              \A p \in ToSet(b) : found[p] \in Seq(L),
           NEW bucket \in ToSet(PickResolutions)
    PROVE  LET t == Grouped(found, request, config)[bucket]
           IN  /\ t \in Seq(L)
               /\ ToSet(t) = {l \in KeptForQueries(found, SearchQueries(request.query, request.alt),
                                                 request.scope, AbsoluteFor(request), config) :
                                l.name.resolution = bucket}
<1> DEFINE queries == SearchQueries(request.query, request.alt)
           absolute == AbsoluteFor(request)
           Of(n) == QueryPasses(found, queries[n], request.scope, absolute, config)
           lists == [n \in DOMAIN queries |-> Of(n)]
           kept == KeptForQueries(found, queries, request.scope, absolute, config)
<1>1. PICK N \in 1 .. 2 : DOMAIN queries = 1 .. N
  BY QueriesShape
<1>2. ASSUME NEW n \in DOMAIN queries
      PROVE  /\ lists[n] \in Seq(Seq(L))
             /\ UNION {ToSet(x) : x \in ToSet(lists[n])}
                = KeptForQuery(found, queries[n], request.scope, absolute, config)
  <2>1. \A b \in PassesOf(queries[n], request.scope, absolute) : \A p \in ToSet(b) : found[p] \in Seq(L)
    BY DEF AllPasses
  <2>2. lists[n] = Of(n)
    OBVIOUS
  <2> HIDE DEF queries, absolute, lists
  <2>3. QED
    BY <2>1, <2>2, QueryPassesElements
<1>3. lists \in Seq(Seq(Seq(L))) /\ DOMAIN lists = DOMAIN queries
  <2>1. lists \in [1 .. N -> Seq(Seq(L))]
    BY <1>1, <1>2
  <2> HIDE DEF lists
  <2>2. QED
    BY <1>1, <2>1, FunctionIsSeq
<1>4. Grouped(found, request, config) = GroupByResolution(UnionByUrl(FlattenSeq(lists)))
  BY Zenon DEF Grouped, AbsoluteFor
<1> HIDE DEF queries, absolute, lists
<1>5. PICK flat : flat = FlattenSeq(lists)
  OBVIOUS
<1>6. flat \in Seq(Seq(L)) /\ ToSet(flat) = UNION {ToSet(lists[n]) : n \in DOMAIN lists}
  BY <1>3, <1>5, FlattenElements
<1>7. PICK all : all = UnionByUrl(flat)
  OBVIOUS
<1>8. all \in Seq(L) /\ ToSet(all) = UNION {ToSet(flat[n]) : n \in DOMAIN flat}
  BY <1>6, <1>7, UnionByUrlElements
<1>9. ToSet(all) = UNION {ToSet(x) : x \in ToSet(flat)}
  <2>1. ToSet(flat) = {flat[n] : n \in DOMAIN flat}
    BY DEF ToSet
  <2>2. QED
    BY <1>8, <2>1
<1>10. ToSet(all) = kept
  BY <1>2, <1>3, <1>6, <1>9 DEF KeptForQueries
<1> DEFINE good == {l \in L : l.name.resolution = bucket}
           I == {i \in DOMAIN all : all[i].name.resolution = bucket}
<1>11. GroupByResolution(all)[bucket] = Selected(all, I)
  <2>1. bucket \in ToSet(PickResolutions) \cup {Other}
    OBVIOUS
  <2>2. QED
    BY <2>1, Zenon DEF GroupByResolution, Filtered
<1>12. \A i \in DOMAIN all : all[i] \in L
  BY <1>8, LenProperties
<1>13. I = {i \in DOMAIN all : all[i] \in good}
  BY <1>12
<1>14. ToSet(all) \cap good = {l \in ToSet(all) : l.name.resolution = bucket}
  BY <1>12 DEF ToSet
<1> HIDE DEF good, I
<1>15. Selected(all, I) \in Seq(L) /\ ToSet(Selected(all, I)) = ToSet(all) \cap good
  BY <1>8, <1>13, SelectedWhere
<1>16. Grouped(found, request, config)[bucket] = Selected(all, I)
  BY <1>4, <1>5, <1>7, <1>11, Zenon
<1>17. QED
  BY <1>10, <1>14, <1>15, <1>16, Zenon DEF queries, absolute

-----------------------------------------------------------------------------
(* Picks: the best of the candidates.                                      *)

(* A pick draws from one to three buckets, each once.                      *)
LEMMA BucketsShape ==
    ASSUME NEW request, NEW config, request.resolution \in ToSet(PickResolutions)
    PROVE  LET buckets == PickBuckets(request, config)
           IN  \E n \in 1 .. 3 :
                  /\ DOMAIN buckets = 1 .. n
                  /\ \A i \in 1 .. n : buckets[i] \in ToSet(PickResolutions)
                  /\ \A i, j \in 1 .. n : buckets[i] = buckets[j] => i = j
<1> DEFINE all == PickResolutions
           start == CHOOSE i \in DOMAIN all : all[i] = request.resolution
           buckets == PickBuckets(request, config)
<1>1. /\ all \in Seq(ToSet(all)) /\ Len(all) = 3 /\ DOMAIN all = 1 .. 3
      /\ \A i, j \in 1 .. 3 : all[i] = all[j] => i = j
  <2>1. DOMAIN all = 1 .. 3 /\ \A i, j \in 1 .. 3 : all[i] = all[j] => i = j
    <3>1. "4K" # "1080p" /\ "4K" # "720p" /\ "1080p" # "720p"
      OBVIOUS
    <3>2. QED
      BY <3>1, DistinctTriple DEF PickResolutions
  <2>2. all \in Seq({"4K", "1080p", "720p"}) /\ Len(all) = 3
    BY TripleIsSeq DEF PickResolutions
  <2>3. all \in [1 .. 3 -> ToSet(all)]
    BY <2>1, <2>2, LenProperties DEF ToSet
  <2>4. QED
    BY <2>1, <2>2, <2>3, FunctionIsSeq
<1>2. start \in 1 .. 3
  <2>1. \E i \in DOMAIN all : all[i] = request.resolution
    BY DEF ToSet
  <2>2. QED
    BY <1>1, <2>1
<1>3. CASE config.fallback
  <2>1. buckets = SubSeq(all, start, Len(all))
    BY <1>3, Zenon DEF PickBuckets
  <2> HIDE DEF all, start, buckets
  <2>2. \A i \in start .. 3 : all[i] \in ToSet(all)
    BY <1>1, <1>2 DEF ToSet
  <2>3. /\ buckets \in Seq(ToSet(all))
        /\ Len(buckets) = IF start <= 3 THEN 3 - start + 1 ELSE 0
        /\ \A i \in 1 .. 3 - start + 1 : buckets[i] = all[start + i - 1]
    BY <1>1, <1>2, <2>1, <2>2, SubSeqProperties
  <2> DEFINE n == 3 - start + 1
  <2>4. n \in 1 .. 3 /\ Len(buckets) = n
    BY <1>2, <2>3
  <2>5. DOMAIN buckets = 1 .. n /\ \A i \in 1 .. n : buckets[i] \in ToSet(all)
    BY <2>3, <2>4, LenProperties
  <2>6. ASSUME NEW i \in 1 .. n, NEW j \in 1 .. n, buckets[i] = buckets[j]
        PROVE  i = j
    <3>1. start + i - 1 \in 1 .. 3 /\ start + j - 1 \in 1 .. 3
      BY <1>2
    <3>2. start + i - 1 = start + j - 1
      BY <1>1, <2>3, <2>6, <3>1
    <3>3. QED
      BY <1>2, <3>2
  <2>7. QED
    BY <2>4, <2>5, <2>6 DEF all, buckets
<1>4. CASE ~config.fallback
  <2>1. buckets = <<request.resolution>>
    BY <1>4, Zenon DEF PickBuckets
  <2> HIDE DEF buckets
  <2>2. DOMAIN buckets = 1 .. 1 /\ buckets[1] = request.resolution
    BY <2>1
  <2>3. QED
    BY <2>2 DEF buckets
<1>5. QED
  BY <1>3, <1>4

(* What a candidate is.                                                    *)
IsWanted(l, request) ==
    l.seeders >= request.minSeeders /\ Targets(l.name, request) /\ ~l.name.pre

(* The candidates of a bucket are what is wanted in it.                    *)
LEMMA CandidatesElements ==
    ASSUME NEW L, NEW results \in Seq(L), NEW request
    PROVE  /\ Candidates(results, request) \in Seq(L)
           /\ ToSet(Candidates(results, request)) = {l \in ToSet(results) : IsWanted(l, request)}
<1> DEFINE good == {l \in L : IsWanted(l, request)}
           I == {i \in DOMAIN results : IsWanted(results[i], request)}
<1>1. Candidates(results, request) = Selected(results, I)
  BY Zenon DEF Candidates, Filtered, IsWanted
<1>2. \A i \in DOMAIN results : results[i] \in L
  BY LenProperties
<1>3. I = {i \in DOMAIN results : results[i] \in good}
  BY <1>2
<1>4. ToSet(results) \cap good = {l \in ToSet(results) : IsWanted(l, request)}
  BY <1>2 DEF ToSet
<1> HIDE DEF good, I
<1>5. Selected(results, I) \in Seq(L) /\ ToSet(Selected(results, I)) = ToSet(results) \cap good
  BY <1>3, SelectedWhere
<1>6. QED
  BY <1>1, <1>4, <1>5, Zenon

(* Ranks are comparable: releases may tie, and nothing goes in a circle.   *)
LEMMA RankIsWeakOrder ==
    ASSUME NEW L, AreListings(L), NEW request
    PROVE  IsWeakOrder({x \in L \X L : RanksBelow(x[2], x[1], request)}, L)
<1> DEFINE multi == [l \in L |-> IF request.preferMulti /\ l.name.multi THEN 1 ELSE 0]
<1>1. multi \in [L -> Int]
  OBVIOUS
<1>2. \A l, m \in L :
         RanksBelow(l, m, request) <=>
            \/ multi[l] < multi[m]
            \/ multi[l] = multi[m] /\ l.seeders < m.seeders
            \/ multi[l] = multi[m] /\ l.seeders = m.seeders /\ l.size < m.size
  BY DEF RanksBelow, PairBefore
<1> HIDE DEF multi
<1>3. \A l \in L : multi[l] \in Int /\ l.seeders \in Int /\ l.size \in Int
  BY <1>1 DEF AreListings
<1>4. \A l \in L : ~RanksBelow(l, l, request)
  BY <1>2, <1>3
<1>5. \A k, l, m \in L : RanksBelow(l, k, request) /\ RanksBelow(m, l, request) => RanksBelow(m, k, request)
  BY <1>2, <1>3
<1>6. \A k, l, m \in L : RanksBelow(m, k, request) => RanksBelow(l, k, request) \/ RanksBelow(m, l, request)
  BY <1>2, <1>3
<1>7. QED
  BY <1>4, <1>5, <1>6 DEF IsWeakOrder

(* A list with elements has one that no other ranks above.                 *)
LEMMA HighestRank ==
    ASSUME NEW L, AreListings(L), NEW s \in Seq(L), ToSet(s) # {}, NEW request
    PROVE  \E i \in DOMAIN s : \A j \in DOMAIN s : ~RanksBelow(s[i], s[j], request)
<1> DEFINE R == {x \in L \X L : RanksBelow(x[2], x[1], request)}
<1>1. IsWeakOrder(R, L)
  BY RankIsWeakOrder
<1>2. DOMAIN s # {} /\ \A i \in DOMAIN s : s[i] \in L
  BY LenProperties DEF ToSet
<1>3. PICK i \in DOMAIN s : \A j \in DOMAIN s : j \notin SortOrder(s, R)[i]
  <2> HIDE DEF R
  <2>1. QED
    BY <1>1, <1>2, SortIsOrder, FirstOfOrder
<1>4. \A j \in DOMAIN s : <<s[j], s[i]>> \notin R
  <2> HIDE DEF R
  <2>1. QED
    BY <1>3 DEF SortOrder
<1>5. QED
  BY <1>2, <1>4

(* The least of some natural numbers is one of them.                       *)
LEMMA MinIsLeast ==
    ASSUME NEW T \in SUBSET Nat, T # {}
    PROVE  Min(T) \in T /\ \A m \in T : Min(T) <= m
<1>1. \E n \in T : \A m \in T : n <= m
  BY LeastNumber
<1>2. QED
  BY <1>1, Zenon DEF Min

(* pick_best over buckets that hold what they are named for.               *)
LEMMA PickBestOfBuckets ==
    ASSUME NEW L, AreListings(L), NEW request, NEW config,
           request.resolution \in ToSet(PickResolutions),
           NEW grouped, \A b \in ToSet(PickResolutions) : grouped[b] \in Seq(L)
    PROVE  LET buckets == PickBuckets(request, config)
               Wanted(i) == {l \in ToSet(grouped[buckets[i]]) : IsWanted(l, request)}
               pick == PickBest(grouped, request, config)
           IN  IF \A i \in DOMAIN buckets : Wanted(i) = {} THEN pick = NoPick
               ELSE \E i \in DOMAIN buckets :
                       /\ pick \in Wanted(i)
                       /\ \A l \in Wanted(i) : ~RanksBelow(pick, l, request)
                       /\ \A j \in DOMAIN buckets : Wanted(j) # {} => i <= j
<1> DEFINE buckets == PickBuckets(request, config)
           candidates == [i \in DOMAIN buckets |-> Candidates(grouped[buckets[i]], request)]
           I == {i \in 1 .. Len(candidates) : candidates[i] # <<>>}
           full == IF I # {} THEN Min(I) ELSE 0
           J == {j \in 1 .. Len(candidates[full]) :
                   \A i \in DOMAIN candidates[full] :
                      ~RanksBelow(candidates[full][j], candidates[full][i], request)}
           best == IF J # {} THEN Min(J) ELSE 0
           Wanted(i) == {l \in ToSet(grouped[buckets[i]]) : IsWanted(l, request)}
           pick == PickBest(grouped, request, config)
<1>1. pick = IF full = 0 THEN NoPick ELSE candidates[full][best]
  BY Zenon DEF PickBest, SelectInSeq
<1>2. PICK n \in 1 .. 3 :
         DOMAIN buckets = 1 .. n /\ \A i \in 1 .. n : buckets[i] \in ToSet(PickResolutions)
  <2> HIDE DEF buckets
  <2>1. \E n \in 1 .. 3 :
           /\ DOMAIN buckets = 1 .. n
           /\ \A i \in 1 .. n : buckets[i] \in ToSet(PickResolutions)
           /\ \A i, j \in 1 .. n : buckets[i] = buckets[j] => i = j
    BY BucketsShape DEF buckets
  <2>2. QED
    BY <2>1
<1>3. ASSUME NEW i \in 1 .. n
      PROVE  candidates[i] \in Seq(L) /\ ToSet(candidates[i]) = Wanted(i)
  <2>1. candidates[i] = Candidates(grouped[buckets[i]], request)
    BY <1>2
  <2>2. grouped[buckets[i]] \in Seq(L)
    BY <1>2
  <2> HIDE DEF candidates, buckets
  <2>3. QED
    BY <2>1, <2>2, CandidatesElements
<1>4. candidates \in Seq(Seq(L)) /\ Len(candidates) = n
  <2>1. candidates \in [1 .. n -> Seq(L)]
    BY <1>2, <1>3
  <2> HIDE DEF candidates
  <2>2. QED
    BY <2>1, FunctionIsSeq
<1> HIDE DEF candidates, buckets, pick, best, full, Wanted
<1>5. \A i \in 1 .. n : candidates[i] # <<>> <=> Wanted(i) # {}
  <2>1. \A s \in Seq(L) : s # <<>> <=> ToSet(s) # {}
    <3>1. ASSUME NEW s \in Seq(L), s # <<>>
          PROVE  ToSet(s) # {}
      <4>1. Len(s) \in Nat /\ DOMAIN s = 1 .. Len(s) /\ Len(s) # 0
        BY <3>1, EmptySeq, LenProperties
      <4>2. s[1] \in ToSet(s)
        BY <4>1 DEF ToSet
      <4>3. QED
        BY <4>2
    <3>2. ToSet(<<>>) = {}
      BY DEF ToSet
    <3>3. QED
      BY <3>1, <3>2
  <2>2. QED
    BY <1>3, <2>1
<1>6. I = {i \in 1 .. n : Wanted(i) # {}}
  BY <1>4, <1>5
<1> HIDE DEF I
<1>7. CASE I = {}
  <2>1. full = 0
    BY <1>7 DEF full
  <2>2. pick = NoPick
    BY <1>1, <2>1
  <2>3. \A i \in DOMAIN buckets : Wanted(i) = {}
    BY <1>2, <1>6, <1>7
  <2>4. QED
    BY <2>2, <2>3 DEF buckets, Wanted, pick
<1>8. CASE I # {}
  <2>1. I \in SUBSET Nat
    BY <1>6
  <2>2. full \in I /\ \A i \in I : full <= i
    <3>1. full = Min(I)
      BY <1>8 DEF full
    <3>2. Min(I) \in I /\ \A i \in I : Min(I) <= i
      BY <1>8, <2>1, MinIsLeast
    <3>3. QED
      BY <3>1, <3>2, Zenon
  <2>3. full \in 1 .. n /\ full # 0 /\ Wanted(full) # {}
    BY <1>6, <2>2
  <2>4. PICK s : s = candidates[full]
    OBVIOUS
  <2>5. s \in Seq(L) /\ ToSet(s) = Wanted(full) /\ ToSet(s) # {}
    BY <1>3, <2>3, <2>4
  <2>6. Len(s) \in Nat /\ DOMAIN s = 1 .. Len(s)
    BY <2>5, LenProperties
  <2>7. J = {j \in 1 .. Len(s) : \A i \in DOMAIN s : ~RanksBelow(s[j], s[i], request)}
    BY <2>4, Zenon
  <2> HIDE DEF J
  <2>8. J # {}
    BY <2>5, <2>6, <2>7, HighestRank
  <2>9. J \in SUBSET Nat
    BY <2>7
  <2>10. best \in J
    BY <2>8, <2>9, MinIsLeast DEF best
  <2>11. best \in DOMAIN s /\ \A i \in DOMAIN s : ~RanksBelow(s[best], s[i], request)
    BY <2>6, <2>7, <2>10
  <2>12. pick = s[best]
    BY <1>1, <2>3, <2>4
  <2>13. pick \in Wanted(full) /\ \A l \in Wanted(full) : ~RanksBelow(pick, l, request)
    <3>1. ToSet(s) = {s[i] : i \in DOMAIN s}
      BY DEF ToSet
    <3>2. QED
      BY <2>5, <2>11, <2>12, <3>1
  <2>14. \A j \in DOMAIN buckets : Wanted(j) # {} => full <= j
    BY <1>2, <1>6, <2>2
  <2>15. full \in DOMAIN buckets
    BY <1>2, <2>3
  <2>16. QED
    BY <2>3, <2>13, <2>14, <2>15 DEF buckets, Wanted, pick
<1>9. QED
  BY <1>7, <1>8

-----------------------------------------------------------------------------
(* Picks: the listings that may be picked are the candidates.              *)

(* What pick_best targets no scope filter has dropped.                     *)
LEMMA TargetsAreInScope ==
    ASSUME NEW l, NEW request, Targets(l.name, request)
    PROVE  IsInScope(l, request.scope)
<1> DEFINE scope == request.scope
<1>1. CASE scope.season = NoNumber
  BY <1>1 DEF IsInScope
<1>2. CASE scope.season # NoNumber /\ scope.episode = NoNumber
  <2>1. IsExactSeasonPack(l.name, scope.season)
    BY <1>2 DEF Targets
  <2>2. QED
    BY <1>2, <2>1 DEF IsInScope, IsPrimary, IsExactSeasonPack
<1>3. CASE scope.season # NoNumber /\ scope.episode # NoNumber
  <2>1. \/ IsExactEpisode(l.name, scope.season, scope.episode)
        \/ request.absolute # NoNumber /\ IsAbsoluteEpisode(l.name, request.absolute)
    BY <1>3 DEF Targets
  <2>2. QED
    BY <1>3, <2>1 DEF IsInScope, IsPrimary, IsFallback, IsExactEpisode, IsAbsoluteEpisode
<1>4. QED
  BY <1>1, <1>2, <1>3

(* An absolute number adds a pattern and takes none away.                  *)
LEMMA AbsoluteAddsPattern ==
    ASSUME NEW q, NEW scope, NEW absolute
    PROVE  ToSet(BuildSearchPatterns(q, scope, NoNumber)) \subseteq ToSet(BuildSearchPatterns(q, scope, absolute))
<1> DEFINE seasonTag == <<"season tag", scope.season>>
           episodeTag == <<"episode tag", scope.season, scope.episode>>
           At(f) == Pattern(q, f, scope.media)
           without == BuildSearchPatterns(q, scope, NoNumber)
           with == BuildSearchPatterns(q, scope, absolute)
<1>1. CASE scope.season = NoNumber \/ scope.episode = NoNumber \/ absolute = NoNumber
  <2>1. without = with
    BY <1>1, Zenon DEF BuildSearchPatterns
  <2>2. QED
    BY <2>1
<1>2. CASE scope.season # NoNumber /\ scope.episode # NoNumber /\ absolute # NoNumber
  <2>1. PICK e, a, t : e = episodeTag /\ a = <<"absolute tag", absolute>> /\ t = seasonTag
    OBVIOUS
  <2> DEFINE f == << e, t >>
             g == << e, a, t >>
  <2>2. without = [i \in DOMAIN f |-> At(f[i])] /\ with = [i \in DOMAIN g |-> At(g[i])]
    BY <1>2, <2>1, Zenon DEF BuildSearchPatterns
  <2>3. DOMAIN f = 1 .. 2 /\ f[1] = e /\ f[2] = t
    BY PairPlaces
  <2>4. DOMAIN g = 1 .. 3 /\ g[1] = e /\ g[3] = t
    BY TripleIsSeq
  <2> HIDE DEF f, g, without, with, At
  <2>5. DOMAIN without = 1 .. 2 /\ without[1] = At(e) /\ without[2] = At(t)
    BY <2>2, <2>3
  <2>6. DOMAIN with = 1 .. 3 /\ with[1] = At(e) /\ with[3] = At(t)
    BY <2>2, <2>4
  <2>7. \A i \in 1 .. 2 : i = 1 \/ i = 2
    OBVIOUS
  <2>8. ToSet(without) \subseteq {At(e), At(t)}
    BY <2>5, <2>7 DEF ToSet
  <2>9. {At(e), At(t)} \subseteq ToSet(with)
    <3>1. 1 \in DOMAIN with /\ 3 \in DOMAIN with
      BY <2>6
    <3>2. QED
      BY <2>6, <3>1 DEF ToSet
  <2>10. QED
    BY <2>8, <2>9 DEF with, without
<1>3. QED
  BY <1>1, <1>2

(* A pattern of a pass is one of its own query: the bare title's patterns  *)
(* belong to the bare title.                                               *)
LEMMA PatternOfItsQuery ==
    ASSUME NEW q, NEW scope, NEW absolute, NEW b \in PassesOf(q, scope, absolute), NEW p \in ToSet(b)
    PROVE  /\ p \in ToSet(BuildSearchPatterns(p.query, scope, absolute))
           /\ p.query = q
              \/ /\ HasBareTitlePass(q, scope) /\ p.query = BareTitle(q)
                 /\ p \in ToSet(BuildSearchPatterns(BareTitle(q), scope, NoNumber))
<1>1. CASE b = BuildSearchPatterns(q, scope, absolute)
  BY <1>1, BuildShape
<1>2. CASE b = BuildSearchPatterns(BareTitle(q), scope, NoNumber) /\ HasBareTitlePass(q, scope)
  <2>1. p.query = BareTitle(q)
    BY <1>2, BuildShape
  <2>2. p \in ToSet(BuildSearchPatterns(BareTitle(q), scope, absolute))
    BY <1>2, AbsoluteAddsPattern
  <2>3. QED
    BY <1>2, <2>1, <2>2
<1>3. QED
  BY <1>1, <1>2 DEF PassesOf

(* What the passes keep is what was found for a query of the request, or   *)
(* under its bare title and of its year, and passes the filters.           *)
LEMMA KeptAreListings ==
    ASSUME NEW request, NEW config, NEW found,
           LET queries == SearchQueries(request.query, request.alt)
           IN  /\ \A q \in ToSet(queries) : q.year = NoYear => BareTitle(q) = q
               /\ DOMAIN found = UNION {ToSet(b) : b \in AllPasses(queries, request.scope, AbsoluteFor(request))}
    PROVE  KeptForQueries(found, SearchQueries(request.query, request.alt), request.scope,
                          AbsoluteFor(request), config)
           = {l \in Listings(found, request) : IsKept(l, request.scope, config)}
<1> DEFINE queries == SearchQueries(request.query, request.alt)
           scope == request.scope
           absolute == AbsoluteFor(request)
           kept == KeptForQueries(found, queries, scope, absolute, config)
           Counts(p, l) ==
               \/ p.query \in ToSet(queries)
               \/ \E q \in ToSet(queries) : p.query = BareTitle(q) /\ l.name.year = q.year
<1>1. ASSUME NEW l \in Listings(found, request)
      PROVE  \E p \in DOMAIN found : l \in ToSet(found[p]) /\ Counts(p, l)
  BY DEF Listings
<1>2. ASSUME NEW p \in DOMAIN found, NEW l \in ToSet(found[p]), Counts(p, l)
      PROVE  l \in Listings(found, request)
  BY <1>2 DEF Listings
<1>3. \A p \in DOMAIN found : \E n \in DOMAIN queries : \E b \in PassesOf(queries[n], scope, absolute) : p \in ToSet(b)
  BY DEF AllPasses
<1>4. \A n \in DOMAIN queries : \A b \in PassesOf(queries[n], scope, absolute) : ToSet(b) \subseteq DOMAIN found
  BY DEF AllPasses
<1>5. \A q \in ToSet(queries) : q.year = NoYear => BareTitle(q) = q
  OBVIOUS
<1>6. ToSet(queries) = {queries[n] : n \in DOMAIN queries}
  BY DEF ToSet
<1> HIDE DEF queries, scope, absolute
<1>7. ASSUME NEW l \in kept
      PROVE  l \in Listings(found, request) /\ IsKept(l, scope, config)
  <2>1. PICK n \in DOMAIN queries : l \in KeptForQuery(found, queries[n], scope, absolute, config)
    BY DEF KeptForQueries
  <2> DEFINE q == queries[n]
  <2>2. q \in ToSet(queries)
    BY <1>6
  <2> HIDE DEF Counts
  <2>3. CASE l \in FoundFor(found, ToSet(BuildSearchPatterns(q, scope, absolute))) /\ IsKept(l, scope, config)
    <3>1. PICK p \in ToSet(BuildSearchPatterns(q, scope, absolute)) : l \in ToSet(found[p])
      BY <2>3 DEF FoundFor
    <3>2. p \in DOMAIN found
      BY <1>4 DEF PassesOf
    <3>3. p.query = q
      BY BuildShape
    <3>4. Counts(p, l)
      BY <2>2, <3>3 DEF Counts
    <3>5. QED
      BY <1>2, <2>3, <3>1, <3>2, <3>4
  <2>4. CASE /\ l \in FoundFor(found, ToSet(BuildSearchPatterns(BareTitle(q), scope, NoNumber)))
             /\ HasBareTitlePass(q, scope) /\ IsKept(l, scope, config) /\ l.name.year = q.year
    <3>1. PICK p \in ToSet(BuildSearchPatterns(BareTitle(q), scope, NoNumber)) : l \in ToSet(found[p])
      BY <2>4 DEF FoundFor
    <3>2. p \in DOMAIN found
      BY <1>4, <2>4 DEF PassesOf
    <3>3. p.query = BareTitle(q)
      BY BuildShape
    <3>4. Counts(p, l)
      BY <2>2, <2>4, <3>3 DEF Counts
    <3>5. QED
      BY <1>2, <2>4, <3>1, <3>2, <3>4
  <2>5. QED
    BY <2>1, <2>3, <2>4 DEF KeptForQuery
<1>8. ASSUME NEW l \in Listings(found, request), IsKept(l, scope, config)
      PROVE  l \in kept
  <2>1. PICK p \in DOMAIN found : l \in ToSet(found[p]) /\ Counts(p, l)
    BY <1>1
  <2>2. PICK n \in DOMAIN queries : \E b \in PassesOf(queries[n], scope, absolute) : p \in ToSet(b)
    BY <1>3
  <2>3. /\ p \in ToSet(BuildSearchPatterns(p.query, scope, absolute))
        /\ p.query = queries[n]
           \/ /\ HasBareTitlePass(queries[n], scope) /\ p.query = BareTitle(queries[n])
              /\ p \in ToSet(BuildSearchPatterns(BareTitle(queries[n]), scope, NoNumber))
    BY <2>2, PatternOfItsQuery
  <2>4. CASE p.query \in ToSet(queries)
    <3>1. PICK m \in DOMAIN queries : p.query = queries[m]
      BY <1>6, <2>4
    <3>2. l \in FoundFor(found, ToSet(BuildSearchPatterns(queries[m], scope, absolute)))
      BY <2>1, <2>3, <3>1 DEF FoundFor
    <3>3. l \in KeptForQuery(found, queries[m], scope, absolute, config)
      BY <1>8, <3>2 DEF KeptForQuery
    <3>4. QED
      BY <3>3 DEF KeptForQueries
  <2>5. CASE p.query \notin ToSet(queries)
    <3>1. PICK m \in DOMAIN queries : p.query = BareTitle(queries[m]) /\ l.name.year = queries[m].year
      BY <1>6, <2>1, <2>5
    <3>2. queries[m].year # NoYear
      BY <1>5, <1>6, <2>5, <3>1
    <3>3. p.query # queries[n]
      BY <1>6, <2>5
    <3>4. /\ HasBareTitlePass(queries[n], scope)
          /\ p \in ToSet(BuildSearchPatterns(BareTitle(queries[m]), scope, NoNumber))
      BY <2>3, <3>1, <3>3
    <3>5. HasBareTitlePass(queries[m], scope)
      BY <3>2, <3>4 DEF HasBareTitlePass
    <3>6. l \in FoundFor(found, ToSet(BuildSearchPatterns(BareTitle(queries[m]), scope, NoNumber)))
      BY <2>1, <3>4 DEF FoundFor
    <3>7. l \in KeptForQuery(found, queries[m], scope, absolute, config)
      BY <1>8, <3>1, <3>5, <3>6 DEF KeptForQuery
    <3>8. QED
      BY <3>7 DEF KeptForQueries
  <2>6. QED
    BY <2>4, <2>5
<1>9. kept = {l \in Listings(found, request) : IsKept(l, scope, config)}
  <2> HIDE DEF kept
  <2>1. QED
    BY <1>7, <1>8
<1>10. QED
  BY <1>9 DEF queries, scope, absolute

(* Whatever the plugins find, the release picked is the best of those that *)
(* may be picked: for any request, configuration and number of listings    *)
(* whose URL tells them apart (routers/search.py:212-282).                 *)
THEOREM BestIsPicked ==
    ASSUME NEW L, AreListings(L), NEW request, NEW config, NEW found,
           request.resolution \in ToSet(PickResolutions),
           LET queries == SearchQueries(request.query, request.alt)
           IN  /\ \A q \in ToSet(queries) : q.year = NoYear => BareTitle(q) = q
               /\ DOMAIN found = UNION {ToSet(b) : b \in AllPasses(queries, request.scope, AbsoluteFor(request))},
           \A p \in DOMAIN found : found[p] \in Seq(L)
    PROVE  IsBestPick(Pick(found, request, config), found, request, config)
<1> DEFINE queries == SearchQueries(request.query, request.alt)
           grouped == Grouped(found, request, config)
           buckets == PickBuckets(request, config)
           eligible == {l \in Listings(found, request) : MayPick(l, request, config)}
           kept == KeptForQueries(found, queries, request.scope, AbsoluteFor(request), config)
           Wanted(i) == {l \in ToSet(grouped[buckets[i]]) : IsWanted(l, request)}
           Bucket(l) == CHOOSE i \in DOMAIN buckets : buckets[i] = l.name.resolution
           pick == Pick(found, request, config)
<1>1. PICK n \in 1 .. 3 :
         /\ DOMAIN buckets = 1 .. n
         /\ \A i \in 1 .. n : buckets[i] \in ToSet(PickResolutions)
         /\ \A i, j \in 1 .. n : buckets[i] = buckets[j] => i = j
  BY BucketsShape
<1>2. \A b \in AllPasses(queries, request.scope, AbsoluteFor(request)) :
         \A p \in ToSet(b) : found[p] \in Seq(L)
  OBVIOUS
<1>3. \A bucket \in ToSet(PickResolutions) :
         /\ grouped[bucket] \in Seq(L)
         /\ ToSet(grouped[bucket]) = {l \in kept : l.name.resolution = bucket}
  BY <1>2, GroupedElements
<1>4. kept = {l \in Listings(found, request) : IsKept(l, request.scope, config)}
  BY KeptAreListings
<1>5. IF \A i \in DOMAIN buckets : Wanted(i) = {} THEN pick = NoPick
      ELSE \E i \in DOMAIN buckets :
              /\ pick \in Wanted(i)
              /\ \A l \in Wanted(i) : ~RanksBelow(pick, l, request)
              /\ \A j \in DOMAIN buckets : Wanted(j) # {} => i <= j
  <2>1. pick = PickBest(grouped, request, config)
    BY DEF Pick
  <2> HIDE DEF grouped, pick
  <2>2. \A b \in ToSet(PickResolutions) : grouped[b] \in Seq(L)
    BY <1>3
  <2>3. QED
    BY <2>1, <2>2, PickBestOfBuckets
<1> HIDE DEF queries, grouped, buckets, kept, pick
<1>6. \A l : MayPick(l, request, config) <=>
         /\ IsKept(l, request.scope, config)
         /\ IsWanted(l, request)
         /\ l.name.resolution \in ToSet(buckets)
  <2>1. ASSUME NEW l
        PROVE  MayPick(l, request, config) <=>
                  /\ IsKept(l, request.scope, config)
                  /\ IsWanted(l, request)
                  /\ l.name.resolution \in ToSet(buckets)
    <3>1. Targets(l.name, request) => IsInScope(l, request.scope)
      BY TargetsAreInScope
    <3>2. QED
      BY <3>1, Zenon DEF MayPick, IsKept, IsWanted, IsUnderstood, buckets
  <2>2. QED
    BY <2>1, Zenon
<1>7. ASSUME NEW i \in 1 .. n
      PROVE  Wanted(i) = {l \in eligible : l.name.resolution = buckets[i]}
  <2>1. buckets[i] \in ToSet(buckets) /\ buckets[i] \in ToSet(PickResolutions)
    BY <1>1 DEF ToSet
  <2>2. ToSet(grouped[buckets[i]]) = {l \in kept : l.name.resolution = buckets[i]}
    BY <1>3, <2>1
  <2>3. QED
    BY <1>4, <1>6, <2>1, <2>2
<1>8. \A l \in eligible : \E i \in 1 .. n : buckets[i] = l.name.resolution
  BY <1>1, <1>6 DEF ToSet
<1>9. ASSUME NEW i \in 1 .. n, NEW l \in Wanted(i)
      PROVE  l \in eligible /\ Bucket(l) = i
  <2>1. l \in eligible /\ l.name.resolution = buckets[i]
    BY <1>7
  <2>2. Bucket(l) \in 1 .. n /\ buckets[Bucket(l)] = buckets[i]
    BY <1>1, <2>1
  <2>3. QED
    BY <1>1, <2>1, <2>2
<1> HIDE DEF Wanted, eligible, Bucket
<1>10. CASE eligible = {}
  <2>1. \A i \in DOMAIN buckets : Wanted(i) = {}
    BY <1>1, <1>9, <1>10
  <2>2. pick = NoPick
    BY <1>5, <2>1
  <2>3. QED
    BY <1>10, <2>2 DEF IsBestPick, eligible, pick
<1>11. CASE eligible # {}
  <2>1. \A l \in eligible : \E j \in 1 .. n : l \in Wanted(j)
    BY <1>7, <1>8
  <2>2. ~ \A i \in DOMAIN buckets : Wanted(i) = {}
    BY <1>1, <1>11, <2>1
  <2>3. PICK i \in 1 .. n :
           /\ pick \in Wanted(i)
           /\ \A l \in Wanted(i) : ~RanksBelow(pick, l, request)
           /\ \A j \in 1 .. n : Wanted(j) # {} => i <= j
    BY <1>1, <1>5, <2>2
  <2>4. pick \in eligible /\ Bucket(pick) = i
    BY <1>9, <2>3
  <2>5. ASSUME NEW l \in eligible
        PROVE  /\ Bucket(pick) <= Bucket(l)
               /\ Bucket(pick) = Bucket(l) => ~RanksBelow(pick, l, request)
    <3>1. PICK j \in 1 .. n : l \in Wanted(j)
      BY <2>1
    <3>2. Bucket(l) = j /\ i <= j
      BY <1>9, <2>3, <3>1
    <3>3. QED
      BY <2>3, <2>4, <3>1, <3>2
  <2>6. QED
    BY <1>11, <2>4, <2>5 DEF IsBestPick, eligible, pick, Bucket, buckets
<1>12. QED
  BY <1>10, <1>11

-----------------------------------------------------------------------------
(* The inputs of the specification.                                        *)

PickIsAsked ==
    Asked("pick") =>
        /\ input.ask \in Picks /\ input.rule \in Rules
        /\ \E n \in Nat :
              /\ input.offers \in [1 .. n -> Offers[input.ask.scope]]
              /\ input.places \in [1 .. n -> DOMAIN PatternsOf(input.ask)]

NumberingIsAsked ==
    Asked("numbering") =>
        /\ input.canonical \in Canonicals
        /\ \E n \in Nat : input.groups \in [1 .. n -> EpisodeGroups]

(* An input is one that can be asked.                                      *)
InputIsAsked == PickIsAsked /\ NumberingIsAsked

(* Every step leaves an input that can be asked, or none.                  *)
THEOREM InputsAreAsked == Spec => []InputIsAsked
<1>1. Init => InputIsAsked
  BY DEF Init, InputIsAsked, PickIsAsked, NumberingIsAsked, Asked
<1>2. ASSUME InputIsAsked, [Next]_input
      PROVE  InputIsAsked'
  <2>1. CASE AskPatterns
    <3>1. PICK ask \in Searches : input' = [kind |-> "search", ask |-> ask]
      BY <2>1 DEF AskPatterns
    <3>2. input'.kind = "search"
      BY <3>1
    <3>3. QED
      BY <3>2 DEF InputIsAsked, PickIsAsked, NumberingIsAsked, Asked
  <2>2. CASE AskPick
    <3> DEFINE Asks(ask, rule, offers, places) ==
                  input' = [kind |-> "pick", ask |-> ask, rule |-> rule,
                            offers |-> offers, places |-> places]
    <3>1. PICK ask \in Picks, rule \in Rules, n \in 0 .. MaxListings :
             \E offers \in [1 .. n -> Offers[ask.scope]], places \in [1 .. n -> DOMAIN PatternsOf(ask)] :
                Asks(ask, rule, offers, places)
      BY <2>2, Zenon DEF AskPick
    <3>2. PICK offers \in [1 .. n -> Offers[ask.scope]], places \in [1 .. n -> DOMAIN PatternsOf(ask)] :
             Asks(ask, rule, offers, places)
      BY <3>1
    <3>3. /\ input'.kind = "pick" /\ input'.ask = ask /\ input'.rule = rule
          /\ input'.offers = offers /\ input'.places = places
      BY <3>2
    <3>4. n \in Nat
      BY BoundsAssumption
    <3>5. PickIsAsked'
      BY <3>3, <3>4, Zenon DEF PickIsAsked, PatternsOf, AbsoluteOf
    <3>6. NumberingIsAsked'
      BY <3>3 DEF NumberingIsAsked, Asked
    <3>7. QED
      BY <3>5, <3>6 DEF InputIsAsked
  <2>3. CASE AskNumbering
    <3> DEFINE Asks(canonical, groups) ==
                  input' = [kind |-> "numbering", canonical |-> canonical, groups |-> groups]
    <3>1. PICK canonical \in Canonicals, n \in 0 .. MaxGroups :
             \E groups \in [1 .. n -> EpisodeGroups] : Asks(canonical, groups)
      BY <2>3, Zenon DEF AskNumbering
    <3>2. PICK groups \in [1 .. n -> EpisodeGroups] : Asks(canonical, groups)
      BY <3>1
    <3>3. input'.kind = "numbering" /\ input'.canonical = canonical /\ input'.groups = groups
      BY <3>2
    <3>4. n \in Nat
      BY BoundsAssumption
    <3>5. PickIsAsked'
      BY <3>3 DEF PickIsAsked, Asked
    <3>6. NumberingIsAsked'
      BY <3>3, <3>4 DEF NumberingIsAsked, Asked
    <3>7. QED
      BY <3>5, <3>6 DEF InputIsAsked
  <2>4. CASE Forget
    BY <2>4 DEF Forget, InputIsAsked, PickIsAsked, NumberingIsAsked, Asked
  <2>5. CASE UNCHANGED input
    BY <1>2, <2>5 DEF InputIsAsked, PickIsAsked, NumberingIsAsked, Asked, PatternsOf, AbsoluteOf
  <2>6. QED
    BY <1>2, <2>1, <2>2, <2>3, <2>4, <2>5 DEF Next
<1>3. QED
  BY <1>1, <1>2, PTL DEF Spec

(* The pick, for what is asked.                                            *)
LEMMA AskedPickIsBest == PickIsAsked => PickIsBest
<1> DEFINE ask == input.ask
           queries == SearchQueries(ask.query, ask.alt)
           patterns == PatternsOf(ask)
           all == AllPasses(queries, ask.scope, AbsoluteOf(ask))
           Listing(offer) == [url |-> offer, addable |-> offer.addable, seeders |-> offer.seeders,
                              size |-> offer.size, name |-> offer.name]
           L == {Listing(offer) : offer \in Offers[ask.scope]}
           listings == [n \in DOMAIN input.offers |-> Listing(input.offers[n])]
           found == Found
<1> SUFFICES ASSUME PickIsAsked, Asked("pick")
             PROVE  IsBestPick(Pick(found, Request, input.rule.config), found, Request, input.rule.config)
  BY DEF PickIsBest
<1>1. PICK N \in Nat :
         /\ input.offers \in [1 .. N -> Offers[ask.scope]]
         /\ input.places \in [1 .. N -> DOMAIN patterns]
  BY DEF PickIsAsked
<1>2. ask \in Picks /\ input.rule \in Rules
  BY DEF PickIsAsked
<1>3. AreListings(L)
  <2>1. \A offer \in Offers[ask.scope] : offer.seeders \in Int /\ offer.size \in Int
    BY <1>2, OffersAssumption
  <2>2. \A offer : Listing(offer).url = offer
    OBVIOUS
  <2>3. \A offer : Listing(offer).seeders = offer.seeders /\ Listing(offer).size = offer.size
    OBVIOUS
  <2> HIDE DEF Listing
  <2>4. QED
    BY <2>1, <2>2, <2>3 DEF AreListings
<1>4. listings \in Seq(L)
  <2>1. listings \in [1 .. N -> L]
    BY <1>1
  <2> HIDE DEF listings, L
  <2>2. QED
    BY <2>1, FunctionIsSeq
<1>5. found = [p \in ToSet(patterns) |->
                  Selected(listings, {n \in DOMAIN listings : patterns[input.places[n]] = p})]
  BY Zenon DEF Found
<1>6. ToSet(patterns) = UNION {ToSet(b) : b \in all}
  <2> DEFINE S == UNION {ToSet(b) : b \in all}
  <2>1. all \subseteq Seq(S)
    <3>1. \A b \in all : b \in Seq(ToSet(b)) /\ ToSet(b) \subseteq S
      BY PassShape
    <3> HIDE DEF all, S
    <3>2. QED
      BY <3>1, WiderSeq
  <2>2. PICK n \in 1 .. 2 : DOMAIN queries = 1 .. n
    BY QueriesShape
  <2>3. n \in Nat
    OBVIOUS
  <2>4. patterns = RequestPatterns(queries, ask.scope, AbsoluteOf(ask))
    BY DEF PatternsOf
  <2> HIDE DEF S, queries, patterns, ask
  <2>5. QED
    BY <2>1, <2>2, <2>3, <2>4, PrefetchElements
<1>7. /\ Request.query = ask.query /\ Request.alt = ask.alt /\ Request.scope = ask.scope
      /\ Request.absolute = ask.absolute /\ Request.resolution = input.rule.resolution
  BY DEF Request
<1>8. AbsoluteFor(Request) = AbsoluteOf(ask)
  BY <1>7 DEF AbsoluteFor, AbsoluteOf
<1> HIDE DEF listings, L
<1>9. \A p \in ToSet(patterns) : found[p] \in Seq(L)
  <2>1. ASSUME NEW p \in ToSet(patterns)
        PROVE  found[p] \in Seq(L)
    <3>1. PICK I \in SUBSET DOMAIN listings : I = {n \in DOMAIN listings : patterns[input.places[n]] = p}
      OBVIOUS
    <3>2. found[p] = Selected(listings, I)
      BY <1>5, <2>1, <3>1
    <3>3. QED
      BY <1>4, <3>2, SelectedElements
  <2>2. QED
    BY <2>1
<1>10. DOMAIN found = UNION {ToSet(b) : b \in all}
  BY <1>5, <1>6
<1>11. \A q \in ToSet(queries) : q.year = NoYear => BareTitle(q) = q
  BY <1>2, PicksAssumption
<1>12. Request.resolution \in ToSet(PickResolutions)
  BY <1>2, <1>7, RulesAssumption
<1> HIDE DEF found, patterns
<1>13. /\ \A q \in ToSet(SearchQueries(Request.query, Request.alt)) : q.year = NoYear => BareTitle(q) = q
       /\ DOMAIN found = UNION {ToSet(b) : b \in AllPasses(SearchQueries(Request.query, Request.alt),
                                                          Request.scope, AbsoluteFor(Request))}
       /\ \A p \in DOMAIN found : found[p] \in Seq(L)
  <2>1. \A p \in DOMAIN found : found[p] \in Seq(L)
    BY <1>6, <1>9, <1>10
  <2>2. QED
    BY <1>7, <1>8, <1>10, <1>11, <2>1, Zenon
<1>14. QED
  <2> HIDE DEF ask, queries, all
  <2>1. QED
    BY <1>3, <1>12, <1>13, BestIsPicked

(* pick_best's docstring, end to end: no release that may be picked is in  *)
(* a better bucket, or in the same one of a higher rank, than the picked.  *)
THEOREM PicksAreBest == Spec => []PickIsBest
BY InputsAreAsked, AskedPickIsBest, PTL DEF InputIsAsked

-----------------------------------------------------------------------------
(* Numberings: the regular episodes in order.                              *)

Episode == [key : Keys, aired : BOOLEAN]

(* The canonical episodes of a show: none twice.                           *)
IsCanonical(canonical) ==
    /\ canonical \in Seq(Episode)
    /\ \A i, j \in DOMAIN canonical : canonical[i].key = canonical[j].key => i = j

RegularEpisodes(canonical) == {e \in ToSet(canonical) : e.key[1] # Specials}

(* Pairs of numbers are strictly and totally ordered.                      *)
LEMMA PairsAreOrdered ==
    /\ \A p \in Keys : ~PairBefore(p, p)
    /\ \A p, q, r \in Keys : PairBefore(p, q) /\ PairBefore(q, r) => PairBefore(p, r)
    /\ \A p, q \in Keys : PairBefore(p, q) \/ p = q \/ PairBefore(q, p)
<1>1. \A p \in Keys : p[1] \in Nat /\ p[2] \in Nat
  BY DEF Keys
<1>2. \A p, q \in Keys : p[1] = q[1] /\ p[2] = q[2] => p = q
  BY DEF Keys
<1>3. \A p \in Keys : ~PairBefore(p, p)
  BY <1>1 DEF PairBefore
<1>4. \A p, q, r \in Keys : PairBefore(p, q) /\ PairBefore(q, r) => PairBefore(p, r)
  BY <1>1 DEF PairBefore
<1>5. \A p, q \in Keys : PairBefore(p, q) \/ p = q \/ PairBefore(q, p)
  BY <1>1, <1>2 DEF PairBefore
<1>6. QED
  BY <1>3, <1>4, <1>5

EpisodeOrder == {x \in Episode \X Episode : PairBefore(x[1].key, x[2].key)}

(* Episodes are comparable by their keys.                                  *)
LEMMA EpisodesAreOrdered == IsWeakOrder(EpisodeOrder, Episode)
<1>1. \A e \in Episode : e.key \in Keys
  BY DEF Episode
<1>2. \A x, y \in Episode : <<x, y>> \in EpisodeOrder <=> PairBefore(x.key, y.key)
  BY DEF EpisodeOrder
<1>3. QED
  BY <1>1, <1>2, PairsAreOrdered DEF IsWeakOrder

(* Episodes of different keys, sorted, have growing keys.                  *)
LEMMA SortedEpisodes ==
    ASSUME NEW s \in Seq(Episode), \A i, j \in DOMAIN s : s[i].key = s[j].key => i = j,
           NEW r, r = InOrder(s, SortOrder(s, EpisodeOrder))
    PROVE  /\ r \in Seq(Episode) /\ ToSet(r) = ToSet(s)
           /\ \A m, n \in DOMAIN r : m < n => PairBefore(r[m].key, r[n].key)
<1>1. /\ r \in Seq(Episode) /\ DOMAIN r = DOMAIN s /\ ToSet(r) = ToSet(s)
      /\ \A m, n \in DOMAIN r : m < n => <<r[n], r[m]>> \notin EpisodeOrder
      /\ IsRearrangement(r, s)
  BY EpisodesAreOrdered, SortedElements
<1>2. PICK to \in [DOMAIN s -> DOMAIN s] :
         /\ \A n \in DOMAIN s : r[n] = s[to[n]]
         /\ \A m, n \in DOMAIN s : to[m] = to[n] => m = n
  BY <1>1 DEF IsRearrangement
<1>3. ASSUME NEW m \in DOMAIN r, NEW n \in DOMAIN r, m < n
      PROVE  PairBefore(r[m].key, r[n].key)
  <2>1. r[m] \in Episode /\ r[n] \in Episode
    BY <1>1, LenProperties
  <2>2. r[m].key \in Keys /\ r[n].key \in Keys
    BY <2>1 DEF Episode
  <2>3. ~PairBefore(r[n].key, r[m].key)
    BY <1>1, <1>3, <2>1 DEF EpisodeOrder
  <2>4. m # n
    BY <1>1, <1>3, PlacesAreOrdered
  <2>5. to[m] \in DOMAIN s /\ to[n] \in DOMAIN s /\ to[m] # to[n]
    BY <1>1, <1>2, <2>4
  <2>6. r[m] = s[to[m]] /\ r[n] = s[to[n]]
    BY <1>1, <1>2
  <2>7. QED
    BY <2>2, <2>3, <2>5, <2>6, PairsAreOrdered
<1>4. QED
  BY <1>1, <1>3

(* The regular episodes are all that are no specials, with growing keys.   *)
LEMMA RegularShape ==
    ASSUME NEW canonical, IsCanonical(canonical)
    PROVE  LET r == Regular(canonical)
           IN  /\ r \in Seq(Episode) /\ ToSet(r) = RegularEpisodes(canonical)
               /\ \A m, n \in DOMAIN r : m < n => PairBefore(r[m].key, r[n].key)
<1> DEFINE I == {i \in DOMAIN canonical : canonical[i].key[1] # Specials}
<1>1. PICK s : s = Selected(canonical, I)
  OBVIOUS
<1> DEFINE order == [i \in DOMAIN s |-> {j \in DOMAIN s :
                        \/ PairBefore(s[j].key, s[i].key)
                        \/ ~PairBefore(s[i].key, s[j].key) /\ j < i}]
<1>2. Regular(canonical) = InOrder(s, order)
  BY <1>1, Zenon DEF Regular, Filtered, Sorted
<1>3. canonical \in Seq(Episode) /\ I \in SUBSET DOMAIN canonical
  BY DEF IsCanonical
<1>4. {canonical[i] : i \in I} = RegularEpisodes(canonical)
  BY DEF RegularEpisodes, ToSet
<1> HIDE DEF I
<1>5. s \in Seq(Episode) /\ ToSet(s) = {canonical[i] : i \in I} /\ IsSubsequence(s, canonical, I)
  BY <1>1, <1>3, SelectedElements
<1>6. PICK at \in [DOMAIN s -> I] :
         /\ \A n \in DOMAIN s : s[n] = canonical[at[n]]
         /\ \A m, n \in DOMAIN s : m < n => at[m] < at[n]
  BY <1>5 DEF IsSubsequence
<1>7. ASSUME NEW m \in DOMAIN s, NEW n \in DOMAIN s, s[m].key = s[n].key
      PROVE  m = n
  <2>1. at[m] = at[n]
    BY <1>3, <1>6, <1>7 DEF IsCanonical
  <2>2. at[m] \in Nat /\ m \in Nat /\ n \in Nat
    BY <1>3, <1>5, <1>6, PlacesAreOrdered
  <2>3. ~(m < n) /\ ~(n < m)
    BY <1>6, <2>1, <2>2
  <2>4. QED
    BY <2>2, <2>3
<1>8. order = SortOrder(s, EpisodeOrder)
  <2>1. \A i \in DOMAIN s : s[i] \in Episode
    BY <1>5, LenProperties
  <2>2. QED
    BY <2>1 DEF SortOrder, EpisodeOrder
<1>9. PICK r : r = Regular(canonical)
  OBVIOUS
<1>10. r = InOrder(s, SortOrder(s, EpisodeOrder))
  BY <1>2, <1>8, <1>9, Zenon
<1> HIDE DEF order
<1>11. /\ r \in Seq(Episode) /\ ToSet(r) = ToSet(s)
       /\ \A m, n \in DOMAIN r : m < n => PairBefore(r[m].key, r[n].key)
  BY <1>5, <1>7, <1>10, SortedEpisodes
<1>12. QED
  BY <1>4, <1>5, <1>9, <1>11

RegularKeys(canonical) == KeysOf(Regular(canonical))

(* The keys of the regular episodes, each once and in order.               *)
LEMMA RegularKeysShape ==
    ASSUME NEW canonical, IsCanonical(canonical), NEW k, k = RegularKeys(canonical)
    PROVE  /\ k \in Seq(Keys)
           /\ ToSet(k) = {e.key : e \in RegularEpisodes(canonical)}
           /\ \A m, n \in DOMAIN k : m < n => PairBefore(k[m], k[n])
           /\ \A m, n \in DOMAIN k : k[m] = k[n] => m = n
<1>1. PICK r : r = Regular(canonical)
  OBVIOUS
<1>2. /\ r \in Seq(Episode) /\ ToSet(r) = RegularEpisodes(canonical)
      /\ \A m, n \in DOMAIN r : m < n => PairBefore(r[m].key, r[n].key)
  BY <1>1, RegularShape
<1>3. k = [i \in DOMAIN r |-> r[i].key]
  BY <1>1 DEF RegularKeys, KeysOf
<1>4. /\ Len(r) \in Nat /\ DOMAIN r = 1 .. Len(r)
      /\ \A i \in DOMAIN r : r[i] \in Episode
  BY <1>2, LenProperties
<1>5. \A i \in DOMAIN r : r[i].key \in Keys
  BY <1>4 DEF Episode
<1>6. k \in [1 .. Len(r) -> Keys] /\ DOMAIN k = DOMAIN r /\ \A i \in DOMAIN r : k[i] = r[i].key
  BY <1>3, <1>4, <1>5
<1>7. k \in Seq(Keys)
  BY <1>4, <1>6, FunctionIsSeq
<1>8. ToSet(k) = {e.key : e \in RegularEpisodes(canonical)}
  <2>1. ToSet(k) = {r[i].key : i \in DOMAIN r}
    BY <1>6 DEF ToSet
  <2>2. {e.key : e \in ToSet(r)} = {r[i].key : i \in DOMAIN r}
    BY DEF ToSet
  <2>3. QED
    BY <1>2, <2>1, <2>2
<1>9. ASSUME NEW m \in DOMAIN k, NEW n \in DOMAIN k, m < n
      PROVE  PairBefore(k[m], k[n])
  BY <1>2, <1>6, <1>9
<1>10. ASSUME NEW m \in DOMAIN k, NEW n \in DOMAIN k, k[m] = k[n]
       PROVE  m = n
  <2>1. k[m] \in Keys /\ m \in Nat /\ n \in Nat
    BY <1>4, <1>5, <1>6
  <2>2. ~PairBefore(k[m], k[m])
    BY <2>1, PairsAreOrdered
  <2>3. ~(m < n)
    BY <1>9, <1>10, <2>2
  <2>4. ~(n < m)
    BY <1>9, <1>10, <2>2
  <2>5. QED
    BY <2>1, <2>3, <2>4
<1>11. QED
  BY <1>7, <1>8, <1>9, <1>10

(* The canonical numbering tells every regular episode apart.              *)
LEMMA IdentityIsOneToOne ==
    ASSUME NEW canonical, IsCanonical(canonical)
    PROVE  IsComplete(IdentityNumbering(canonical), canonical) /\ IsOrdered(IdentityNumbering(canonical))
<1>1. PICK k : k = RegularKeys(canonical)
  OBVIOUS
<1>2. /\ ToSet(k) = {e.key : e \in RegularEpisodes(canonical)}
      /\ \A m, n \in DOMAIN k : m < n => PairBefore(k[m], k[n])
      /\ \A m, n \in DOMAIN k : k[m] = k[n] => m = n
  BY <1>1, RegularKeysShape
<1>3. PICK t : t = IdentityNumbering(canonical)
  OBVIOUS
<1>4. t = [i \in DOMAIN k |-> [key |-> k[i], release |-> k[i], absolute |-> i]]
  BY <1>1, <1>3 DEF IdentityNumbering, RegularKeys
<1>5. /\ DOMAIN t = DOMAIN k
      /\ \A i \in DOMAIN t : t[i].key = k[i] /\ t[i].release = k[i] /\ t[i].absolute = i
  BY <1>4
<1>6. ToSet(KeysOf(t)) = ToSet(k)
  <2>1. ToSet(KeysOf(t)) = {t[i].key : i \in DOMAIN t}
    BY DEF KeysOf, ToSet
  <2>2. {t[i].key : i \in DOMAIN t} = {k[i] : i \in DOMAIN k}
    BY <1>5
  <2>3. QED
    BY <2>1, <2>2 DEF ToSet
<1>7. IsComplete(t, canonical)
  BY <1>2, <1>5, <1>6 DEF IsComplete, RegularEpisodes
<1>8. IsOrdered(t)
  BY <1>2, <1>5 DEF IsOrdered
<1>9. QED
  BY <1>3, <1>7, <1>8

-----------------------------------------------------------------------------
(* Numberings: the groups.                                                 *)

Group == [order : Nat, episodes : Seq(Keys)]

(* No episode is in two places of the groups.                              *)
HaveNoRepeats(groups) ==
    \A s, t \in Slots(groups) : KeyAt(groups, s) = KeyAt(groups, t) => s = t

(* A slot is a group and a place in it, and holds a key.                   *)
LEMMA SlotsShape ==
    ASSUME NEW groups \in Seq(Group)
    PROVE  /\ \A s \in Slots(groups) :
                 /\ s = <<s[1], s[2]>> /\ s[1] \in DOMAIN groups /\ s[2] \in Nat \ {0}
                 /\ s[2] \in DOMAIN groups[s[1]].episodes
                 /\ KeyAt(groups, s) \in Keys
           /\ \A g \in DOMAIN groups : \A i \in DOMAIN groups[g].episodes : <<g, i>> \in Slots(groups)
           /\ \A g \in DOMAIN groups :
                 /\ groups[g].order \in Nat /\ groups[g].episodes \in Seq(Keys)
                 /\ Len(groups[g].episodes) \in Nat
                 /\ DOMAIN groups[g].episodes = 1 .. Len(groups[g].episodes)
<1>1. \A g \in DOMAIN groups : groups[g] \in Group
  BY LenProperties
<1>2. \A g \in DOMAIN groups : groups[g].order \in Nat /\ groups[g].episodes \in Seq(Keys)
  BY <1>1 DEF Group
<1>3. ASSUME NEW g \in DOMAIN groups
      PROVE  /\ Len(groups[g].episodes) \in Nat
             /\ DOMAIN groups[g].episodes = 1 .. Len(groups[g].episodes)
             /\ \A i \in DOMAIN groups[g].episodes : groups[g].episodes[i] \in Keys
  <2>1. PICK e \in Seq(Keys) : e = groups[g].episodes
    BY <1>2
  <2>2. Len(e) \in Nat /\ DOMAIN e = 1 .. Len(e) /\ \A i \in DOMAIN e : e[i] \in Keys
    BY LenProperties
  <2>3. QED
    BY <2>1, <2>2
<1>4. ASSUME NEW s \in Slots(groups)
      PROVE  /\ s = <<s[1], s[2]>> /\ s[1] \in DOMAIN groups /\ s[2] \in Nat \ {0}
             /\ s[2] \in DOMAIN groups[s[1]].episodes
             /\ KeyAt(groups, s) \in Keys
  <2>1. PICK g \in DOMAIN groups : s \in {g} \X DOMAIN groups[g].episodes
    BY DEF Slots
  <2>2. s = <<s[1], s[2]>> /\ s[1] = g /\ s[2] \in DOMAIN groups[g].episodes
    BY <2>1
  <2>3. s[2] \in Nat \ {0}
    BY <1>3, <2>2
  <2>4. QED
    BY <1>3, <2>2, <2>3 DEF KeyAt
<1>5. ASSUME NEW g \in DOMAIN groups, NEW i \in DOMAIN groups[g].episodes
      PROVE  <<g, i>> \in Slots(groups)
  <2>1. <<g, i>> \in {g} \X DOMAIN groups[g].episodes
    OBVIOUS
  <2>2. QED
    BY <2>1 DEF Slots
<1>6. QED
  BY <1>2, <1>3, <1>4, <1>5

(* The number of an episode is that of its place.                          *)
LEMMA MappedShape ==
    ASSUME NEW groups \in Seq(Group), HaveNoRepeats(groups)
    PROVE  /\ Mapped(groups) \in [GroupedKeys(groups) -> Keys]
           /\ DOMAIN Mapped(groups) = GroupedKeys(groups)
           /\ GroupedKeys(groups) \subseteq Keys
           /\ \A s \in Slots(groups) :
                 /\ KeyAt(groups, s) \in GroupedKeys(groups)
                 /\ Mapped(groups)[KeyAt(groups, s)] = <<groups[s[1]].order, s[2]>>
           /\ \A k \in GroupedKeys(groups) : \E s \in Slots(groups) : k = KeyAt(groups, s)
<1> DEFINE slot(k) == CHOOSE s \in Slots(groups) : KeyAt(groups, s) = k
<1>1. Mapped(groups) = [k \in GroupedKeys(groups) |-> <<groups[slot(k)[1]].order, slot(k)[2]>>]
  BY Zenon DEF Mapped
<1>2. \A k \in GroupedKeys(groups) : \E s \in Slots(groups) : k = KeyAt(groups, s)
  BY DEF GroupedKeys
<1>3. \A s \in Slots(groups) : KeyAt(groups, s) \in GroupedKeys(groups)
  BY DEF GroupedKeys
<1>4. \A k \in GroupedKeys(groups) : slot(k) \in Slots(groups) /\ KeyAt(groups, slot(k)) = k
  BY <1>2
<1>5. \A s \in Slots(groups) : slot(KeyAt(groups, s)) = s
  <2> HIDE DEF slot
  <2>1. QED
    BY <1>3, <1>4 DEF HaveNoRepeats
<1> HIDE DEF slot
<1>6. ASSUME NEW k \in GroupedKeys(groups)
      PROVE  <<groups[slot(k)[1]].order, slot(k)[2]>> \in Keys
  <2>1. slot(k) \in Slots(groups)
    BY <1>4
  <2>2. slot(k)[1] \in DOMAIN groups /\ slot(k)[2] \in Nat
    BY <2>1, SlotsShape
  <2>3. groups[slot(k)[1]].order \in Nat
    BY <2>2, SlotsShape
  <2>4. QED
    BY <2>2, <2>3 DEF Keys
<1>7. GroupedKeys(groups) \subseteq Keys
  BY <1>2, SlotsShape
<1>8. Mapped(groups) \in [GroupedKeys(groups) -> Keys]
  BY <1>1, <1>6
<1>9. ASSUME NEW s \in Slots(groups)
      PROVE  Mapped(groups)[KeyAt(groups, s)] = <<groups[s[1]].order, s[2]>>
  BY <1>1, <1>3, <1>5
<1>10. QED
  BY <1>2, <1>3, <1>7, <1>8, <1>9

-----------------------------------------------------------------------------
(* Numberings: the order of the episodes.                                  *)

HasNoRepeats(s) == \A i, j \in DOMAIN s : s[i] = s[j] => i = j

(* A list without repeats has as many elements as places.                  *)
LEMMA CountWithoutRepeats ==
    ASSUME NEW S, NEW s \in Seq(S), HasNoRepeats(s)
    PROVE  IsFiniteSet(ToSet(s)) /\ Cardinality(ToSet(s)) = Len(s) /\ Len(s) \in Nat
<1> DEFINE T == ToSet(s)
           D == 1 .. Len(s)
<1>1. Len(s) \in Nat /\ DOMAIN s = D
  BY LenProperties
<1>2. s \in Bijection(D, T)
  <2>1. s \in [D -> T]
    <3>1. s \in [D -> S]
      BY <1>1, LenProperties
    <3>2. \A i \in D : s[i] \in T
      BY <1>1 DEF ToSet
    <3>3. QED
      BY <3>1, <3>2
  <2>2. \A y \in T : \E i \in D : s[i] = y
    BY <1>1 DEF ToSet
  <2>3. QED
    BY <1>1, <2>1, <2>2 DEF HasNoRepeats, Bijection, Injection, Surjection, IsInjective
<1>3. IsFiniteSet(D) /\ Cardinality(D) = Len(s)
  BY <1>1, FS_Interval
<1> HIDE DEF T, D
<1>4. ExistsBijection(D, T)
  BY <1>2 DEF ExistsBijection
<1>5. IsFiniteSet(T) /\ Cardinality(T) = Cardinality(D)
  BY <1>3, <1>4, FS_Bijection
<1>6. QED
  BY <1>1, <1>3, <1>5 DEF T

(* Another order of a list brings no repeats.                              *)
LEMMA RearrangedWithoutRepeats ==
    ASSUME NEW s, NEW t, DOMAIN t = DOMAIN s, IsRearrangement(t, s), HasNoRepeats(s)
    PROVE  HasNoRepeats(t)
<1>1. PICK at \in [DOMAIN s -> DOMAIN s] :
         /\ \A n \in DOMAIN s : t[n] = s[at[n]]
         /\ \A m, n \in DOMAIN s : at[m] = at[n] => m = n
  BY DEF IsRearrangement
<1>2. ASSUME NEW m \in DOMAIN s, NEW n \in DOMAIN s, t[m] = t[n]
      PROVE  m = n
  <2>1. at[m] \in DOMAIN s /\ at[n] \in DOMAIN s /\ s[at[m]] = s[at[n]]
    BY <1>1, <1>2
  <2>2. QED
    BY <1>1, <2>1 DEF HasNoRepeats
<1>3. QED
  BY <1>2 DEF HasNoRepeats

(* A selection of a list brings no repeats.                                *)
LEMMA SelectedWithoutRepeats ==
    ASSUME NEW S, NEW s \in Seq(S), HasNoRepeats(s), NEW I \in SUBSET DOMAIN s,
           NEW t, t = Selected(s, I)
    PROVE  HasNoRepeats(t)
<1>1. IsSubsequence(t, s, I) /\ DOMAIN t = 1 .. Cardinality(I) /\ Cardinality(I) \in Nat
  BY SelectedElements
<1>2. PICK at \in [DOMAIN t -> I] :
         /\ \A n \in DOMAIN t : t[n] = s[at[n]]
         /\ \A m, n \in DOMAIN t : m < n => at[m] < at[n]
  BY <1>1 DEF IsSubsequence
<1>3. DOMAIN s \subseteq Nat
  BY PlacesAreOrdered
<1>4. ASSUME NEW m \in DOMAIN t, NEW n \in DOMAIN t, t[m] = t[n]
      PROVE  m = n
  <2>1. at[m] = at[n]
    BY <1>2, <1>4 DEF HasNoRepeats
  <2>2. at[m] \in Nat /\ m \in Nat /\ n \in Nat
    BY <1>1, <1>2, <1>3
  <2>3. ~(m < n) /\ ~(n < m)
    BY <1>2, <2>1, <2>2
  <2>4. QED
    BY <2>2, <2>3
<1>5. QED
  BY <1>4 DEF HasNoRepeats

(* The lists of the groups, one after another, hold every key once.        *)
LEMMA FlatShape ==
    ASSUME NEW groups \in Seq(Group), HaveNoRepeats(groups),
           NEW flat, flat = FlattenSeq([g \in DOMAIN groups |-> groups[g].episodes])
    PROVE  flat \in Seq(Keys) /\ ToSet(flat) = GroupedKeys(groups) /\ HasNoRepeats(flat)
<1> DEFINE lists == [g \in DOMAIN groups |-> groups[g].episodes]
           L == Len(groups)
           slots == SlotsUpTo(lists, L)
<1>1. L \in Nat /\ DOMAIN groups = 1 .. L
  BY LenProperties
<1>2. lists \in Seq(Seq(Keys)) /\ Len(lists) = L
  <2>1. lists \in [1 .. L -> Seq(Keys)]
    BY <1>1, SlotsShape
  <2> HIDE DEF lists
  <2>2. QED
    BY <1>1, <2>1, FunctionIsSeq
<1>3. \A g \in DOMAIN groups : lists[g] = groups[g].episodes
  OBVIOUS
<1>4. flat = FlattenSeq(lists)
  OBVIOUS
<1> HIDE DEF lists
<1>5. flat \in Seq(Keys) /\ Spells(flat, lists, L)
  BY <1>2, <1>4, FlattenSpells
<1>6. Len(flat) \in Nat /\ DOMAIN flat = 1 .. Len(flat)
  BY <1>5, LenProperties
<1>7. PICK at \in [1 .. Len(flat) -> slots] :
         /\ \A x \in slots : \E k \in 1 .. Len(flat) : at[k] = x
         /\ \A k, l \in 1 .. Len(flat) : at[k] = at[l] => k = l
         /\ \A k \in 1 .. Len(flat) : flat[k] = lists[at[k][1]][at[k][2]]
  BY <1>5 DEF Spells
<1>8. slots = Slots(groups)
  <2>1. ASSUME NEW x \in slots
        PROVE  x \in Slots(groups)
    <3>1. x \in (1 .. L) \X (Nat \ {0}) /\ x[2] <= Len(lists[x[1]])
      BY DEF SlotsUpTo
    <3>2. x = <<x[1], x[2]>> /\ x[1] \in DOMAIN groups /\ x[2] \in Nat \ {0}
      BY <1>1, <3>1
    <3>3. x[2] <= Len(groups[x[1]].episodes)
      BY <1>3, <3>1, <3>2
    <3>4. x[2] \in DOMAIN groups[x[1]].episodes
      BY <3>2, <3>3, SlotsShape
    <3>5. <<x[1], x[2]>> \in Slots(groups)
      BY <3>2, <3>4, SlotsShape
    <3>6. QED
      BY <3>2, <3>5
  <2>2. ASSUME NEW x \in Slots(groups)
        PROVE  x \in slots
    <3>1. /\ x = <<x[1], x[2]>> /\ x[1] \in DOMAIN groups /\ x[2] \in Nat \ {0}
          /\ x[2] \in DOMAIN groups[x[1]].episodes
      BY SlotsShape
    <3>2. x[2] <= Len(lists[x[1]])
      BY <1>3, <3>1, SlotsShape
    <3>3. x \in (1 .. L) \X (Nat \ {0})
      BY <1>1, <3>1
    <3>4. QED
      BY <3>2, <3>3 DEF SlotsUpTo
  <2>3. QED
    BY <2>1, <2>2
<1> HIDE DEF slots
<1>9. \A k \in 1 .. Len(flat) : flat[k] = KeyAt(groups, at[k])
  <2>1. \A k \in 1 .. Len(flat) : at[k][1] \in DOMAIN groups
    BY <1>7, <1>8, SlotsShape
  <2>2. QED
    BY <1>3, <1>7, <2>1 DEF KeyAt
<1>10. ToSet(flat) = GroupedKeys(groups)
  <2>1. ToSet(flat) = {flat[k] : k \in 1 .. Len(flat)}
    BY <1>6 DEF ToSet
  <2>2. GroupedKeys(groups) = {KeyAt(groups, x) : x \in slots}
    BY <1>8 DEF GroupedKeys
  <2>3. \A e \in ToSet(flat) : e \in GroupedKeys(groups)
    BY <1>7, <1>9, <2>1, <2>2
  <2>4. \A e \in GroupedKeys(groups) : e \in ToSet(flat)
    BY <1>7, <1>9, <2>1, <2>2
  <2>5. QED
    BY <2>3, <2>4
<1>11. HasNoRepeats(flat)
  <2>1. ASSUME NEW k \in DOMAIN flat, NEW l \in DOMAIN flat, flat[k] = flat[l]
        PROVE  k = l
    <3>1. at[k] \in Slots(groups) /\ at[l] \in Slots(groups)
      BY <1>6, <1>7, <1>8
    <3>2. KeyAt(groups, at[k]) = KeyAt(groups, at[l])
      BY <1>6, <1>9, <2>1
    <3>3. at[k] = at[l]
      BY <3>1, <3>2 DEF HaveNoRepeats
    <3>4. QED
      BY <1>6, <1>7, <3>3
  <2>2. QED
    BY <2>1 DEF HasNoRepeats
<1>12. QED
  BY <1>5, <1>10, <1>11

ReleaseOrder(groups) ==
    {x \in GroupedKeys(groups) \X GroupedKeys(groups) :
        PairBefore(Mapped(groups)[x[1]], Mapped(groups)[x[2]])}

(* Grouped keys are comparable by their release numbers.                   *)
LEMMA ReleasesAreOrdered ==
    ASSUME NEW groups \in Seq(Group), HaveNoRepeats(groups)
    PROVE  IsWeakOrder(ReleaseOrder(groups), GroupedKeys(groups))
<1> DEFINE mapped == Mapped(groups)
           GK == GroupedKeys(groups)
<1>1. \A k \in GK : mapped[k] \in Keys
  BY MappedShape
<1>2. \A k, l \in GK : <<k, l>> \in ReleaseOrder(groups) <=> PairBefore(mapped[k], mapped[l])
  BY DEF ReleaseOrder
<1> HIDE DEF mapped, GK
<1>3. IsWeakOrder(ReleaseOrder(groups), GK)
  BY <1>1, <1>2, PairsAreOrdered DEF IsWeakOrder
<1>4. QED
  BY <1>3 DEF GK

(* The places of keys, by their releases.                                  *)
ReleaseOrderOf(flat, groups) ==
    [i \in DOMAIN flat |-> {j \in DOMAIN flat :
        \/ PairBefore(Mapped(groups)[flat[j]], Mapped(groups)[flat[i]])
        \/ ~PairBefore(Mapped(groups)[flat[i]], Mapped(groups)[flat[j]]) /\ j < i}]

(* What is grouped, in release order.                                      *)
LEMMA GroupedPart ==
    ASSUME NEW groups \in Seq(Group), HaveNoRepeats(groups),
           NEW flat \in Seq(Keys), ToSet(flat) = GroupedKeys(groups), HasNoRepeats(flat),
           NEW t, t = InOrder(flat, ReleaseOrderOf(flat, groups))
    PROVE  /\ t \in Seq(Keys) /\ ToSet(t) = GroupedKeys(groups) /\ HasNoRepeats(t)
           /\ \A m, n \in DOMAIN t : m < n => ~PairBefore(Mapped(groups)[t[n]], Mapped(groups)[t[m]])
<1> DEFINE GK == GroupedKeys(groups)
<1>1. flat \in Seq(Keys) /\ ToSet(flat) = GK /\ HasNoRepeats(flat)
  OBVIOUS
<1>2. \A i \in DOMAIN flat : flat[i] \in GK
  BY <1>1 DEF ToSet
<1>3. flat \in Seq(GK)
  <2>1. Len(flat) \in Nat /\ DOMAIN flat = 1 .. Len(flat) /\ flat \in [1 .. Len(flat) -> Keys]
    BY <1>1, LenProperties
  <2>2. flat \in [1 .. Len(flat) -> GK]
    BY <1>2, <2>1
  <2>3. QED
    BY <2>1, <2>2, FunctionIsSeq
<1>4. ReleaseOrderOf(flat, groups) = SortOrder(flat, ReleaseOrder(groups))
  BY <1>2 DEF SortOrder, ReleaseOrder, ReleaseOrderOf
<1> HIDE DEF GK
<1>5. t = InOrder(flat, SortOrder(flat, ReleaseOrder(groups)))
  BY <1>4, Zenon
<1>6. IsWeakOrder(ReleaseOrder(groups), GK)
  BY ReleasesAreOrdered DEF GK
<1>7. /\ t \in Seq(GK) /\ DOMAIN t = DOMAIN flat /\ ToSet(t) = ToSet(flat)
      /\ \A m, n \in DOMAIN t : m < n => <<t[n], t[m]>> \notin ReleaseOrder(groups)
      /\ IsRearrangement(t, flat)
  <2>1. PICK S, R : S = GK /\ R = ReleaseOrder(groups)
    OBVIOUS
  <2>2. flat \in Seq(S) /\ IsWeakOrder(R, S) /\ t = InOrder(flat, SortOrder(flat, R))
    BY <1>3, <1>5, <1>6, <2>1, Zenon
  <2>3. /\ t \in Seq(S) /\ DOMAIN t = DOMAIN flat /\ ToSet(t) = ToSet(flat)
        /\ \A m, n \in DOMAIN t : m < n => <<t[n], t[m]>> \notin R
        /\ IsRearrangement(t, flat)
    BY <2>2, SortedElements
  <2>4. QED
    BY <2>1, <2>3, Zenon
<1>8. HasNoRepeats(t)
  BY <1>1, <1>7, RearrangedWithoutRepeats
<1>9. \A n \in DOMAIN t : t[n] \in GK
  BY <1>7, LenProperties
<1>10. ASSUME NEW m \in DOMAIN t, NEW n \in DOMAIN t, m < n
       PROVE  ~PairBefore(Mapped(groups)[t[n]], Mapped(groups)[t[m]])
  BY <1>7, <1>9, <1>10 DEF ReleaseOrder, GK
<1>11. t \in Seq(Keys)
  <2>1. GK \subseteq Keys
    BY MappedShape DEF GK
  <2>2. QED
    BY <1>7, <2>1, WiderSeq
<1>12. QED
  BY <1>1, <1>7, <1>8, <1>10, <1>11 DEF GK

(* All the keys: what is grouped comes first, nothing comes twice.         *)
LEMMA GroupOrderShape ==
    ASSUME NEW groups \in Seq(Group), HaveNoRepeats(groups),
           NEW keys \in Seq(Keys), HasNoRepeats(keys),
           NEW w, w = GroupOrder(keys, groups), NEW C, C = Cardinality(GroupedKeys(groups))
    PROVE  /\ w \in Seq(Keys) /\ HasNoRepeats(w)
           /\ ToSet(w) = GroupedKeys(groups) \cup ToSet(keys)
           /\ C \in Nat /\ C <= Len(w)
           /\ \A i \in DOMAIN w : w[i] \in GroupedKeys(groups) <=> i <= C
           /\ \A i, j \in DOMAIN w :
                 i < j /\ j <= C => ~PairBefore(Mapped(groups)[w[j]], Mapped(groups)[w[i]])
           /\ \A k \in GroupedKeys(groups) : \E i \in DOMAIN w : i <= C /\ w[i] = k
<1> DEFINE GK == GroupedKeys(groups)
           I == {i \in DOMAIN keys : keys[i] \notin GK}
<1>1. PICK flat : flat = FlattenSeq([g \in DOMAIN groups |-> groups[g].episodes])
  OBVIOUS
<1>2. PICK t : t = InOrder(flat, ReleaseOrderOf(flat, groups))
  OBVIOUS
<1>3. /\ t \in Seq(Keys) /\ ToSet(t) = GK /\ HasNoRepeats(t)
      /\ \A m, n \in DOMAIN t : m < n => ~PairBefore(Mapped(groups)[t[n]], Mapped(groups)[t[m]])
  <2>1. flat \in Seq(Keys) /\ ToSet(flat) = GroupedKeys(groups) /\ HasNoRepeats(flat)
    BY <1>1, FlatShape
  <2>2. QED
    BY <1>2, <2>1, GroupedPart
<1>4. PICK u : u = Selected(keys, I)
  OBVIOUS
<1>5. w = t \o u
  <2>1. DOMAIN Mapped(groups) = GK
    BY MappedShape
  <2>2. u = Selected(keys, {i \in DOMAIN keys : keys[i] \notin DOMAIN Mapped(groups)})
    BY <1>4, <2>1, Zenon
  <2>3. QED
    BY <1>1, <1>2, <2>2, Zenon DEF GroupOrder, Filtered, Sorted, ReleaseOrderOf
<1>6. u \in Seq(Keys) /\ HasNoRepeats(u) /\ ToSet(u) = {keys[i] : i \in I}
  <2>1. I \in SUBSET DOMAIN keys
    OBVIOUS
  <2> HIDE DEF I
  <2>2. QED
    BY <1>4, <2>1, SelectedElements, SelectedWithoutRepeats
<1>7. ToSet(u) = ToSet(keys) \ GK
  <2>1. ToSet(keys) = {keys[i] : i \in DOMAIN keys}
    BY DEF ToSet
  <2>2. QED
    BY <1>6, <2>1
<1> HIDE DEF GK, I
<1>8. w \in Seq(Keys) /\ ToSet(w) = GK \cup ToSet(keys)
  BY <1>3, <1>5, <1>6, <1>7, ConcatElements
<1>9. C = Len(t) /\ C \in Nat
  BY <1>3, CountWithoutRepeats DEF GK
<1>10. /\ Len(t) \in Nat /\ Len(u) \in Nat
       /\ DOMAIN t = 1 .. Len(t) /\ DOMAIN u = 1 .. Len(u) /\ DOMAIN w = 1 .. Len(t) + Len(u)
       /\ Len(w) = Len(t) + Len(u)
       /\ \A i \in 1 .. Len(t) + Len(u) : w[i] = IF i <= Len(t) THEN t[i] ELSE u[i - Len(t)]
  <2>1. /\ Len(w) = Len(t) + Len(u)
        /\ \A i \in 1 .. Len(t) + Len(u) : w[i] = IF i <= Len(t) THEN t[i] ELSE u[i - Len(t)]
    BY <1>3, <1>5, <1>6, ConcatProperties, Zenon
  <2>2. QED
    BY <1>3, <1>6, <1>8, <2>1, LenProperties
<1>11. ASSUME NEW i \in DOMAIN w
       PROVE  /\ i <= C => i \in DOMAIN t /\ w[i] = t[i] /\ w[i] \in GK
              /\ ~(i <= C) => i - C \in DOMAIN u /\ w[i] = u[i - C] /\ w[i] \notin GK
  <2>1. CASE i <= C
    <3>1. i \in DOMAIN t /\ w[i] = t[i]
      BY <1>9, <1>10, <2>1
    <3>2. QED
      BY <1>3, <2>1, <3>1 DEF ToSet
  <2>2. CASE ~(i <= C)
    <3>1. i - C \in DOMAIN u /\ w[i] = u[i - C]
      BY <1>9, <1>10, <2>2
    <3>2. u[i - C] \in ToSet(u)
      BY <3>1 DEF ToSet
    <3>3. QED
      BY <1>7, <2>2, <3>1, <3>2
  <2>3. QED
    BY <2>1, <2>2
<1>12. ASSUME NEW i \in DOMAIN w, NEW j \in DOMAIN w, w[i] = w[j]
       PROVE  i = j
  <2>1. CASE i <= C
    <3>1. j <= C
      BY <1>11, <1>12, <2>1
    <3>2. QED
      BY <1>3, <1>11, <1>12, <2>1, <3>1 DEF HasNoRepeats
  <2>2. CASE ~(i <= C)
    <3>1. ~(j <= C)
      BY <1>11, <1>12, <2>2
    <3>2. i - C = j - C
      BY <1>6, <1>11, <1>12, <2>2, <3>1 DEF HasNoRepeats
    <3>3. QED
      BY <1>9, <1>10, <3>2
  <2>3. QED
    BY <2>1, <2>2
<1>13. HasNoRepeats(w)
  BY <1>12 DEF HasNoRepeats
<1>14. ASSUME NEW i \in DOMAIN w, NEW j \in DOMAIN w, i < j, j <= C
       PROVE  ~PairBefore(Mapped(groups)[w[j]], Mapped(groups)[w[i]])
  <2>1. i <= C
    BY <1>9, <1>10, <1>14
  <2>2. QED
    BY <1>3, <1>11, <1>14, <2>1
<1>15. ASSUME NEW k \in GK
       PROVE  \E i \in DOMAIN w : i <= C /\ w[i] = k
  <2>1. PICK i \in DOMAIN t : t[i] = k
    BY <1>3 DEF ToSet
  <2>2. i \in DOMAIN w /\ i <= C
    BY <1>9, <1>10
  <2>3. QED
    BY <1>11, <2>1, <2>2
<1>16. C <= Len(w)
  BY <1>9, <1>10
<1>17. QED
  BY <1>8, <1>9, <1>11, <1>13, <1>14, <1>15, <1>16 DEF GK

(* The last release is the greatest one that is taken.                     *)
LEMMA LastReleaseShape ==
    ASSUME NEW groups \in Seq(Group), HaveNoRepeats(groups), GroupedKeys(groups) # {}
    PROVE  /\ LastRelease(groups) \in Keys
           /\ \E k \in GroupedKeys(groups) : LastRelease(groups) = Mapped(groups)[k]
           /\ \A k \in GroupedKeys(groups) : ~PairBefore(LastRelease(groups), Mapped(groups)[k])
<1> DEFINE GK == GroupedKeys(groups)
           numbers == {Mapped(groups)[k] : k \in GK}
<1>1. PICK none, w, C : none = <<>> /\ w = GroupOrder(none, groups) /\ C = Cardinality(GroupedKeys(groups))
  OBVIOUS
<1>2. /\ w \in Seq(Keys) /\ C \in Nat /\ C <= Len(w)
      /\ \A i \in DOMAIN w : w[i] \in GK <=> i <= C
      /\ \A i, j \in DOMAIN w :
            i < j /\ j <= C => ~PairBefore(Mapped(groups)[w[j]], Mapped(groups)[w[i]])
      /\ \A k \in GK : \E i \in DOMAIN w : i <= C /\ w[i] = k
  <2>1. none \in Seq(Keys)
    BY <1>1, EmptySeq
  <2>2. HasNoRepeats(none)
    BY <1>1 DEF HasNoRepeats
  <2>3. w = GroupOrder(none, groups) /\ C = Cardinality(GroupedKeys(groups))
    BY <1>1
  <2>4. /\ w \in Seq(Keys) /\ C \in Nat /\ C <= Len(w)
        /\ \A i \in DOMAIN w : w[i] \in GroupedKeys(groups) <=> i <= C
        /\ \A i, j \in DOMAIN w :
              i < j /\ j <= C => ~PairBefore(Mapped(groups)[w[j]], Mapped(groups)[w[i]])
        /\ \A k \in GroupedKeys(groups) : \E i \in DOMAIN w : i <= C /\ w[i] = k
    BY <2>1, <2>2, <2>3, GroupOrderShape
  <2>5. QED
    BY <2>4
<1>3. Len(w) \in Nat /\ DOMAIN w = 1 .. Len(w)
  BY <1>2, LenProperties
<1>4. \A k \in GK : Mapped(groups)[k] \in Keys
  BY MappedShape
<1>5. PICK i \in DOMAIN w : i <= C
  BY <1>2
<1> HIDE DEF GK
<1>6. C \in DOMAIN w
  <2>1. C >= 1 /\ C <= Len(w)
    BY <1>2, <1>3, <1>5
  <2>2. QED
    BY <1>2, <1>3, <2>1
<1>7. PICK last : last = Mapped(groups)[w[C]]
  OBVIOUS
<1>8. w[C] \in GK /\ last \in numbers /\ last \in Keys
  BY <1>2, <1>4, <1>6, <1>7
<1>9. ASSUME NEW k \in GK
      PROVE  ~PairBefore(last, Mapped(groups)[k])
  <2>1. PICK j \in DOMAIN w : j <= C /\ w[j] = k
    BY <1>2
  <2>2. CASE j = C
    BY <1>7, <1>8, <2>1, <2>2, PairsAreOrdered
  <2>3. CASE j # C
    <3>1. j < C
      BY <1>2, <1>3, <2>1, <2>3
    <3>2. QED
      BY <1>2, <1>6, <1>7, <2>1, <3>1
  <2>4. QED
    BY <2>2, <2>3
<1>10. \E n \in numbers : \A m \in numbers : ~PairBefore(n, m)
  BY <1>8, <1>9
<1>11. LastRelease(groups) = CHOOSE n \in numbers : \A m \in numbers : ~PairBefore(n, m)
  BY Zenon DEF LastRelease, GK
<1>12. LastRelease(groups) \in numbers /\ \A m \in numbers : ~PairBefore(LastRelease(groups), m)
  <2> HIDE DEF numbers
  <2>1. QED
    BY <1>10, <1>11, Zenon
<1>13. QED
  BY <1>4, <1>12 DEF GK

(* The groups that a numbering is built of.                                *)
LEMMA RegularGroupsShape ==
    ASSUME NEW seasons \in Seq(Group), NEW groups, groups = RegularGroups(seasons),
           NEW I, I = {g \in DOMAIN seasons : seasons[g].order # Specials /\ seasons[g].episodes # <<>>}
    PROVE  /\ groups \in Seq(Group) /\ Len(groups) = Cardinality(I) /\ Cardinality(I) \in Nat
           /\ IsSubsequence(groups, seasons, I)
           /\ ToSet(groups) = {seasons[g] : g \in I}
           /\ \A g \in DOMAIN groups : groups[g].order # Specials /\ groups[g].episodes # <<>>
<1>1. groups = Selected(seasons, I)
  BY Zenon DEF RegularGroups, Filtered
<1>2. I \in SUBSET DOMAIN seasons
  OBVIOUS
<1>3. \A g \in I : seasons[g].order # Specials /\ seasons[g].episodes # <<>>
  OBVIOUS
<1>4. /\ groups \in Seq(Group) /\ Len(groups) = Cardinality(I) /\ Cardinality(I) \in Nat
      /\ IsSubsequence(groups, seasons, I)
      /\ ToSet(groups) = {seasons[g] : g \in I}
  BY <1>1, <1>2, SelectedElements
<1>5. \A g \in DOMAIN groups : groups[g] \in {seasons[h] : h \in I}
  BY <1>4 DEF ToSet
<1>6. QED
  BY <1>3, <1>4, <1>5

(* The numbering that a group gives, element by element.                   *)
LEMMA BuiltEquation ==
    ASSUME NEW canonical, NEW seasons,
           NEW groups, groups = RegularGroups(seasons), Qualifies(canonical, groups),
           NEW keys, keys = GroupOrder(RegularKeys(canonical), groups),
           NEW C, C = Cardinality(GroupedKeys(groups)),
           NEW n, n = BuildNumbering(canonical, seasons)
    PROVE  /\ n = [i \in DOMAIN keys |-> n[i]] /\ DOMAIN n = DOMAIN keys
           /\ \A i \in DOMAIN n :
                 /\ n[i] = [key |-> n[i].key, release |-> n[i].release, absolute |-> n[i].absolute]
                 /\ n[i].key = keys[i] /\ n[i].absolute = i
                 /\ keys[i] \in GroupedKeys(groups) => n[i].release = Mapped(groups)[keys[i]]
                 /\ keys[i] \notin GroupedKeys(groups) => n[i].release = TailNumber(groups, i - C)
<1> DEFINE Release(i) == IF keys[i] \in GroupedKeys(groups) THEN Mapped(groups)[keys[i]]
                         ELSE TailNumber(groups, i - C)
<1>2. n = [i \in DOMAIN keys |-> [key |-> keys[i], release |-> Release(i), absolute |-> i]]
  BY Zenon DEF BuildNumbering, RegularKeys
<1>3. \A i : /\ keys[i] \in GroupedKeys(groups) => Release(i) = Mapped(groups)[keys[i]]
             /\ keys[i] \notin GroupedKeys(groups) => Release(i) = TailNumber(groups, i - C)
  BY Zenon
<1> HIDE DEF Release
<1>4. DOMAIN n = DOMAIN keys
      /\ \A i \in DOMAIN n : n[i] = [key |-> keys[i], release |-> Release(i), absolute |-> i]
  BY <1>2, Zenon
<1>5. \A i \in DOMAIN n : n[i].key = keys[i] /\ n[i].release = Release(i) /\ n[i].absolute = i
  BY <1>4
<1>6. ASSUME NEW i \in DOMAIN n
      PROVE  /\ n[i] = [key |-> n[i].key, release |-> n[i].release, absolute |-> n[i].absolute]
             /\ n[i].key = keys[i] /\ n[i].absolute = i
             /\ keys[i] \in GroupedKeys(groups) => n[i].release = Mapped(groups)[keys[i]]
             /\ keys[i] \notin GroupedKeys(groups) => n[i].release = TailNumber(groups, i - C)
  <2>1. n[i].key = keys[i] /\ n[i].release = Release(i) /\ n[i].absolute = i
    BY <1>5
  <2>2. n[i] = [key |-> keys[i], release |-> Release(i), absolute |-> i]
    BY <1>4
  <2>3. n[i] = [key |-> n[i].key, release |-> n[i].release, absolute |-> n[i].absolute]
    BY <2>1, <2>2, Zenon
  <2>4. QED
    BY <1>3, <2>1, <2>3, Zenon
<1>7. n = [i \in DOMAIN keys |-> n[i]]
  BY <1>2
<1>8. QED
  BY <1>4, <1>6, <1>7

(* A numbering is built of two groups at least, so some key is grouped.    *)
LEMMA SomeKeyIsGrouped ==
    ASSUME NEW groups \in Seq(Group), Len(groups) >= MinReleaseSeasons,
           \A g \in DOMAIN groups : groups[g].episodes # <<>>
    PROVE  GroupedKeys(groups) # {}
<1>1. 1 \in DOMAIN groups
  BY LenProperties DEF MinReleaseSeasons
<1>2. groups[1].episodes \in Seq(Keys) /\ groups[1].episodes # <<>>
  BY <1>1, SlotsShape
<1>3. 1 \in DOMAIN groups[1].episodes
  BY <1>2, EmptySeq, LenProperties
<1>4. <<1, 1>> \in Slots(groups)
  BY <1>1, <1>3, SlotsShape
<1>5. QED
  BY <1>4, Zenon DEF GroupedKeys

(* A group's numbering: every regular key once, the grouped ones under the *)
(* numbers of the groups, the others after the last of these.              *)
IsNumberingOf(n, keys, groups, C) ==
    /\ keys \in Seq(Keys) /\ HasNoRepeats(keys) /\ Len(keys) \in Nat /\ DOMAIN keys = 1 .. Len(keys)
    /\ C \in Nat /\ 1 <= C /\ C <= Len(keys)
    /\ n = [i \in DOMAIN keys |-> n[i]] /\ DOMAIN n = DOMAIN keys
    /\ \A i \in DOMAIN n :
          /\ n[i] = [key |-> n[i].key, release |-> n[i].release, absolute |-> n[i].absolute]
          /\ n[i].key = keys[i] /\ n[i].absolute = i
          /\ i <= C <=> keys[i] \in GroupedKeys(groups)
          /\ i <= C => n[i].release = Mapped(groups)[keys[i]]
          /\ ~(i <= C) => n[i].release = <<LastRelease(groups)[1], LastRelease(groups)[2] + (i - C)>>
    /\ \A i, j \in DOMAIN n :
          i < j /\ j <= C => ~PairBefore(Mapped(groups)[keys[j]], Mapped(groups)[keys[i]])
    /\ \A k \in GroupedKeys(groups) : \E i \in DOMAIN n : i <= C /\ keys[i] = k

(* A group that qualifies gives such a numbering, with every regular key.  *)
LEMMA BuiltShape ==
    ASSUME NEW canonical, IsCanonical(canonical), NEW seasons \in Seq(Group),
           NEW groups, groups = RegularGroups(seasons), Qualifies(canonical, groups),
           NEW keys, keys = GroupOrder(RegularKeys(canonical), groups),
           NEW C, C = Cardinality(GroupedKeys(groups)),
           NEW n, n = BuildNumbering(canonical, seasons)
    PROVE  /\ groups \in Seq(Group) /\ HaveNoRepeats(groups) /\ GroupedKeys(groups) # {}
           /\ ToSet(keys) = {e.key : e \in RegularEpisodes(canonical)}
           /\ IsNumberingOf(n, keys, groups, C)
<1>1. groups \in Seq(Group) /\ \A g \in DOMAIN groups : groups[g].episodes # <<>>
  BY RegularGroupsShape
<1>2. /\ Len(groups) >= MinReleaseSeasons /\ HaveNoRepeats(groups)
      /\ GroupedKeys(groups) \subseteq ToSet(RegularKeys(canonical))
  BY Zenon DEF Qualifies, HaveNoRepeats, RegularKeys
<1>3. GroupedKeys(groups) # {}
  BY <1>1, <1>2, SomeKeyIsGrouped
<1>4. PICK k : k = RegularKeys(canonical)
  OBVIOUS
<1>5. /\ k \in Seq(Keys) /\ HasNoRepeats(k)
      /\ ToSet(k) = {e.key : e \in RegularEpisodes(canonical)}
  BY <1>4, RegularKeysShape DEF HasNoRepeats
<1>6. keys = GroupOrder(k, groups)
  BY <1>4
<1>7. /\ keys \in Seq(Keys) /\ HasNoRepeats(keys)
      /\ ToSet(keys) = GroupedKeys(groups) \cup ToSet(k)
      /\ C \in Nat /\ C <= Len(keys)
      /\ \A i \in DOMAIN keys : keys[i] \in GroupedKeys(groups) <=> i <= C
      /\ \A i, j \in DOMAIN keys :
            i < j /\ j <= C => ~PairBefore(Mapped(groups)[keys[j]], Mapped(groups)[keys[i]])
      /\ \A l \in GroupedKeys(groups) : \E i \in DOMAIN keys : i <= C /\ keys[i] = l
  BY <1>1, <1>2, <1>5, <1>6, GroupOrderShape
<1>8. Len(keys) \in Nat /\ DOMAIN keys = 1 .. Len(keys)
  BY <1>7, LenProperties
<1>9. 1 <= C
  <2>1. PICK i \in DOMAIN keys : i <= C
    BY <1>3, <1>7
  <2>2. QED
    BY <1>7, <1>8, <2>1
<1>10. /\ n = [i \in DOMAIN keys |-> n[i]] /\ DOMAIN n = DOMAIN keys
       /\ \A i \in DOMAIN n :
             /\ n[i] = [key |-> n[i].key, release |-> n[i].release, absolute |-> n[i].absolute]
             /\ n[i].key = keys[i] /\ n[i].absolute = i
             /\ keys[i] \in GroupedKeys(groups) => n[i].release = Mapped(groups)[keys[i]]
             /\ keys[i] \notin GroupedKeys(groups) => n[i].release = TailNumber(groups, i - C)
  BY BuiltEquation
<1>11. \A i : TailNumber(groups, i - C) = <<LastRelease(groups)[1], LastRelease(groups)[2] + (i - C)>>
  BY Zenon DEF TailNumber
<1>12. ToSet(keys) = ToSet(k)
  BY <1>2, <1>4, <1>7
<1>13. \A i \in DOMAIN n :
          /\ n[i] = [key |-> n[i].key, release |-> n[i].release, absolute |-> n[i].absolute]
          /\ n[i].key = keys[i] /\ n[i].absolute = i
          /\ i <= C <=> keys[i] \in GroupedKeys(groups)
          /\ i <= C => n[i].release = Mapped(groups)[keys[i]]
          /\ ~(i <= C) => n[i].release = <<LastRelease(groups)[1], LastRelease(groups)[2] + (i - C)>>
  <2>1. TAKE i \in DOMAIN n
  <2>2. /\ n[i] = [key |-> n[i].key, release |-> n[i].release, absolute |-> n[i].absolute]
        /\ n[i].key = keys[i] /\ n[i].absolute = i
        /\ keys[i] \in GroupedKeys(groups) => n[i].release = Mapped(groups)[keys[i]]
        /\ keys[i] \notin GroupedKeys(groups) => n[i].release = TailNumber(groups, i - C)
    BY <1>10, Zenon
  <2>3. keys[i] \in GroupedKeys(groups) <=> i <= C
    BY <1>7, <1>10, Zenon
  <2>4. TailNumber(groups, i - C) = <<LastRelease(groups)[1], LastRelease(groups)[2] + (i - C)>>
    BY <1>11, Zenon
  <2>5. QED
    BY <2>2, <2>3, <2>4, Zenon
<1>14. IsNumberingOf(n, keys, groups, C)
  <2>1. n = [i \in DOMAIN keys |-> n[i]] /\ DOMAIN n = DOMAIN keys
    BY <1>10
  <2>2. \A i, j \in DOMAIN n :
           i < j /\ j <= C => ~PairBefore(Mapped(groups)[keys[j]], Mapped(groups)[keys[i]])
    BY <1>7, <2>1, Zenon
  <2>3. \A l \in GroupedKeys(groups) : \E i \in DOMAIN n : i <= C /\ keys[i] = l
    BY <1>7, <2>1, Zenon
  <2>4. QED
    BY <1>7, <1>8, <1>9, <1>13, <2>1, <2>2, <2>3, Zenon DEF IsNumberingOf
<1>15. QED
  BY <1>1, <1>2, <1>3, <1>5, <1>12, <1>14

(* No two groups of a list are of one season.                              *)
HaveOwnOrders(groups) ==
    \A g, h \in DOMAIN groups : groups[g].order = groups[h].order => g = h

(* What is grouped has its place in its group, and every place is given.   *)
GivesPlaces(n, groups, C) ==
    /\ \A j \in DOMAIN n : j <= C =>
          \E g \in DOMAIN groups : \E p \in 1 .. Len(groups[g].episodes) :
             n[j].release = <<groups[g].order, p>>
    /\ \A g \in DOMAIN groups : \A p \in 1 .. Len(groups[g].episodes) :
          \E j \in DOMAIN n : j <= C /\ n[j].release = <<groups[g].order, p>>

(* The numbers that are given are the places of the groups and those       *)
(* behind the last of them, and they make a numbering of the type.         *)
LEMMA ReleasesOfNumbering ==
    ASSUME NEW groups \in Seq(Group), HaveNoRepeats(groups), GroupedKeys(groups) # {},
           NEW keys, NEW C, NEW n, IsNumberingOf(n, keys, groups, C)
    PROVE  /\ GivesPlaces(n, groups, C)
           /\ n \in Seq([key : Keys, release : Keys, absolute : Nat])
<1>1. /\ keys \in Seq(Keys) /\ Len(keys) \in Nat /\ DOMAIN keys = 1 .. Len(keys)
      /\ C \in Nat /\ DOMAIN n = DOMAIN keys
      /\ \A k \in GroupedKeys(groups) : \E i \in DOMAIN n : i <= C /\ keys[i] = k
  BY Zenon DEF IsNumberingOf
<1>2. \A i \in DOMAIN n :
         /\ n[i] = [key |-> n[i].key, release |-> n[i].release, absolute |-> n[i].absolute]
         /\ n[i].key = keys[i] /\ n[i].absolute = i
         /\ i <= C => keys[i] \in GroupedKeys(groups) /\ n[i].release = Mapped(groups)[keys[i]]
         /\ ~(i <= C) => n[i].release = <<LastRelease(groups)[1], LastRelease(groups)[2] + (i - C)>>
  BY Zenon DEF IsNumberingOf
<1>3. ASSUME NEW j \in DOMAIN n, j <= C
      PROVE  \E g \in DOMAIN groups : \E p \in 1 .. Len(groups[g].episodes) :
                n[j].release = <<groups[g].order, p>>
  <2>1. keys[j] \in GroupedKeys(groups) /\ n[j].release = Mapped(groups)[keys[j]]
    BY <1>2, <1>3
  <2>2. PICK s \in Slots(groups) : keys[j] = KeyAt(groups, s)
    BY <2>1, MappedShape
  <2>3. n[j].release = <<groups[s[1]].order, s[2]>>
    BY <2>1, <2>2, MappedShape
  <2>4. s[1] \in DOMAIN groups /\ s[2] \in 1 .. Len(groups[s[1]].episodes)
    BY <2>2, SlotsShape
  <2>5. QED
    BY <2>3, <2>4
<1>4. ASSUME NEW g \in DOMAIN groups, NEW p \in 1 .. Len(groups[g].episodes)
      PROVE  \E j \in DOMAIN n : j <= C /\ n[j].release = <<groups[g].order, p>>
  <2>1. PICK s : s = <<g, p>>
    OBVIOUS
  <2>2. s \in Slots(groups) /\ s[1] = g /\ s[2] = p
    BY <2>1, SlotsShape
  <2>3. /\ KeyAt(groups, s) \in GroupedKeys(groups)
        /\ Mapped(groups)[KeyAt(groups, s)] = <<groups[s[1]].order, s[2]>>
    BY <2>2, MappedShape
  <2>4. PICK j \in DOMAIN n : j <= C /\ keys[j] = KeyAt(groups, s)
    BY <1>1, <2>3
  <2>5. n[j].release = Mapped(groups)[KeyAt(groups, s)]
    BY <1>2, <2>4
  <2>6. QED
    BY <2>2, <2>3, <2>4, <2>5
<1>5. LastRelease(groups) \in Keys
  BY LastReleaseShape
<1>6. ASSUME NEW i \in DOMAIN n
      PROVE  n[i] \in [key : Keys, release : Keys, absolute : Nat]
  <2>1. n[i].key \in Keys /\ n[i].absolute \in Nat
    BY <1>1, <1>2
  <2>2. n[i].release \in Keys
    <3>1. CASE i <= C
      BY <1>2, <3>1, MappedShape
    <3>2. CASE ~(i <= C)
      <4>1. i - C \in Nat
        BY <1>1, <3>2
      <4>2. LastRelease(groups)[1] \in Nat /\ LastRelease(groups)[2] + (i - C) \in Nat
        BY <1>5, <4>1 DEF Keys
      <4>3. n[i].release = <<LastRelease(groups)[1], LastRelease(groups)[2] + (i - C)>>
        BY <1>2, <3>2
      <4>4. QED
        BY <4>2, <4>3 DEF Keys
    <3>3. QED
      BY <3>1, <3>2
  <2>3. n[i] = [key |-> n[i].key, release |-> n[i].release, absolute |-> n[i].absolute]
    BY <1>2
  <2>4. QED
    BY <2>1, <2>2, <2>3
<1>7. n = [i \in DOMAIN keys |-> n[i]]
  BY Zenon DEF IsNumberingOf
<1>8. n \in Seq([key : Keys, release : Keys, absolute : Nat])
  <2>1. n \in [1 .. Len(keys) -> [key : Keys, release : Keys, absolute : Nat]]
    BY <1>1, <1>6, <1>7
  <2>2. QED
    BY <1>1, <2>1, FunctionIsSeq
<1>9. GivesPlaces(n, groups, C)
  BY <1>3, <1>4, Zenon DEF GivesPlaces
<1>10. QED
  BY <1>8, <1>9

(* Groups of different seasons give every key a number of its own.         *)
LEMMA ReleasesAreDistinct ==
    ASSUME NEW groups \in Seq(Group), HaveNoRepeats(groups), HaveOwnOrders(groups)
    PROVE  \A k, l \in GroupedKeys(groups) : Mapped(groups)[k] = Mapped(groups)[l] => k = l
<1>1. ASSUME NEW k \in GroupedKeys(groups), NEW l \in GroupedKeys(groups),
             Mapped(groups)[k] = Mapped(groups)[l]
      PROVE  k = l
  <2>1. PICK s \in Slots(groups) : k = KeyAt(groups, s)
    BY MappedShape
  <2>2. PICK t \in Slots(groups) : l = KeyAt(groups, t)
    BY MappedShape
  <2>3. <<groups[s[1]].order, s[2]>> = <<groups[t[1]].order, t[2]>>
    BY <1>1, <2>1, <2>2, MappedShape
  <2>4. groups[s[1]].order = groups[t[1]].order /\ s[2] = t[2]
    BY <2>3
  <2>5. /\ s[1] \in DOMAIN groups /\ t[1] \in DOMAIN groups
        /\ s = <<s[1], s[2]>> /\ t = <<t[1], t[2]>>
    BY <2>1, <2>2, SlotsShape
  <2>6. s[1] = t[1]
    BY <2>4, <2>5 DEF HaveOwnOrders
  <2>7. QED
    BY <2>1, <2>2, <2>4, <2>5, <2>6
<1>2. QED
  BY <1>1

(* The last number that is taken is the last place of some group.          *)
LEMMA LastIsLastPlace ==
    ASSUME NEW groups \in Seq(Group), HaveNoRepeats(groups), HaveOwnOrders(groups),
           GroupedKeys(groups) # {}
    PROVE  \E g \in DOMAIN groups : LastRelease(groups) = <<groups[g].order, Len(groups[g].episodes)>>
<1>1. PICK last : last = LastRelease(groups)
  OBVIOUS
<1>2. PICK k \in GroupedKeys(groups) : last = Mapped(groups)[k]
  BY <1>1, LastReleaseShape
<1>3. PICK s \in Slots(groups) : k = KeyAt(groups, s)
  BY MappedShape
<1>4. last = <<groups[s[1]].order, s[2]>>
  BY <1>2, <1>3, MappedShape
<1>5. /\ s[1] \in DOMAIN groups /\ Len(groups[s[1]].episodes) \in Nat
      /\ s[2] \in 1 .. Len(groups[s[1]].episodes) /\ groups[s[1]].order \in Nat
      /\ \A i \in DOMAIN groups[s[1]].episodes : <<s[1], i>> \in Slots(groups)
      /\ DOMAIN groups[s[1]].episodes = 1 .. Len(groups[s[1]].episodes)
  BY <1>3, SlotsShape
<1>6. PICK t : t = <<s[1], Len(groups[s[1]].episodes)>>
  OBVIOUS
<1>7. t \in Slots(groups) /\ t[1] = s[1] /\ t[2] = Len(groups[s[1]].episodes)
  BY <1>5, <1>6
<1>8. Mapped(groups)[KeyAt(groups, t)] = <<groups[s[1]].order, Len(groups[s[1]].episodes)>>
      /\ KeyAt(groups, t) \in GroupedKeys(groups)
  BY <1>7, MappedShape
<1>9. ~PairBefore(last, <<groups[s[1]].order, Len(groups[s[1]].episodes)>>)
  BY <1>1, <1>8, LastReleaseShape
<1>10. ~(s[2] < Len(groups[s[1]].episodes))
  BY <1>4, <1>9 DEF PairBefore
<1>11. s[2] = Len(groups[s[1]].episodes)
  BY <1>5, <1>10
<1>12. QED
  BY <1>1, <1>4, <1>5, <1>11

(* A group's numbering is complete.                                        *)
LEMMA BuiltIsComplete ==
    ASSUME NEW canonical, NEW groups, NEW keys, NEW C, NEW n, IsNumberingOf(n, keys, groups, C),
           ToSet(keys) = {e.key : e \in RegularEpisodes(canonical)}
    PROVE  IsComplete(n, canonical)
<1>1. /\ HasNoRepeats(keys) /\ DOMAIN n = DOMAIN keys
      /\ \A i \in DOMAIN n : n[i].key = keys[i] /\ n[i].absolute = i
  BY Zenon DEF IsNumberingOf
<1>2. KeysOf(n) = [i \in DOMAIN n |-> n[i].key]
  BY Zenon DEF KeysOf
<1>3. ToSet(KeysOf(n)) = {KeysOf(n)[i] : i \in DOMAIN KeysOf(n)}
  BY Zenon DEF ToSet
<1>4. ToSet(keys) = {keys[i] : i \in DOMAIN keys}
  BY Zenon DEF ToSet
<1>5. DOMAIN KeysOf(n) = DOMAIN keys /\ \A i \in DOMAIN keys : KeysOf(n)[i] = keys[i]
  BY <1>1, <1>2
<1>6. ToSet(KeysOf(n)) = ToSet(keys)
  BY <1>3, <1>4, <1>5
<1>7. ToSet(keys) = {e.key : e \in {e \in ToSet(canonical) : e.key[1] # Specials}}
  BY Zenon DEF RegularEpisodes
<1>8. \A i, j \in DOMAIN n : n[i].key = n[j].key => i = j
  BY <1>1 DEF HasNoRepeats
<1>9. QED
  BY <1>1, <1>6, <1>7, <1>8, Zenon DEF IsComplete

(* The release numbers of a group's numbering grow.                        *)
LEMMA BuiltIsOrdered ==
    ASSUME NEW groups \in Seq(Group), HaveNoRepeats(groups), HaveOwnOrders(groups),
           GroupedKeys(groups) # {},
           NEW keys, NEW C, NEW n, IsNumberingOf(n, keys, groups, C)
    PROVE  IsOrdered(n)
<1>1. /\ HasNoRepeats(keys) /\ DOMAIN keys = 1 .. Len(keys) /\ Len(keys) \in Nat
      /\ C \in Nat /\ DOMAIN n = DOMAIN keys
      /\ \A i, j \in DOMAIN n :
            i < j /\ j <= C => ~PairBefore(Mapped(groups)[keys[j]], Mapped(groups)[keys[i]])
  BY Zenon DEF IsNumberingOf
<1>2. \A i \in DOMAIN n :
         /\ i <= C => keys[i] \in GroupedKeys(groups) /\ n[i].release = Mapped(groups)[keys[i]]
         /\ ~(i <= C) => n[i].release = <<LastRelease(groups)[1], LastRelease(groups)[2] + (i - C)>>
  BY Zenon DEF IsNumberingOf
<1>3. \A k \in GroupedKeys(groups) : Mapped(groups)[k] \in Keys
  BY MappedShape
<1>4. PICK last : last = LastRelease(groups)
  OBVIOUS
<1>5. /\ last \in Keys
      /\ \A k \in GroupedKeys(groups) : ~PairBefore(last, Mapped(groups)[k])
  BY <1>4, LastReleaseShape
<1>6. ASSUME NEW i \in DOMAIN n, NEW j \in DOMAIN n, i < j
      PROVE  PairBefore(n[i].release, n[j].release)
  <2>1. CASE j <= C
    <3>1. i <= C
      BY <1>1, <1>6, <2>1
    <3>2. /\ keys[i] \in GroupedKeys(groups) /\ n[i].release = Mapped(groups)[keys[i]]
          /\ keys[j] \in GroupedKeys(groups) /\ n[j].release = Mapped(groups)[keys[j]]
      BY <1>2, <2>1, <3>1
    <3>3. n[i].release # n[j].release
      <4>1. i # j
        BY <1>1, <1>6
      <4>2. keys[i] # keys[j]
        BY <1>1, <4>1 DEF HasNoRepeats
      <4>3. QED
        BY <3>2, <4>2, ReleasesAreDistinct
    <3>4. ~PairBefore(n[j].release, n[i].release)
      BY <1>1, <1>6, <2>1, <3>2
    <3>5. n[i].release \in Keys /\ n[j].release \in Keys
      BY <1>3, <3>2
    <3>6. QED
      BY <3>3, <3>4, <3>5, PairsAreOrdered
  <2>2. CASE ~(j <= C)
    <3>1. n[j].release = <<last[1], last[2] + (j - C)>>
      BY <1>2, <1>4, <2>2
    <3>2. CASE i <= C
      <4>1. n[i].release \in Keys /\ ~PairBefore(last, n[i].release)
        BY <1>2, <1>3, <1>5, <3>2
      <4>2. last[2] < last[2] + (j - C)
        BY <1>1, <1>5, <2>2 DEF Keys
      <4>3. \/ n[i].release[1] < last[1]
            \/ n[i].release[1] = last[1] /\ n[i].release[2] <= last[2]
        BY <1>5, <4>1 DEF PairBefore, Keys
      <4>4. QED
        BY <1>1, <1>5, <3>1, <4>1, <4>2, <4>3 DEF PairBefore, Keys
    <3>3. CASE ~(i <= C)
      <4>1. n[i].release = <<last[1], last[2] + (i - C)>>
        BY <1>2, <1>4, <3>3
      <4>2. last[2] + (i - C) < last[2] + (j - C)
        BY <1>1, <1>5, <1>6 DEF Keys
      <4>3. QED
        BY <3>1, <4>1, <4>2 DEF PairBefore
    <3>4. QED
      BY <3>2, <3>3
  <2>3. QED
    BY <2>1, <2>2
<1>7. QED
  BY <1>6, Zenon DEF IsOrdered

(* There are M numbers from 1 to M.                                        *)
LEMMA CountedTo ==
    ASSUME NEW M \in Nat
    PROVE  IsFiniteSet(1 .. M) /\ Cardinality(1 .. M) = M
<1>1. CASE M = 0
  <2>1. 1 .. M = {}
    BY <1>1
  <2>2. QED
    BY <1>1, <2>1, FS_EmptySet
<1>2. CASE M # 0
  <2>1. 1 \in Int /\ M \in Int /\ ~(1 > M) /\ M - 1 + 1 = M
    BY <1>2
  <2>2. QED
    BY <2>1, FS_Interval
<1>3. QED
  BY <1>1, <1>2

(* The numbers of a release season are counted off.                        *)
LEMMA BuiltIsWithoutGaps ==
    ASSUME NEW groups \in Seq(Group), HaveNoRepeats(groups), HaveOwnOrders(groups),
           GroupedKeys(groups) # {},
           NEW keys, NEW C, NEW n, IsNumberingOf(n, keys, groups, C)
    PROVE  IsWithoutGaps(n)
<1>1. /\ DOMAIN keys = 1 .. Len(keys) /\ Len(keys) \in Nat
      /\ C \in Nat /\ C <= Len(keys) /\ DOMAIN n = DOMAIN keys
  BY Zenon DEF IsNumberingOf
<1>2. \A i \in DOMAIN n : ~(i <= C) =>
         n[i].release = <<LastRelease(groups)[1], LastRelease(groups)[2] + (i - C)>>
  BY Zenon DEF IsNumberingOf
<1>3. /\ \A j \in DOMAIN n : j <= C =>
            \E g \in DOMAIN groups : \E p \in 1 .. Len(groups[g].episodes) :
               n[j].release = <<groups[g].order, p>>
      /\ \A g \in DOMAIN groups : \A p \in 1 .. Len(groups[g].episodes) :
            \E j \in DOMAIN n : j <= C /\ n[j].release = <<groups[g].order, p>>
  <2>1. GivesPlaces(n, groups, C)
    BY ReleasesOfNumbering
  <2>2. QED
    BY <2>1, Zenon DEF GivesPlaces
<1>4. PICK h \in DOMAIN groups : LastRelease(groups) = <<groups[h].order, Len(groups[h].episodes)>>
  BY LastIsLastPlace
<1>5. \A g \in DOMAIN groups : Len(groups[g].episodes) \in Nat
  BY SlotsShape
<1>6. ASSUME NEW i \in DOMAIN n
      PROVE  \E g \in DOMAIN groups : n[i].release[1] = groups[g].order
  <2>1. CASE i <= C
    BY <1>3, <2>1
  <2>2. CASE ~(i <= C)
    BY <1>2, <1>4, <2>2
  <2>3. QED
    BY <2>1, <2>2
<1>7. ASSUME NEW g \in DOMAIN groups,
             NEW taken, taken = {n[j].release[2] : j \in {j \in DOMAIN n : n[j].release[1] = groups[g].order}}
      PROVE  \E M \in Nat : taken = 1 .. M
  <2>1. PICK L \in Nat : L = Len(groups[g].episodes)
    BY <1>5
  <2>2. 1 .. L \subseteq taken
    <3>1. SUFFICES ASSUME NEW p \in 1 .. L PROVE p \in taken
      OBVIOUS
    <3>2. PICK j \in DOMAIN n : n[j].release = <<groups[g].order, p>>
      BY <1>3, <2>1
    <3>3. QED
      BY <1>7, <3>2
  <2>3. ASSUME NEW j \in DOMAIN n, n[j].release[1] = groups[g].order, j <= C
        PROVE  n[j].release[2] \in 1 .. L
    <3>1. PICK f \in DOMAIN groups : \E p \in 1 .. Len(groups[f].episodes) :
                                        n[j].release = <<groups[f].order, p>>
      BY <1>3, <2>3
    <3>2. PICK p \in 1 .. Len(groups[f].episodes) : n[j].release = <<groups[f].order, p>>
      BY <3>1
    <3>3. f = g
      BY <2>3, <3>2 DEF HaveOwnOrders
    <3>4. QED
      BY <2>1, <3>2, <3>3
  <2>4. CASE g # h
    <3>1. ASSUME NEW j \in DOMAIN n, n[j].release[1] = groups[g].order
          PROVE  j <= C
      BY <1>2, <1>4, <2>4, <3>1 DEF HaveOwnOrders
    <3>2. taken \subseteq 1 .. L
      BY <1>7, <2>3, <3>1
    <3>3. taken = 1 .. L
      BY <2>2, <3>2
    <3>4. QED
      BY <3>3
  <2>5. CASE g = h
    <3>1. PICK M \in Nat : M = L + (Len(keys) - C)
      <4>1. L + (Len(keys) - C) \in Nat
        BY <1>1
      <4>2. QED
        BY <4>1, Zenon
    <3>2. ASSUME NEW j \in DOMAIN n, n[j].release[1] = groups[g].order
          PROVE  n[j].release[2] \in 1 .. M
      <4>1. CASE j <= C
        <5>1. n[j].release[2] \in 1 .. L
          BY <2>3, <3>2, <4>1
        <5>2. QED
          BY <1>1, <3>1, <5>1
      <4>2. CASE ~(j <= C)
        <5>1. n[j].release[2] = L + (j - C)
          BY <1>2, <1>4, <2>1, <2>5, <4>2
        <5>2. QED
          BY <1>1, <3>1, <4>2, <5>1
      <4>3. QED
        BY <4>1, <4>2
    <3>3. ASSUME NEW p \in 1 .. M
          PROVE  p \in taken
      <4>1. CASE p <= L
        <5>1. p \in 1 .. L
          BY <4>1
        <5>2. QED
          BY <2>2, <5>1
      <4>2. CASE ~(p <= L)
        <5>1. PICK j \in DOMAIN n : j = C + (p - L)
          BY <1>1, <3>1, <4>2
        <5>2. ~(j <= C) /\ L + (j - C) = p
          BY <1>1, <4>2, <5>1
        <5>3. n[j].release = <<groups[g].order, p>>
          BY <1>2, <1>4, <2>1, <2>5, <5>2
        <5>4. QED
          BY <1>7, <5>3
      <4>3. QED
        BY <4>1, <4>2
    <3>4. taken \subseteq 1 .. M
      BY <1>7, <3>2
    <3>5. taken = 1 .. M
      BY <3>3, <3>4
    <3>6. QED
      BY <3>5
  <2>6. QED
    BY <2>4, <2>5
<1>8. \A M \in Nat : Cardinality(1 .. M) = M
  BY CountedTo
<1>9. ASSUME NEW i \in DOMAIN n,
             NEW taken, taken = {n[j].release[2] : j \in {j \in DOMAIN n : n[j].release[1] = n[i].release[1]}}
      PROVE  taken = 1 .. Cardinality(taken)
  <2>1. PICK g \in DOMAIN groups : n[i].release[1] = groups[g].order
    BY <1>6
  <2>2. PICK M \in Nat : taken = 1 .. M
    <3>1. taken = {n[j].release[2] : j \in {j \in DOMAIN n : n[j].release[1] = groups[g].order}}
      BY <1>9, <2>1
    <3>2. QED
      BY <1>7, <3>1
  <2>3. QED
    BY <1>8, <2>2
<1>10. QED
  BY <1>9, Zenon DEF IsWithoutGaps

Entry == [order : Nat, key : Keys]

\* What has an order, in this order.
OrderOf(s) ==
    [i \in DOMAIN s |->
        {j \in DOMAIN s : s[j].order < s[i].order \/ (~(s[i].order < s[j].order) /\ j < i)}]

ByOrder(s) == InOrder(s, OrderOf(s))

\* The groups as they are parsed, before they are sorted.
EpisodesOf(group) == KeysOf(ByOrder(group.entries))

ParsedGroups(raw) == [i \in DOMAIN raw |-> [order |-> raw[i].order, episodes |-> EpisodesOf(raw[i])]]

(* parse_group_seasons, with its order of places written out.              *)
LEMMA ParsedInOrder ==
    ASSUME NEW raw
    PROVE  ParseGroupSeasons(raw) = ByOrder(ParsedGroups(raw))
BY Zenon DEF ParseGroupSeasons, Sorted, ByOrder, OrderOf, ParsedGroups, EpisodesOf, KeysOf

(* What is sorted by its order is the same in another order.               *)
LEMMA ByOrderElements ==
    ASSUME NEW S, \A x \in S : x.order \in Nat, NEW s \in Seq(S), NEW t, t = ByOrder(s)
    PROVE  t \in Seq(S) /\ DOMAIN t = DOMAIN s /\ IsRearrangement(t, s)
<1>1. PICK R : R = {x \in S \X S : x[1].order < x[2].order}
  OBVIOUS
<1>2. \A x, y \in S : <<x, y>> \in R <=> x.order < y.order
  BY <1>1
<1>3. IsWeakOrder(R, S)
  BY <1>2 DEF IsWeakOrder
<1>4. \A i \in DOMAIN s : s[i] \in S
  BY ElementOfSeq, LenProperties
<1>5. OrderOf(s) = SortOrder(s, R)
  <2>1. ASSUME NEW i \in DOMAIN s
        PROVE  {j \in DOMAIN s : s[j].order < s[i].order \/ (~(s[i].order < s[j].order) /\ j < i)}
               = {j \in DOMAIN s : <<s[j], s[i]>> \in R \/ (<<s[i], s[j]>> \notin R /\ j < i)}
    BY <1>2, <1>4
  <2>2. QED
    BY <2>1, Zenon DEF OrderOf, SortOrder
<1>6. t = InOrder(s, SortOrder(s, R))
  BY <1>5, Zenon DEF ByOrder
<1>7. QED
  BY <1>3, <1>6, SortedElements

(* A group's keys are those of its entries, in another order.              *)
LEMMA EpisodesShape ==
    ASSUME NEW group, group.entries \in Seq(Entry), NEW e, e = EpisodesOf(group)
    PROVE  /\ e \in Seq(Keys) /\ DOMAIN e = DOMAIN group.entries
           /\ IsRearrangement(e, KeysOf(group.entries))
<1>1. PICK s \in Seq(Entry) : s = group.entries
  OBVIOUS
<1>2. PICK t : t = ByOrder(s)
  OBVIOUS
<1>3. \A x \in Entry : x.order \in Nat /\ x.key \in Keys
  BY DEF Entry
<1>4. t \in Seq(Entry) /\ DOMAIN t = DOMAIN s /\ IsRearrangement(t, s)
  BY <1>2, <1>3, ByOrderElements
<1>5. e = [i \in DOMAIN t |-> t[i].key]
  BY <1>1, <1>2, Zenon DEF EpisodesOf, KeysOf
<1>6. Len(t) \in Nat /\ DOMAIN t = 1 .. Len(t) /\ \A i \in DOMAIN t : t[i] \in Entry
  BY <1>4, LenProperties, ElementOfSeq
<1>7. e \in [1 .. Len(t) -> Keys]
  BY <1>3, <1>5, <1>6
<1>8. PICK u : u = KeysOf(s)
  OBVIOUS
<1>9. DOMAIN u = DOMAIN s /\ \A i \in DOMAIN s : u[i] = s[i].key
  BY <1>8 DEF KeysOf
<1>10. PICK at \in [DOMAIN s -> DOMAIN s] :
          /\ \A n \in DOMAIN s : t[n] = s[at[n]]
          /\ \A m, n \in DOMAIN s : at[m] = at[n] => m = n
          /\ \A i \in DOMAIN s : \E n \in DOMAIN s : at[n] = i
  BY <1>4 DEF IsRearrangement
<1>11. \A n \in DOMAIN u : e[n] = u[at[n]]
  BY <1>4, <1>5, <1>9, <1>10
<1>12. IsRearrangement(e, u)
  <2>1. /\ at \in [DOMAIN u -> DOMAIN u]
        /\ \A m, n \in DOMAIN u : at[m] = at[n] => m = n
        /\ \A i \in DOMAIN u : \E n \in DOMAIN u : at[n] = i
    BY <1>9, <1>10, Zenon
  <2>2. QED
    BY <1>11, <2>1, Zenon DEF IsRearrangement
<1>13. QED
  BY <1>1, <1>4, <1>5, <1>6, <1>7, <1>8, <1>12, FunctionIsSeq

(* The groups a show is numbered by, as TMDB sends them.                   *)
AreGroups(raw) ==
    \E n \in Nat :
       /\ DOMAIN raw = 1 .. n
       /\ \A i \in DOMAIN raw : raw[i].order \in Nat /\ raw[i].entries \in Seq(Entry)

(* The groups that are parsed are those sent, in another order.            *)
LEMMA SeasonsShape ==
    ASSUME NEW raw, AreGroups(raw), NEW seasons, seasons = ParseGroupSeasons(raw)
    PROVE  /\ seasons \in Seq(Group) /\ DOMAIN seasons = DOMAIN raw
           /\ IsRearrangement(seasons, ParsedGroups(raw))
<1>1. PICK n \in Nat : DOMAIN raw = 1 .. n
  BY DEF AreGroups
<1>2. \A i \in DOMAIN raw : raw[i].order \in Nat /\ raw[i].entries \in Seq(Entry)
  BY DEF AreGroups
<1>3. PICK parsed : parsed = ParsedGroups(raw)
  OBVIOUS
<1>4. \A i \in DOMAIN raw : EpisodesOf(raw[i]) \in Seq(Keys)
  BY <1>2, EpisodesShape
<1>5. parsed = [i \in DOMAIN raw |-> [order |-> raw[i].order, episodes |-> EpisodesOf(raw[i])]]
  BY <1>3, Zenon DEF ParsedGroups
<1>6. parsed \in [1 .. n -> Group]
  BY <1>1, <1>2, <1>4, <1>5 DEF Group
<1>7. parsed \in Seq(Group) /\ DOMAIN parsed = DOMAIN raw
  BY <1>1, <1>6, FunctionIsSeq
<1>8. seasons = ByOrder(parsed)
  BY <1>3, ParsedInOrder
<1>9. \A x \in Group : x.order \in Nat
  BY DEF Group
<1>10. QED
  BY <1>3, <1>7, <1>8, <1>9, ByOrderElements

(* One of the candidates is used, or the canonical numbers are.            *)
LEMMA SelectedNumbering ==
    ASSUME NEW canonical, NEW S, NEW candidates \in Seq(S),
           NEW n, n = SelectAuto(canonical, candidates)
    PROVE  \/ n = IdentityNumbering(canonical)
           \/ \E i \in DOMAIN candidates :
                 n = BuildNumbering(canonical, candidates[i]) /\ n # NoNumbering
<1>1. PICK numberings : numberings = [i \in DOMAIN candidates |-> BuildNumbering(canonical, candidates[i])]
  OBVIOUS
<1>2. PICK I : I = {i \in DOMAIN numberings : numberings[i] # NoNumbering /\ Differs(numberings[i])}
  OBVIOUS
<1>3. PICK usable : usable = Selected(numberings, I)
  OBVIOUS
<1>4. n = IF usable = <<>> THEN IdentityNumbering(canonical) ELSE usable[1]
  BY <1>1, <1>2, <1>3, Zenon DEF SelectAuto, Filtered
<1>5. /\ DOMAIN numberings = DOMAIN candidates
      /\ \A i \in DOMAIN candidates : numberings[i] = BuildNumbering(canonical, candidates[i])
  BY <1>1
<1>6. PICK N : N = {numberings[i] : i \in DOMAIN numberings}
  OBVIOUS
<1>7. numberings \in Seq(N)
  <2>1. Len(candidates) \in Nat /\ DOMAIN candidates = 1 .. Len(candidates)
    BY LenProperties
  <2>2. numberings \in [1 .. Len(candidates) -> N]
    BY <1>1, <1>5, <1>6, <2>1
  <2>3. QED
    BY <2>1, <2>2, FunctionIsSeq
<1>8. I \in SUBSET DOMAIN numberings
  BY <1>2
<1>9. usable \in Seq(N) /\ ToSet(usable) = {numberings[i] : i \in I}
  BY <1>3, <1>7, <1>8, SelectedElements
<1>10. CASE usable = <<>>
  BY <1>4, <1>10
<1>11. CASE usable # <<>>
  <2>1. 1 \in DOMAIN usable
    BY <1>9, <1>11, EmptySeq, LenProperties
  <2>2. usable[1] \in {numberings[i] : i \in I}
    BY <1>9, <2>1 DEF ToSet
  <2>3. PICK i \in I : usable[1] = numberings[i]
    BY <2>2
  <2>4. i \in DOMAIN candidates /\ numberings[i] # NoNumbering
    BY <1>2, <1>5, <2>3
  <2>5. n = numberings[i]
    BY <1>4, <1>11, <2>3
  <2>6. n = BuildNumbering(canonical, candidates[i]) /\ n # NoNumbering
    BY <1>5, <2>4, <2>5
  <2>7. QED
    BY <2>4, <2>6
<1>12. QED
  BY <1>10, <1>11

(* What is asked is the episodes of a show and groups of TMDB.             *)
LEMMA AskedNumberingShape ==
    ASSUME NumberingIsAsked, Asked("numbering")
    PROVE  IsCanonical(input.canonical) /\ AreGroups(input.groups)
<1>1. input.canonical \in Canonicals
  BY Zenon DEF NumberingIsAsked
<1>2. PICK n \in Nat : input.groups \in [1 .. n -> EpisodeGroups]
  BY Zenon DEF NumberingIsAsked
<1>3. IsCanonical(input.canonical)
  BY <1>1, CanonicalsAssumption DEF IsCanonical, Episode
<1>4. DOMAIN input.groups = 1 .. n /\ \A i \in DOMAIN input.groups : input.groups[i] \in EpisodeGroups
  BY <1>2
<1>5. \A group \in EpisodeGroups : group.order \in Nat /\ group.entries \in Seq(Entry)
  BY EpisodeGroupsAssumption, Zenon DEF Entry
<1>6. AreGroups(input.groups)
  BY <1>4, <1>5 DEF AreGroups
<1>7. QED
  BY <1>3, <1>6

(* Groups of different seasons stay so when some are left aside.           *)
LEMMA RegularOrders ==
    ASSUME NEW seasons \in Seq(Group), NEW groups, groups = RegularGroups(seasons),
           NEW regular, regular = {g \in DOMAIN seasons : seasons[g].order # Specials},
           \A g, h \in regular : seasons[g].order = seasons[h].order => g = h
    PROVE  HaveOwnOrders(groups)
<1>1. PICK I : I = {g \in DOMAIN seasons : seasons[g].order # Specials /\ seasons[g].episodes # <<>>}
  OBVIOUS
<1>2. groups \in Seq(Group) /\ IsSubsequence(groups, seasons, I)
  BY <1>1, RegularGroupsShape
<1>3. PICK at \in [DOMAIN groups -> I] :
         /\ \A n \in DOMAIN groups : groups[n] = seasons[at[n]]
         /\ \A m, n \in DOMAIN groups : m < n => at[m] < at[n]
  BY <1>2 DEF IsSubsequence
<1>4. DOMAIN groups = 1 .. Len(groups) /\ Len(groups) \in Nat
  BY <1>2, LenProperties
<1>5. DOMAIN seasons = 1 .. Len(seasons) /\ Len(seasons) \in Nat
  BY LenProperties
<1>6. \A n \in DOMAIN groups : at[n] \in regular /\ at[n] \in Nat
  BY <1>1, <1>3, <1>5
<1>7. ASSUME NEW g \in DOMAIN groups, NEW h \in DOMAIN groups, groups[g].order = groups[h].order
      PROVE  g = h
  <2>1. at[g] = at[h]
    BY <1>3, <1>6, <1>7
  <2>2. ~(g < h) /\ ~(h < g)
    BY <1>3, <1>6, <2>1
  <2>3. QED
    BY <1>4, <2>2
<1>8. QED
  BY <1>7 DEF HaveOwnOrders

(* A numbering is built when the groups qualify, and then only.            *)
LEMMA BuiltWhenQualifying ==
    ASSUME NEW canonical, IsCanonical(canonical), NEW seasons \in Seq(Group),
           NEW groups, groups = RegularGroups(seasons)
    PROVE  /\ BuildNumbering(canonical, seasons) # NoNumbering <=> Qualifies(canonical, groups)
           /\ Qualifies(canonical, groups) =>
                 /\ IsComplete(BuildNumbering(canonical, seasons), canonical)
                 /\ HaveOwnOrders(groups) =>
                       /\ IsOrdered(BuildNumbering(canonical, seasons))
                       /\ IsWithoutGaps(BuildNumbering(canonical, seasons))
<1>1. PICK n, keys, C : /\ n = BuildNumbering(canonical, seasons)
                        /\ keys = GroupOrder(RegularKeys(canonical), groups)
                        /\ C = Cardinality(GroupedKeys(groups))
  OBVIOUS
<1>2. CASE ~Qualifies(canonical, groups)
  <2>1. n = NoNumbering
    BY <1>1, <1>2, Zenon DEF BuildNumbering
  <2>2. QED
    BY <1>1, <1>2, <2>1
<1>3. CASE Qualifies(canonical, groups)
  <2>1. /\ n = BuildNumbering(canonical, seasons)
        /\ keys = GroupOrder(RegularKeys(canonical), groups)
        /\ C = Cardinality(GroupedKeys(groups))
    BY <1>1
  <2>2. /\ groups \in Seq(Group) /\ HaveNoRepeats(groups) /\ GroupedKeys(groups) # {}
        /\ ToSet(keys) = {e.key : e \in RegularEpisodes(canonical)}
        /\ IsNumberingOf(n, keys, groups, C)
    BY <1>3, <2>1, BuiltShape
  <2>3. n # NoNumbering
    BY <2>2, ReleasesOfNumbering, NoNumberingAssumption
  <2>4. IsComplete(n, canonical)
    BY <2>2, BuiltIsComplete
  <2>5. ASSUME HaveOwnOrders(groups)
        PROVE  IsOrdered(n) /\ IsWithoutGaps(n)
    BY <2>2, <2>5, BuiltIsOrdered, BuiltIsWithoutGaps
  <2>6. QED
    BY <1>3, <2>1, <2>3, <2>4, <2>5
<1>4. QED
  BY <1>2, <1>3

(* select_auto (numbering.py:134-150): whatever the groups of a show are,  *)
(* and however many, the automatic numbering has every regular episode     *)
(* once, under absolute numbers without a gap.                             *)
THEOREM SelectionsAreComplete ==
    ASSUME NEW canonical, IsCanonical(canonical), NEW candidates \in Seq(Seq(Group))
    PROVE  IsComplete(SelectAuto(canonical, candidates), canonical)
<1>1. PICK n : n = SelectAuto(canonical, candidates)
  OBVIOUS
<1>2. CASE n = IdentityNumbering(canonical)
  BY <1>1, <1>2, IdentityIsOneToOne
<1>3. ASSUME NEW i \in DOMAIN candidates,
             n = BuildNumbering(canonical, candidates[i]), n # NoNumbering
      PROVE  IsComplete(n, canonical)
  <2>1. PICK seasons, groups : seasons = candidates[i] /\ groups = RegularGroups(seasons)
    OBVIOUS
  <2>2. seasons \in Seq(Group)
    BY <2>1, ElementOfSeq, LenProperties
  <2>3. n = BuildNumbering(canonical, seasons) /\ groups = RegularGroups(seasons)
    BY <1>3, <2>1
  <2>4. QED
    BY <1>3, <2>2, <2>3, BuiltWhenQualifying
<1>4. n = IdentityNumbering(canonical)
      \/ \E i \in DOMAIN candidates : n = BuildNumbering(canonical, candidates[i]) /\ n # NoNumbering
  BY <1>1, SelectedNumbering
<1>5. QED
  BY <1>1, <1>2, <1>3, <1>4

(* The numbering that is used, for what is asked.                          *)
LEMMA AskedNumberingIsOneToOne == NumberingIsAsked => NumberingIsOneToOne
<1>1. SUFFICES ASSUME NumberingIsAsked, Asked("numbering"),
                      NEW regular, regular = {g \in DOMAIN Seasons : Seasons[g].order # Specials},
                      \A g, h \in regular : Seasons[g].order = Seasons[h].order => g = h,
                      NEW n, n = SelectAuto(input.canonical, <<Seasons>>)
               PROVE  /\ IsComplete(n, input.canonical) /\ IsOrdered(n)
                      /\ Built # NoNumbering /\ n = Built => IsWithoutGaps(n)
  BY Zenon DEF NumberingIsOneToOne
<1>2. IsCanonical(input.canonical) /\ AreGroups(input.groups)
  BY <1>1, AskedNumberingShape
<1>3. PICK canonical, seasons, groups :
         canonical = input.canonical /\ seasons = Seasons /\ groups = RegularGroups(seasons)
  OBVIOUS
<1>4. seasons \in Seq(Group)
  BY <1>2, <1>3, SeasonsShape DEF Seasons
<1>5. Built = BuildNumbering(canonical, seasons)
  BY <1>3, Zenon DEF Built
<1>6. HaveOwnOrders(groups)
  BY <1>1, <1>3, <1>4, RegularOrders
<1>7. /\ Built # NoNumbering <=> Qualifies(canonical, groups)
      /\ Qualifies(canonical, groups) =>
            IsComplete(Built, canonical) /\ IsOrdered(Built) /\ IsWithoutGaps(Built)
  BY <1>2, <1>3, <1>4, <1>5, <1>6, BuiltWhenQualifying
<1>8. n = IdentityNumbering(canonical) \/ (n = Built /\ Built # NoNumbering)
  <2>1. PICK candidates : candidates = <<seasons>>
    OBVIOUS
  <2>2. candidates \in Seq({seasons}) /\ DOMAIN candidates = 1 .. 1 /\ candidates[1] = seasons
    BY <2>1
  <2>3. \A i \in 1 .. 1 : i = 1
    OBVIOUS
  <2>4. n = SelectAuto(canonical, candidates)
    BY <1>1, <1>3, <2>1
  <2>5. n = IdentityNumbering(canonical)
        \/ \E i \in DOMAIN candidates : n = BuildNumbering(canonical, candidates[i]) /\ n # NoNumbering
    BY <2>2, <2>4, SelectedNumbering
  <2>6. QED
    BY <1>5, <2>2, <2>3, <2>5
<1>9. IsComplete(IdentityNumbering(canonical), canonical) /\ IsOrdered(IdentityNumbering(canonical))
  BY <1>2, <1>3, IdentityIsOneToOne
<1>10. QED
  BY <1>3, <1>7, <1>8, <1>9

(* services/numbering.py: whatever groups TMDB has of a show, the          *)
(* numbering that is used gives every regular episode numbers of its own.  *)
THEOREM NumberingsAreOneToOne == Spec => []NumberingIsOneToOne
<1>1. InputIsAsked => NumberingIsOneToOne
  BY AskedNumberingIsOneToOne DEF InputIsAsked
<1>2. QED
  BY <1>1, InputsAreAsked, PTL

\* The groups and places that count, in what TMDB sends.
GroupsOf(raw) == {g \in DOMAIN raw : raw[g].order # Specials /\ raw[g].entries # <<>>}

PlacesOf(raw) == UNION {{g} \X DOMAIN raw[g].entries : g \in GroupsOf(raw)}

KeyOfPlace(raw, p) == raw[p[1]].entries[p[2]].key

IsOneToOne(f, S, T) ==
    /\ f \in [S -> T]
    /\ \A x, y \in S : f[x] = f[y] => x = y
    /\ \A z \in T : \E x \in S : f[x] = z

(* A subsequence that is as long as there are places has them all.         *)
LEMMA SubsequenceIsOnto ==
    ASSUME NEW S, NEW t \in Seq(S), NEW s, NEW I \in SUBSET Nat, IsFiniteSet(I),
           Len(t) = Cardinality(I), IsSubsequence(t, s, I)
    PROVE  \E at : IsOneToOne(at, DOMAIN t, I) /\ \A n \in DOMAIN t : t[n] = s[at[n]]
<1>1. PICK at \in [DOMAIN t -> I] :
         /\ \A n \in DOMAIN t : t[n] = s[at[n]]
         /\ \A m, n \in DOMAIN t : m < n => at[m] < at[n]
  BY DEF IsSubsequence
<1>2. Len(t) \in Nat /\ DOMAIN t = 1 .. Len(t)
  BY LenProperties
<1>3. ASSUME NEW m \in DOMAIN t, NEW n \in DOMAIN t, at[m] = at[n]
      PROVE  m = n
  <2>1. at[m] \in Nat /\ at[n] \in Nat
    BY <1>1
  <2>2. ~(m < n) /\ ~(n < m)
    BY <1>1, <1>3, <2>1
  <2>3. QED
    BY <1>2, <2>2
<1>4. IsFiniteSet(DOMAIN t) /\ Cardinality(DOMAIN t) = Len(t)
  BY <1>2, CountedTo
<1>5. at \in Injection(DOMAIN t, I)
  BY <1>1, <1>3 DEF Injection, IsInjective
<1>6. at \in Surjection(DOMAIN t, I)
  BY <1>4, <1>5, FS_Injection
<1>7. \A z \in I : \E x \in DOMAIN t : at[x] = z
  BY <1>6 DEF Surjection
<1>8. QED
  BY <1>1, <1>3, <1>7 DEF IsOneToOne

(* The groups that a numbering is built of are those that count.           *)
LEMMA GroupsCorrespond ==
    ASSUME NEW raw, AreGroups(raw), NEW groups, groups = RegularGroups(ParseGroupSeasons(raw))
    PROVE  /\ groups \in Seq(Group)
           /\ \E b : /\ IsOneToOne(b, DOMAIN groups, GroupsOf(raw))
                     /\ \A j \in DOMAIN groups : groups[j].episodes = EpisodesOf(raw[b[j]])
<1>1. PICK seasons, parsed : seasons = ParseGroupSeasons(raw) /\ parsed = ParsedGroups(raw)
  OBVIOUS
<1>2. /\ seasons \in Seq(Group) /\ DOMAIN seasons = DOMAIN raw
      /\ IsRearrangement(seasons, parsed)
  BY <1>1, SeasonsShape
<1>3. DOMAIN parsed = DOMAIN raw
      /\ \A i \in DOMAIN raw : parsed[i].order = raw[i].order /\ parsed[i].episodes = EpisodesOf(raw[i])
  BY <1>1 DEF ParsedGroups
<1>4. PICK at \in [DOMAIN raw -> DOMAIN raw] :
         /\ \A n \in DOMAIN raw : seasons[n] = parsed[at[n]]
         /\ \A m, n \in DOMAIN raw : at[m] = at[n] => m = n
         /\ \A i \in DOMAIN raw : \E n \in DOMAIN raw : at[n] = i
  <2>1. \E at \in [DOMAIN parsed -> DOMAIN parsed] :
           /\ \A n \in DOMAIN parsed : seasons[n] = parsed[at[n]]
           /\ \A m, n \in DOMAIN parsed : at[m] = at[n] => m = n
           /\ \A i \in DOMAIN parsed : \E n \in DOMAIN parsed : at[n] = i
    BY <1>2 DEF IsRearrangement
  <2>2. QED
    BY <1>3, <2>1
<1>5. \A n \in DOMAIN raw : /\ seasons[n].order = raw[at[n]].order
                            /\ seasons[n].episodes = EpisodesOf(raw[at[n]])
  BY <1>3, <1>4
<1>6. \A i \in DOMAIN raw : EpisodesOf(raw[i]) # <<>> <=> raw[i].entries # <<>>
  <2>1. TAKE i \in DOMAIN raw
  <2>2. raw[i].entries \in Seq(Entry)
    BY DEF AreGroups
  <2>3. EpisodesOf(raw[i]) \in Seq(Keys) /\ DOMAIN EpisodesOf(raw[i]) = DOMAIN raw[i].entries
    BY <2>2, EpisodesShape
  <2>4. QED
    BY <2>2, <2>3, EmptySeq, LenProperties
<1>7. PICK I : I = {g \in DOMAIN seasons : seasons[g].order # Specials /\ seasons[g].episodes # <<>>}
  OBVIOUS
<1>8. groups = RegularGroups(seasons)
  BY <1>1
<1>9. /\ groups \in Seq(Group) /\ Len(groups) = Cardinality(I)
      /\ IsSubsequence(groups, seasons, I)
  BY <1>2, <1>7, <1>8, RegularGroupsShape
<1>10. I \in SUBSET Nat /\ IsFiniteSet(I)
  <2>1. DOMAIN seasons \subseteq Nat /\ IsFiniteSet(DOMAIN seasons)
    BY <1>2, PlacesAreOrdered
  <2>2. QED
    BY <1>7, <2>1, FS_Subset
<1>11. PICK sel : /\ IsOneToOne(sel, DOMAIN groups, I)
                  /\ \A n \in DOMAIN groups : groups[n] = seasons[sel[n]]
  BY <1>9, <1>10, SubsequenceIsOnto
<1>12. \A n \in DOMAIN raw : n \in I <=> at[n] \in GroupsOf(raw)
  BY <1>2, <1>4, <1>5, <1>6, <1>7 DEF GroupsOf
<1>13. I \subseteq DOMAIN raw
  BY <1>2, <1>7
<1>14. PICK b : b = [j \in DOMAIN groups |-> at[sel[j]]]
  OBVIOUS
<1>15. \A j \in DOMAIN groups : sel[j] \in I /\ b[j] = at[sel[j]]
  BY <1>11, <1>14 DEF IsOneToOne
<1>16. b \in [DOMAIN groups -> GroupsOf(raw)]
  BY <1>12, <1>13, <1>14, <1>15
<1>17. \A x, y \in DOMAIN groups : b[x] = b[y] => x = y
  <2>1. TAKE x, y \in DOMAIN groups
  <2>2. HAVE b[x] = b[y]
  <2>3. sel[x] = sel[y]
    BY <1>4, <1>13, <1>15, <2>2
  <2>4. QED
    BY <1>11, <2>3 DEF IsOneToOne
<1>18. \A z \in GroupsOf(raw) : \E x \in DOMAIN groups : b[x] = z
  <2>1. TAKE z \in GroupsOf(raw)
  <2>2. PICK n \in DOMAIN raw : at[n] = z
    BY <1>4 DEF GroupsOf
  <2>3. n \in I
    BY <1>12, <2>2
  <2>4. PICK x \in DOMAIN groups : sel[x] = n
    BY <1>11, <2>3 DEF IsOneToOne
  <2>5. QED
    BY <1>15, <2>2, <2>4
<1>19. \A j \in DOMAIN groups : groups[j].episodes = EpisodesOf(raw[b[j]])
  BY <1>5, <1>11, <1>13, <1>15
<1>20. IsOneToOne(b, DOMAIN groups, GroupsOf(raw))
  BY <1>16, <1>17, <1>18, Zenon DEF IsOneToOne
<1>21. QED
  BY <1>9, <1>19, <1>20

(* Their places are those that count, with the same keys.                  *)
LEMMA PlacesCorrespond ==
    ASSUME NEW raw, AreGroups(raw), NEW groups \in Seq(Group), NEW b,
           IsOneToOne(b, DOMAIN groups, GroupsOf(raw)),
           \A j \in DOMAIN groups : groups[j].episodes = EpisodesOf(raw[b[j]])
    PROVE  \E M : /\ IsOneToOne(M, Slots(groups), PlacesOf(raw))
                  /\ \A s \in Slots(groups) : KeyOfPlace(raw, M[s]) = KeyAt(groups, s)
<1> DEFINE Ends(j) == DOMAIN groups[j].episodes
           Arranges(j, at) ==
              /\ IsOneToOne(at, Ends(j), Ends(j))
              /\ \A n \in Ends(j) : groups[j].episodes[n] = raw[b[j]].entries[at[n]].key
<1>1. /\ \A j \in DOMAIN groups : b[j] \in GroupsOf(raw)
      /\ \A i, j \in DOMAIN groups : b[i] = b[j] => i = j
      /\ \A g \in GroupsOf(raw) : \E j \in DOMAIN groups : b[j] = g
  BY DEF IsOneToOne
<1>2. ASSUME NEW j \in DOMAIN groups
      PROVE  Ends(j) = DOMAIN raw[b[j]].entries /\ \E at : Arranges(j, at)
  <2>1. PICK e, group : e = groups[j].episodes /\ group = raw[b[j]]
    OBVIOUS
  <2>2. group.entries \in Seq(Entry)
    BY <1>1, <2>1 DEF AreGroups, GroupsOf
  <2>3. e = EpisodesOf(group)
    BY <2>1
  <2>4. DOMAIN e = DOMAIN group.entries /\ IsRearrangement(e, KeysOf(group.entries))
    BY <2>2, <2>3, EpisodesShape
  <2>5. PICK u : u = KeysOf(group.entries)
    OBVIOUS
  <2>6. DOMAIN u = DOMAIN e /\ \A i \in DOMAIN u : u[i] = group.entries[i].key
    BY <2>4, <2>5 DEF KeysOf
  <2>7. PICK at \in [DOMAIN u -> DOMAIN u] :
           /\ \A n \in DOMAIN u : e[n] = u[at[n]]
           /\ \A m, n \in DOMAIN u : at[m] = at[n] => m = n
           /\ \A i \in DOMAIN u : \E n \in DOMAIN u : at[n] = i
    BY <2>4, <2>5 DEF IsRearrangement
  <2>8. IsOneToOne(at, DOMAIN u, DOMAIN u)
    BY <2>7, Zenon DEF IsOneToOne
  <2>9. \A n \in DOMAIN u : e[n] = group.entries[at[n]].key
    BY <2>6, <2>7
  <2>10. Arranges(j, at)
    BY <2>1, <2>6, <2>8, <2>9
  <2>11. QED
    BY <2>1, <2>4, <2>10
<1> DEFINE r == [j \in DOMAIN groups |-> CHOOSE at : Arranges(j, at)]
<1>3. ASSUME NEW j \in DOMAIN groups
      PROVE  Arranges(j, r[j])
  <2> HIDE DEF Arranges
  <2>1. r[j] = CHOOSE at : Arranges(j, at)
    OBVIOUS
  <2>2. QED
    BY <1>2, <2>1, Zenon
<1> HIDE DEF r
<1>4. \A j \in DOMAIN groups :
         /\ r[j] \in [Ends(j) -> Ends(j)]
         /\ \A x, y \in Ends(j) : r[j][x] = r[j][y] => x = y
         /\ \A z \in Ends(j) : \E x \in Ends(j) : r[j][x] = z
         /\ \A n \in Ends(j) : groups[j].episodes[n] = raw[b[j]].entries[r[j][n]].key
  BY <1>3, Zenon DEF IsOneToOne
<1>5. \A s \in Slots(groups) : s = <<s[1], s[2]>> /\ s[1] \in DOMAIN groups /\ s[2] \in Ends(s[1])
  BY SlotsShape
<1>6. \A j \in DOMAIN groups : \A n \in Ends(j) : <<j, n>> \in Slots(groups)
  BY SlotsShape
<1>7. \A p : p \in PlacesOf(raw) <=>
         \E g \in GroupsOf(raw) : \E n \in DOMAIN raw[g].entries : p = <<g, n>>
  BY DEF PlacesOf
<1>8. PICK M : M = [s \in Slots(groups) |-> <<b[s[1]], r[s[1]][s[2]]>>]
  OBVIOUS
<1>9. ASSUME NEW s \in Slots(groups)
      PROVE  /\ M[s] = <<b[s[1]], r[s[1]][s[2]]>> /\ M[s] \in PlacesOf(raw)
             /\ KeyOfPlace(raw, M[s]) = KeyAt(groups, s)
  <2>1. s[1] \in DOMAIN groups /\ s[2] \in Ends(s[1])
    BY <1>5
  <2>2. M[s] = <<b[s[1]], r[s[1]][s[2]]>>
    BY <1>8
  <2>3. r[s[1]][s[2]] \in Ends(s[1])
    BY <1>4, <2>1
  <2>4. b[s[1]] \in GroupsOf(raw) /\ r[s[1]][s[2]] \in DOMAIN raw[b[s[1]]].entries
    BY <1>1, <1>2, <2>1, <2>3
  <2>5. M[s] \in PlacesOf(raw)
    BY <1>7, <2>2, <2>4
  <2>6. KeyAt(groups, s) = raw[b[s[1]]].entries[r[s[1]][s[2]]].key
    BY <1>4, <2>1 DEF KeyAt
  <2>7. KeyOfPlace(raw, M[s]) = raw[b[s[1]]].entries[r[s[1]][s[2]]].key
    BY <2>2 DEF KeyOfPlace
  <2>8. QED
    BY <2>2, <2>5, <2>6, <2>7
<1>10. M \in [Slots(groups) -> PlacesOf(raw)]
  BY <1>8, <1>9
<1>11. \A s, t \in Slots(groups) : M[s] = M[t] => s = t
  <2>1. TAKE s, t \in Slots(groups)
  <2>2. HAVE M[s] = M[t]
  <2>3. b[s[1]] = b[t[1]] /\ r[s[1]][s[2]] = r[t[1]][t[2]]
    BY <1>9, <2>2
  <2>4. s[1] = t[1]
    BY <1>1, <1>5, <2>3
  <2>5. s[2] = t[2]
    BY <1>4, <1>5, <2>3, <2>4
  <2>6. QED
    BY <1>5, <2>4, <2>5
<1>12. \A p \in PlacesOf(raw) : \E s \in Slots(groups) : M[s] = p
  <2>1. TAKE p \in PlacesOf(raw)
  <2>2. PICK g \in GroupsOf(raw) : \E n \in DOMAIN raw[g].entries : p = <<g, n>>
    BY <1>7
  <2>3. PICK n \in DOMAIN raw[g].entries : p = <<g, n>>
    BY <2>2
  <2>4. PICK j \in DOMAIN groups : b[j] = g
    BY <1>1
  <2>5. n \in Ends(j)
    BY <1>2, <2>4
  <2>6. PICK m \in Ends(j) : r[j][m] = n
    BY <1>4, <2>5
  <2>7. PICK s : s = <<j, m>>
    OBVIOUS
  <2>8. s \in Slots(groups) /\ s[1] = j /\ s[2] = m
    BY <1>6, <2>7
  <2>9. QED
    BY <1>9, <2>3, <2>4, <2>6, <2>8
<1>13. IsOneToOne(M, Slots(groups), PlacesOf(raw))
  BY <1>10, <1>11, <1>12, Zenon DEF IsOneToOne
<1>14. QED
  BY <1>9, <1>13

(* The release seasons that groups with orders of their own number.        *)
SeasonsOf(raw) == {raw[g].order : g \in GroupsOf(raw)}

HasOwnOrders(raw) == \A g, h \in GroupsOf(raw) : raw[g].order = raw[h].order => g = h

(* What build_numbering's docstring asks, said of the groups as they come. *)
DivideTheEpisodes(canonical, raw, keys) ==
    /\ Cardinality(SeasonsOf(raw)) >= MinReleaseSeasons
    /\ keys \subseteq {e.key : e \in RegularEpisodes(canonical)}
    /\ \A p, q \in PlacesOf(raw) : KeyOfPlace(raw, p) = KeyOfPlace(raw, q) => p = q
    /\ {e.key : e \in {e \in RegularEpisodes(canonical) : e.aired}} \subseteq keys

(* build_numbering's conditions hold of the sorted groups just when the    *)
(* docstring's hold of the groups as they are sent: without an order that  *)
(* two of them share there are as many release seasons as groups.          *)
LEMMA QualifyingGroups ==
    ASSUME NEW canonical, IsCanonical(canonical), NEW raw, AreGroups(raw), HasOwnOrders(raw),
           NEW groups, groups = RegularGroups(ParseGroupSeasons(raw)),
           NEW keys, keys = {KeyOfPlace(raw, p) : p \in PlacesOf(raw)}
    PROVE  Qualifies(canonical, groups) <=> DivideTheEpisodes(canonical, raw, keys)
<1>1. groups \in Seq(Group)
  BY GroupsCorrespond
<1>2. PICK b : /\ IsOneToOne(b, DOMAIN groups, GroupsOf(raw))
               /\ \A j \in DOMAIN groups : groups[j].episodes = EpisodesOf(raw[b[j]])
  BY GroupsCorrespond
<1>3. PICK M : /\ IsOneToOne(M, Slots(groups), PlacesOf(raw))
               /\ \A s \in Slots(groups) : KeyOfPlace(raw, M[s]) = KeyAt(groups, s)
  BY <1>1, <1>2, PlacesCorrespond
<1>4. Len(groups) = Cardinality(SeasonsOf(raw))
  <2>1. DOMAIN groups = 1 .. Len(groups) /\ Len(groups) \in Nat
    BY <1>1, LenProperties
  <2>2. IsFiniteSet(DOMAIN groups) /\ Cardinality(DOMAIN groups) = Len(groups)
    BY <2>1, CountedTo
  <2>3. PICK seasonOf : seasonOf = [j \in DOMAIN groups |-> raw[b[j]].order]
    OBVIOUS
  <2>4. /\ \A j \in DOMAIN groups : b[j] \in GroupsOf(raw)
        /\ \A i, j \in DOMAIN groups : b[i] = b[j] => i = j
        /\ \A g \in GroupsOf(raw) : \E j \in DOMAIN groups : b[j] = g
    BY <1>2 DEF IsOneToOne
  <2>5. seasonOf \in [DOMAIN groups -> SeasonsOf(raw)]
    BY <2>3, <2>4 DEF SeasonsOf
  <2>6. \A i, j \in DOMAIN groups : seasonOf[i] = seasonOf[j] => i = j
    BY <2>3, <2>4 DEF HasOwnOrders
  <2>7. \A season \in SeasonsOf(raw) : \E j \in DOMAIN groups : seasonOf[j] = season
    BY <2>3, <2>4 DEF SeasonsOf
  <2>8. seasonOf \in Bijection(DOMAIN groups, SeasonsOf(raw))
    BY <2>5, <2>6, <2>7 DEF Bijection, Injection, IsInjective, Surjection
  <2>9. ExistsBijection(DOMAIN groups, SeasonsOf(raw))
    BY <2>8 DEF ExistsBijection
  <2>10. QED
    BY <2>2, <2>9, FS_Bijection
<1>5. /\ \A s \in Slots(groups) : M[s] \in PlacesOf(raw)
      /\ \A s, t \in Slots(groups) : M[s] = M[t] => s = t
      /\ \A p \in PlacesOf(raw) : \E s \in Slots(groups) : M[s] = p
  BY <1>3 DEF IsOneToOne
<1>6. GroupedKeys(groups) = keys
  <2>1. GroupedKeys(groups) = {KeyAt(groups, s) : s \in Slots(groups)}
    BY Zenon DEF GroupedKeys
  <2>2. ASSUME NEW k \in keys PROVE \E s \in Slots(groups) : k = KeyAt(groups, s)
    <3>1. PICK p \in PlacesOf(raw) : k = KeyOfPlace(raw, p)
      OBVIOUS
    <3>2. PICK s \in Slots(groups) : M[s] = p
      BY <1>5
    <3>3. QED
      BY <1>3, <3>1, <3>2
  <2>3. ASSUME NEW s \in Slots(groups) PROVE KeyAt(groups, s) \in keys
    BY <1>3, <1>5
  <2>4. QED
    BY <2>1, <2>2, <2>3
<1>7. (\A s, t \in Slots(groups) : KeyAt(groups, s) = KeyAt(groups, t) => s = t)
      <=> \A p, q \in PlacesOf(raw) : KeyOfPlace(raw, p) = KeyOfPlace(raw, q) => p = q
  <2>1. ASSUME \A s, t \in Slots(groups) : KeyAt(groups, s) = KeyAt(groups, t) => s = t,
               NEW p \in PlacesOf(raw), NEW q \in PlacesOf(raw),
               KeyOfPlace(raw, p) = KeyOfPlace(raw, q)
        PROVE  p = q
    <3>1. PICK s \in Slots(groups) : M[s] = p
      BY <1>5
    <3>2. PICK t \in Slots(groups) : M[t] = q
      BY <1>5
    <3>3. QED
      BY <1>3, <2>1, <3>1, <3>2
  <2>2. ASSUME \A p, q \in PlacesOf(raw) : KeyOfPlace(raw, p) = KeyOfPlace(raw, q) => p = q,
               NEW s \in Slots(groups), NEW t \in Slots(groups), KeyAt(groups, s) = KeyAt(groups, t)
        PROVE  s = t
    <3>1. KeyOfPlace(raw, M[s]) = KeyOfPlace(raw, M[t])
      BY <1>3, <2>2
    <3>2. M[s] = M[t]
      BY <1>5, <2>2, <3>1
    <3>3. QED
      BY <1>5, <3>2
  <2>3. QED
    BY <2>1, <2>2
<1>8. PICK regular : regular = RegularEpisodes(canonical)
  OBVIOUS
<1>9. ToSet(Regular(canonical)) = regular
  BY <1>8, RegularShape
<1>10. PICK k : k = RegularKeys(canonical)
  OBVIOUS
<1>11. ToSet(k) = {e.key : e \in regular}
  BY <1>8, <1>10, RegularKeysShape
<1>12. (\A e \in regular : e.aired => e.key \in keys)
       <=> {e.key : e \in {e \in regular : e.aired}} \subseteq keys
  OBVIOUS
<1>13. Qualifies(canonical, groups) <=>
          /\ Len(groups) >= MinReleaseSeasons
          /\ GroupedKeys(groups) \subseteq ToSet(k)
          /\ \A s, t \in Slots(groups) : KeyAt(groups, s) = KeyAt(groups, t) => s = t
          /\ \A e \in ToSet(Regular(canonical)) : e.aired => e.key \in GroupedKeys(groups)
  BY <1>10, Zenon DEF Qualifies, RegularKeys
<1>14. QED
  BY <1>4, <1>6, <1>7, <1>8, <1>9, <1>11, <1>12, <1>13, Zenon DEF DivideTheEpisodes

(* The groups that are refused, for what is asked.                         *)
LEMMA AskedGroupsQualify == NumberingIsAsked => QualifiesAsDocumented
<1>1. SUFFICES ASSUME NumberingIsAsked, Asked("numbering"), HasOwnOrders(input.groups),
                      NEW keys, keys = {KeyOfPlace(input.groups, p) : p \in PlacesOf(input.groups)}
               PROVE  (Built # NoNumbering) <=> DivideTheEpisodes(input.canonical, input.groups, keys)
  BY Zenon DEF QualifiesAsDocumented, DividingGroups, ReleaseSeasons, DivideTheEpisodes,
               HasOwnOrders, SeasonsOf, RegularEpisodes, GroupsOf, PlacesOf, KeyOfPlace
<1>2. IsCanonical(input.canonical) /\ AreGroups(input.groups)
  BY <1>1, AskedNumberingShape
<1>3. PICK canonical, raw, seasons, groups :
         /\ canonical = input.canonical /\ raw = input.groups
         /\ seasons = ParseGroupSeasons(raw) /\ groups = RegularGroups(seasons)
  OBVIOUS
<1>4. IsCanonical(canonical) /\ AreGroups(raw) /\ HasOwnOrders(raw) /\ seasons \in Seq(Group)
  BY <1>1, <1>2, <1>3, SeasonsShape
<1>5. Built = BuildNumbering(canonical, seasons)
  BY <1>3, Zenon DEF Built, Seasons
<1>6. Built # NoNumbering <=> Qualifies(canonical, groups)
  BY <1>3, <1>4, <1>5, BuiltWhenQualifying
<1>7. groups = RegularGroups(ParseGroupSeasons(raw))
      /\ keys = {KeyOfPlace(raw, p) : p \in PlacesOf(raw)}
  BY <1>1, <1>3, Zenon
<1>8. Qualifies(canonical, groups) <=> DivideTheEpisodes(canonical, raw, keys)
  BY <1>4, <1>7, QualifyingGroups
<1>9. canonical = input.canonical /\ raw = input.groups
  BY <1>3, Zenon
<1>10. QED
  BY <1>6, <1>8, <1>9, Zenon

(* build_numbering's docstring (numbering.py:92-95): groups with orders of *)
(* their own are refused exactly when they are no division of the aired    *)
(* episodes into two release seasons or more.                              *)
THEOREM GroupsQualifyAsDocumented == Spec => []QualifiesAsDocumented
<1>1. InputIsAsked => QualifiesAsDocumented
  BY AskedGroupsQualify DEF InputIsAsked
<1>2. QED
  BY <1>1, InputsAreAsked, PTL
=============================================================================
