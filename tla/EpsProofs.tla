------------------------------ MODULE EpsProofs ------------------------------
(***************************************************************************)
(* Proofs about Eps for every list of loads, every limit of the bus and    *)
(* any number of panels.                                                   *)
(***************************************************************************)
EXTENDS Eps, Induction, SequenceTheorems, TLAPS

------------------------------------------------------------------------------
(* Sums.  Lists of numbers are taken as functions on 1..n.                 *)
LEMMA LenOf ==
  ASSUME NEW S, NEW n \in Nat, NEW w \in [1..n -> S]
  PROVE  w \in Seq(S) /\ Len(w) = n /\ DOMAIN w = 1..n
<1>1. w \in Seq(S)
  BY IsASeq
<1>2. Len(w) \in Nat /\ 1..Len(w) = 1..n
  BY <1>1, LenProperties
<1>3. Len(w) = n
  <2>1. CASE Len(w) < n
    <3>1. n \in 1..n /\ n \notin 1..Len(w)
      BY <2>1, <1>2
    <3> QED BY <3>1, <1>2
  <2>2. CASE n < Len(w)
    <3>1. Len(w) \in 1..Len(w) /\ Len(w) \notin 1..n
      BY <2>2, <1>2
    <3> QED BY <3>1, <1>2
  <2> QED BY <2>1, <2>2, <1>2
<1> QED BY <1>1, <1>3

(* Partial sums are unique, so the recursion of SumOf defines them: with   *)
(* any f that adds up w, the sum is the last element of f.                 *)
LEMMA SumAdds ==
  ASSUME NEW n \in Nat, NEW w \in [1..n -> Nat], NEW f, Adds(f, n, w)
  PROVE  SumOf(w) = f[n] /\ SumOf(w) \in Nat
<1> DEFINE total == CHOOSE g : g = [k \in 0..Len(w) |-> IF k = 0 THEN 0 ELSE g[k-1] + w[k]]
<1>1. Len(w) = n
  BY LenOf
<1>2. SumOf(w) = total[n]
  BY <1>1 DEF SumOf
<1>3. f = [k \in 0..n |-> IF k = 0 THEN 0 ELSE f[k-1] + w[k]]
  <2>1. \A k \in 0..n : k = 0 \/ k \in 1..n
    OBVIOUS
  <2> QED BY <2>1 DEF Adds
<1>4. total = [k \in 0..n |-> IF k = 0 THEN 0 ELSE total[k-1] + w[k]]
  BY <1>1, <1>3
<1> HIDE DEF total
<1> DEFINE S == {m \in Nat : m <= n => total[m] = f[m]}
<1>5. 0 \in S
  BY <1>4 DEF Adds
<1>6. ASSUME NEW m \in Nat, m \in S PROVE m + 1 \in S
  <2> SUFFICES ASSUME m + 1 <= n PROVE total[m+1] = f[m+1]
    OBVIOUS
  <2>1. m + 1 \in 0..n /\ m + 1 \in 1..n /\ m + 1 # 0 /\ (m + 1) - 1 = m /\ m <= n
    OBVIOUS
  <2>2. total[m+1] = total[m] + w[m+1]
    BY <2>1, <1>4
  <2> QED BY <2>1, <2>2, <1>6 DEF Adds
<1>7. n \in S
  <2> HIDE DEF S
  <2> QED BY <1>5, <1>6, NatSetInduction
<1> QED BY <1>2, <1>7 DEF Adds

LEMMA SumType ==
  ASSUME NEW n \in Nat, NEW w \in [1..n -> Nat]
  PROVE  SumOf(w) \in Nat
  BY PartialSums, SumAdds

(* The sum of what is added element by element.                            *)
LEMMA SumPlus ==
  ASSUME NEW n \in Nat, NEW u \in [1..n -> Nat], NEW v \in [1..n -> Nat],
         NEW w \in [1..n -> Nat], \A i \in 1..n : w[i] = u[i] + v[i]
  PROVE  SumOf(w) = SumOf(u) + SumOf(v)
<1>1. PICK f : Adds(f, n, u)
  BY PartialSums
<1>2. PICK g : Adds(g, n, v)
  BY PartialSums
<1> DEFINE h == [k \in 0..n |-> f[k] + g[k]]
<1>3. Adds(h, n, w)
  <2>1. h \in [0..n -> Nat] /\ h[0] = 0
    BY <1>1, <1>2 DEF Adds
  <2>2. ASSUME NEW k \in 1..n PROVE h[k] = h[k-1] + w[k]
    <3>1. k \in 0..n /\ k - 1 \in 0..n
      OBVIOUS
    <3>2. f[k] = f[k-1] + u[k] /\ g[k] = g[k-1] + v[k] /\ w[k] = u[k] + v[k]
      BY <1>1, <1>2 DEF Adds
    <3>3. {f[k-1], g[k-1], u[k], v[k]} \subseteq Nat
      BY <1>1, <1>2, <3>1 DEF Adds
    <3> QED BY <3>1, <3>2, <3>3
  <2> HIDE DEF h
  <2> QED BY <2>1, <2>2 DEF Adds
<1>4. SumOf(w) = h[n] /\ SumOf(u) = f[n] /\ SumOf(v) = g[n]
  BY <1>1, <1>2, <1>3, SumAdds
<1> QED BY <1>4

(* A list that is nowhere larger has no larger sum.                        *)
LEMMA SumMonotone ==
  ASSUME NEW n \in Nat, NEW u \in [1..n -> Nat], NEW w \in [1..n -> Nat],
         \A i \in 1..n : u[i] <= w[i]
  PROVE  SumOf(u) <= SumOf(w)
<1> DEFINE v == [i \in 1..n |-> w[i] - u[i]]
<1>1. v \in [1..n -> Nat]
  <2> SUFFICES ASSUME NEW i \in 1..n PROVE w[i] - u[i] \in Nat
    OBVIOUS
  <2>1. w[i] \in Nat /\ u[i] \in Nat /\ u[i] <= w[i]
    OBVIOUS
  <2> QED BY <2>1
<1>2. \A i \in 1..n : w[i] = u[i] + v[i]
  <2> SUFFICES ASSUME NEW i \in 1..n PROVE w[i] = u[i] + (w[i] - u[i])
    OBVIOUS
  <2>1. w[i] \in Nat /\ u[i] \in Nat
    OBVIOUS
  <2> QED BY <2>1
<1> HIDE DEF v
<1>3. SumOf(w) = SumOf(u) + SumOf(v)
  BY <1>1, <1>2, SumPlus
<1>4. SumOf(u) \in Nat /\ SumOf(v) \in Nat
  BY <1>1, SumType
<1> QED BY <1>3, <1>4

LEMMA SumZero ==
  ASSUME NEW n \in Nat, NEW w \in [1..n -> Nat], \A i \in 1..n : w[i] = 0
  PROVE  SumOf(w) = 0
<1> DEFINE f == [k \in 0..n |-> 0]
<1>1. Adds(f, n, w)
  <2>1. \A k \in 1..n : k \in 0..n /\ k - 1 \in 0..n
    OBVIOUS
  <2> QED BY <2>1 DEF Adds
<1> QED BY <1>1, SumAdds

(* One load more: the sums differ by what is added at one place.           *)
LEMMA SumAt ==
  ASSUME NEW n \in Nat, NEW u \in [1..n -> Nat], NEW w \in [1..n -> Nat],
         NEW p \in 1..n, NEW x \in Nat,
         \A i \in 1..n : w[i] = IF i = p THEN u[i] + x ELSE u[i]
  PROVE  SumOf(w) = SumOf(u) + x
<1> DEFINE v == [i \in 1..n |-> IF i = p THEN x ELSE 0]
           f == [k \in 0..n |-> IF k < p THEN 0 ELSE x]
<1>1. v \in [1..n -> Nat]
  OBVIOUS
<1>2. Adds(f, n, v)
  <2>1. f \in [0..n -> Nat] /\ f[0] = 0
    OBVIOUS
  <2>2. ASSUME NEW k \in 1..n PROVE f[k] = f[k-1] + v[k]
    <3>1. k \in 0..n /\ k - 1 \in 0..n
      OBVIOUS
    <3>2. CASE k < p
      BY <3>1, <3>2
    <3>3. CASE k = p
      BY <3>1, <3>3
    <3>4. CASE k > p
      <4>1. ~(k < p) /\ ~(k - 1 < p) /\ k # p
        BY <3>4
      <4> QED BY <3>1, <4>1
    <3> QED BY <3>2, <3>3, <3>4
  <2> HIDE DEF f, v
  <2> QED BY <2>1, <2>2 DEF Adds
<1>3. SumOf(v) = x
  <2>1. SumOf(v) = f[n]
    <3> HIDE DEF f, v
    <3> QED BY <1>1, <1>2, SumAdds
  <2> QED BY <2>1
<1>4. \A i \in 1..n : w[i] = u[i] + v[i]
  <2> SUFFICES ASSUME NEW i \in 1..n PROVE w[i] = u[i] + v[i]
    OBVIOUS
  <2>1. u[i] \in Nat
    OBVIOUS
  <2> QED BY <2>1
<1> HIDE DEF v
<1>5. SumOf(w) = SumOf(u) + SumOf(v)
  BY <1>1, <1>4, SumPlus
<1> QED BY <1>3, <1>5

(* The order in which a list is added does not matter: adding w in the     *)
(* order of p, the part added after k steps is that of p[1], ..., p[k].    *)
LEMMA SumPermuted ==
  ASSUME NEW n \in Nat, NEW w \in [1..n -> Nat], NEW p \in Bijection(1..n, 1..n),
         NEW u \in [1..n -> Nat], \A k \in 1..n : u[k] = w[p[k]]
  PROVE  SumOf(u) = SumOf(w)
<1>0. /\ p \in [1..n -> 1..n]
      /\ \A i, j \in 1..n : p[i] = p[j] => i = j
      /\ \A i \in 1..n : \E j \in 1..n : p[j] = i
  BY DEF Bijection, Injection, IsInjective, Surjection
<1> DEFINE Taken(k) == [i \in 1..n |-> IF \E j \in 1..k : p[j] = i THEN w[i] ELSE 0]
           f == [k \in 0..n |-> SumOf(Taken(k))]
<1>1. \A k \in 0..n : Taken(k) \in [1..n -> Nat]
  OBVIOUS
<1>2. Adds(f, n, u)
  <2>1. f \in [0..n -> Nat]
    <3> HIDE DEF Taken
    <3> QED BY <1>1, SumType
  <2>2. f[0] = 0
    <3>1. Taken(0) \in [1..n -> Nat] /\ \A i \in 1..n : Taken(0)[i] = 0
      OBVIOUS
    <3> HIDE DEF Taken
    <3> QED BY <3>1, SumZero
  <2>3. ASSUME NEW k \in 1..n PROVE f[k] = f[k-1] + u[k]
    <3>1. k \in 0..n /\ k - 1 \in 0..n /\ p[k] \in 1..n /\ u[k] = w[p[k]] /\ u[k] \in Nat
      BY <1>0
    <3>2. ASSUME NEW i \in 1..n
          PROVE  Taken(k)[i] = IF i = p[k] THEN Taken(k-1)[i] + u[k] ELSE Taken(k-1)[i]
      <4>1. CASE i = p[k]
        <5>1. Taken(k)[i] = w[i]
          BY <4>1
        <5>2. \A j \in 1..(k-1) : j \in 1..n /\ j # k
          OBVIOUS
        <5>3. Taken(k-1)[i] = 0
          BY <4>1, <5>2, <1>0
        <5>4. w[i] \in Nat /\ w[i] = u[k]
          BY <4>1, <3>1
        <5> HIDE DEF Taken
        <5> QED BY <4>1, <5>1, <5>3, <5>4
      <4>2. CASE i # p[k]
        <5>1. (\E j \in 1..k : p[j] = i) <=> (\E j \in 1..(k-1) : p[j] = i)
          <6>1. \A j \in 1..k : j = k \/ j \in 1..(k-1)
            OBVIOUS
          <6>2. \A j \in 1..(k-1) : j \in 1..k
            OBVIOUS
          <6> QED BY <6>1, <6>2, <4>2
        <5> QED BY <4>2, <5>1
      <4> QED BY <4>1, <4>2
    <3> HIDE DEF Taken
    <3>3. SumOf(Taken(k)) = SumOf(Taken(k-1)) + u[k]
      <4>1. Taken(k) \in [1..n -> Nat] /\ Taken(k-1) \in [1..n -> Nat]
        BY <1>1, <3>1
      <4> QED BY <4>1, <3>1, <3>2, SumAt
    <3> QED BY <3>1, <3>3
  <2> HIDE DEF f
  <2> QED BY <2>1, <2>2, <2>3 DEF Adds
<1>3. SumOf(u) = f[n]
  <2> HIDE DEF f
  <2> QED BY <1>2, SumAdds
<1>4. Taken(n) = w
  <2>1. \A i \in 1..n : Taken(n)[i] = w[i]
    BY <1>0
  <2> QED BY <2>1
<1> HIDE DEF Taken
<1> QED BY <1>3, <1>4

------------------------------------------------------------------------------
(* Sorting.                                                                *)

LEMMA StrictlyFewer ==
  ASSUME NEW B, IsFiniteSet(B), NEW A \in SUBSET B, NEW x \in B, x \notin A
  PROVE  /\ Cardinality(A) < Cardinality(B)
         /\ Cardinality(A) \in Nat /\ Cardinality(B) \in Nat
<1>1. IsFiniteSet(A) /\ Cardinality(A) <= Cardinality(B) /\ Cardinality(A) # Cardinality(B)
  BY FS_Subset
<1>2. Cardinality(A) \in Nat /\ Cardinality(B) \in Nat
  BY <1>1, FS_CardinalityType
<1> QED BY <1>1, <1>2

(* s is ls taken in the order of p, in which the keys do not fall.         *)
SortedBy(p, n, s, ls, key) ==
  /\ p \in Bijection(1..n, 1..n)
  /\ \A k \in 1..n : s[k] = ls[p[k]]
  /\ \A j, k \in 1..n : j < k => key[p[j]] <= key[p[k]]

(* The order of sort.SliceStable is a permutation of the list in which the *)
(* keys do not fall: the number of loads before each one is its own.       *)
LEMMA SliceStableSorts ==
  ASSUME NEW S, NEW n \in Nat, NEW ls \in [1..n -> S], NEW key \in [1..n -> Int]
  PROVE  /\ SliceStable(ls, key) \in [1..n -> S]
         /\ \E p : SortedBy(p, n, SliceStable(ls, key), ls, key)
<1>0. DOMAIN ls = 1..n
  OBVIOUS
<1> DEFINE Before(i, j) == key[i] < key[j] \/ (key[i] = key[j] /\ i < j)
           Earlier(i) == {j \in 1..n : Before(j, i)}
           Rank(i) == 1 + Cardinality(Earlier(i))
           rank == [i \in 1..n |-> Rank(i)]
           p == [k \in 1..n |-> CHOOSE i \in 1..n : Rank(i) = k]
<1>1. IsFiniteSet(1..n) /\ Cardinality(1..n) = n
  BY FS_Interval
<1>2. ASSUME NEW i \in 1..n
      PROVE  Earlier(i) \in SUBSET (1..n) /\ IsFiniteSet(Earlier(i))
             /\ Rank(i) \in 1..n /\ rank[i] = Rank(i)
  <2>1. i \notin Earlier(i)
    OBVIOUS
  <2>2. Earlier(i) \in SUBSET (1..n)
    OBVIOUS
  <2> HIDE DEF Earlier
  <2>3. Cardinality(Earlier(i)) \in Nat /\ Cardinality(Earlier(i)) < n
    BY <1>1, <2>1, <2>2, StrictlyFewer
  <2>4. IsFiniteSet(Earlier(i))
    BY <1>1, <2>2, FS_Subset
  <2>5. Rank(i) \in 1..n
    BY <2>3
  <2> HIDE DEF Rank
  <2> QED BY <2>2, <2>4, <2>5
<1>3. ASSUME NEW i \in 1..n, NEW j \in 1..n, Before(i, j)
      PROVE  Rank(i) < Rank(j)
  <2>1. \A m \in Earlier(i) : m \in Earlier(j)
    <3> SUFFICES ASSUME NEW m \in 1..n, Before(m, i) PROVE Before(m, j)
      OBVIOUS
    <3>1. key[m] \in Int /\ key[i] \in Int /\ key[j] \in Int
      OBVIOUS
    <3> QED BY <3>1, <1>3
  <2>2. i \in Earlier(j) /\ i \notin Earlier(i)
    BY <1>3
  <2>3. IsFiniteSet(Earlier(j))
    <3> HIDE DEF Earlier, Rank
    <3> QED BY <1>2
  <2> HIDE DEF Earlier
  <2>s. Earlier(i) \in SUBSET Earlier(j)
    BY <2>1
  <2>4. /\ Cardinality(Earlier(i)) < Cardinality(Earlier(j))
        /\ Cardinality(Earlier(i)) \in Nat /\ Cardinality(Earlier(j)) \in Nat
    BY <2>2, <2>3, <2>s, StrictlyFewer
  <2> QED BY <2>4
<1>4. \A i, j \in 1..n : i = j \/ Before(i, j) \/ Before(j, i)
  <2> SUFFICES ASSUME NEW i \in 1..n, NEW j \in 1..n, i # j
               PROVE  Before(i, j) \/ Before(j, i)
    OBVIOUS
  <2>1. key[i] \in Int /\ key[j] \in Int
    OBVIOUS
  <2> QED BY <2>1
<1>5. \A i, j \in 1..n : Rank(i) = Rank(j) => i = j
  <2> SUFFICES ASSUME NEW i \in 1..n, NEW j \in 1..n, Rank(i) = Rank(j) PROVE i = j
    OBVIOUS
  <2> HIDE DEF Rank, Before, Earlier, rank, p
  <2>1. Rank(i) \in 1..n /\ Rank(j) \in 1..n
    BY <1>2
  <2>2. ~Before(i, j) /\ ~Before(j, i)
    BY <2>1, <1>3
  <2> QED BY <2>2, <1>4
<1>6. rank \in Injection(1..n, 1..n)
  <2> HIDE DEF Rank
  <2> QED BY <1>2, <1>5 DEF Injection, IsInjective
<1>7. \A k \in 1..n : \E i \in 1..n : Rank(i) = k
  <2>1. rank \in Surjection(1..n, 1..n)
    <3> HIDE DEF rank
    <3> QED BY <1>1, <1>6, FS_Injection
  <2> HIDE DEF Rank
  <2> QED BY <2>1 DEF Surjection
<1>8. \A k \in 1..n : p[k] \in 1..n /\ Rank(p[k]) = k
  <2> HIDE DEF Rank
  <2> QED BY <1>7
<1>9. SliceStable(ls, key) = [k \in 1..n |-> ls[p[k]]]
  <2>1. \A k \in 1..n : SliceStable(ls, key)[k] = ls[p[k]]
    BY <1>0 DEF SliceStable
  <2> QED BY <1>0, <2>1 DEF SliceStable
<1> HIDE DEF rank, p, Rank
<1>10. p \in Bijection(1..n, 1..n)
  <2>1. p \in [1..n -> 1..n]
    <3>1. p = [k \in 1..n |-> p[k]]
      BY DEF p
    <3> QED BY <3>1, <1>8
  <2>2. \A j, k \in 1..n : p[j] = p[k] => j = k
    BY <1>8
  <2>3. \A i \in 1..n : \E k \in 1..n : p[k] = i
    <3> SUFFICES ASSUME NEW i \in 1..n PROVE \E k \in 1..n : p[k] = i
      OBVIOUS
    <3>1. Rank(i) \in 1..n
      BY <1>2
    <3>2. p[Rank(i)] \in 1..n /\ Rank(p[Rank(i)]) = Rank(i)
      BY <3>1, <1>8
    <3>3. p[Rank(i)] = i
      BY <3>2, <1>5
    <3> QED BY <3>1, <3>3
  <2> QED BY <2>1, <2>2, <2>3 DEF Bijection, Injection, IsInjective, Surjection
<1>11. ASSUME NEW j \in 1..n, NEW k \in 1..n, j < k PROVE key[p[j]] <= key[p[k]]
  <2>1. ~Before(p[k], p[j])
    <3> HIDE DEF Before
    <3> QED BY <1>3, <1>8, <1>11
  <2>2. p[j] \in 1..n /\ p[k] \in 1..n
    BY <1>8
  <2>3. key[p[j]] \in Int /\ key[p[k]] \in Int
    BY <2>2
  <2> QED BY <2>1, <2>3
<1>12. SliceStable(ls, key) \in [1..n -> S]
  BY <1>8, <1>9
<1>13. SortedBy(p, n, SliceStable(ls, key), ls, key)
  BY <1>9, <1>10, <1>11 DEF SortedBy
<1> QED BY <1>12, <1>13

------------------------------------------------------------------------------
(* Lists of loads.                                                         *)
NamesDiffer(ls) == \A i, j \in DOMAIN ls : ls[i].name = ls[j].name => i = j

LEMMA LoadFields ==
  ASSUME NEW n \in Nat, NEW ls \in [1..n -> Load], NEW i \in 1..n
  PROVE  /\ ls[i].name \in Names /\ ls[i].power \in Nat /\ ls[i].priority \in Nat
         /\ ls[i].active \in BOOLEAN /\ ls[i] \in Load
<1>1. ls[i] \in Load
  OBVIOUS
<1> QED BY <1>1 DEF Load

LEMMA DrawnType ==
  ASSUME NEW n \in Nat, NEW ls \in [1..n -> Load]
  PROVE  /\ Drawn(ls) \in [1..n -> Nat]
         /\ \A i \in 1..n : Drawn(ls)[i] = IF ls[i].active THEN ls[i].power ELSE 0
         /\ ComputeTotalLoad(ls) \in Nat
         /\ DOMAIN ls = 1..n
<1>1. DOMAIN ls = 1..n /\ \A i \in 1..n : ls[i].power \in Nat
  BY LoadFields
<1>2. Drawn(ls) = [i \in 1..n |-> IF ls[i].active THEN ls[i].power ELSE 0]
  BY <1>1 DEF Drawn
<1>3. Drawn(ls) \in [1..n -> Nat]
  BY <1>1, <1>2
<1> QED BY <1>1, <1>2, <1>3, SumType DEF ComputeTotalLoad

(* Among any loads there is one that no other goes before, and one that    *)
(* goes before no other.                                                   *)
LEMMA FirstAndLastToGo ==
  ASSUME NEW n \in Nat, NEW ls \in [1..n -> Load], NEW D \in SUBSET (1..n), D # {}
  PROVE  /\ \E i \in D : \A j \in D : ~GoesBefore(ls, j, i)
         /\ \E i \in D : \A j \in D : ~GoesBefore(ls, i, j)
<1>0. \A i \in 1..n : ls[i].priority \in Nat
  BY LoadFields
<1>1. \E i \in D : \A j \in D : ~GoesBefore(ls, j, i)
  <2> DEFINE key == [i \in 1..n |-> -ls[i].priority]
  <2>1. key \in [1..n -> Int] /\ \A i \in 1..n : key[i] = -ls[i].priority
    BY <1>0
  <2> HIDE DEF key
  <2>2. PICK m \in D : \A j \in D : key[j] <= key[m]
    BY <2>1, LargestKey
  <2>3. \A j \in D : ls[m].priority <= ls[j].priority
    <3> SUFFICES ASSUME NEW j \in D PROVE ls[m].priority <= ls[j].priority
      OBVIOUS
    <3>1. -ls[j].priority <= -ls[m].priority
      BY <2>1, <2>2
    <3> QED BY <3>1, <1>0
  <2> DEFINE E == {j \in D : ls[j].priority = ls[m].priority}
  <2>4. PICK i \in E : \A j \in E : i <= j
    <3>1. E \in SUBSET (1..n) /\ E # {}
      OBVIOUS
    <3> HIDE DEF E
    <3> QED BY <3>1, LeastAndGreatest
  <2>5. \A j \in D : ~GoesBefore(ls, j, i)
    <3> SUFFICES ASSUME NEW j \in D PROVE ~GoesBefore(ls, j, i)
      OBVIOUS
    <3>1. ls[i].priority <= ls[j].priority /\ (ls[j].priority = ls[i].priority => i <= j)
      BY <2>3, <2>4
    <3>2. ls[i].priority \in Nat /\ ls[j].priority \in Nat /\ i \in Nat /\ j \in Nat
      BY <1>0
    <3> QED BY <3>1, <3>2 DEF GoesBefore
  <2> QED BY <2>5
<1>2. \E i \in D : \A j \in D : ~GoesBefore(ls, i, j)
  <2> DEFINE key == [i \in 1..n |-> ls[i].priority]
  <2>1. key \in [1..n -> Int] /\ \A i \in 1..n : key[i] = ls[i].priority
    BY <1>0
  <2> HIDE DEF key
  <2>2. PICK m \in D : \A j \in D : key[j] <= key[m]
    BY <2>1, LargestKey
  <2>3. \A j \in D : ls[j].priority <= ls[m].priority
    BY <2>1, <2>2
  <2> DEFINE E == {j \in D : ls[j].priority = ls[m].priority}
  <2>4. PICK i \in E : \A j \in E : j <= i
    <3>1. E \in SUBSET (1..n) /\ E # {}
      OBVIOUS
    <3> HIDE DEF E
    <3> QED BY <3>1, LeastAndGreatest
  <2>5. \A j \in D : ~GoesBefore(ls, i, j)
    <3> SUFFICES ASSUME NEW j \in D PROVE ~GoesBefore(ls, i, j)
      OBVIOUS
    <3>1. ls[j].priority <= ls[i].priority /\ (ls[j].priority = ls[i].priority => j <= i)
      BY <2>3, <2>4
    <3>2. ls[i].priority \in Nat /\ ls[j].priority \in Nat /\ i \in Nat /\ j \in Nat
      BY <1>0
    <3> QED BY <3>1, <3>2 DEF GoesBefore
  <2> QED BY <2>5
<1> QED BY <1>1, <1>2

(* The loads of s are those of ls.                                         *)
SameLoads(n, s, ls) ==
  /\ \A i \in 1..n : (\E k \in 1..n : s[k] = ls[i])
  /\ \A k \in 1..n : (\E i \in 1..n : s[k] = ls[i])

(* Sorting loses no load, doubles none and leaves the total as it was.     *)
LEMMA SortedLoads ==
  ASSUME NEW n \in Nat, NEW ls \in [1..n -> Load], NamesDiffer(ls),
         NEW key \in [1..n -> Int], NEW s, s = SliceStable(ls, key)
  PROVE  /\ s \in [1..n -> Load] /\ NamesDiffer(s)
         /\ ComputeTotalLoad(s) = ComputeTotalLoad(ls)
         /\ SameLoads(n, s, ls)
<1>1. s \in [1..n -> Load]
  BY SliceStableSorts
<1>2. PICK p \in Bijection(1..n, 1..n) : \A k \in 1..n : s[k] = ls[p[k]]
  <2>1. PICK p : SortedBy(p, n, s, ls, key)
    BY SliceStableSorts
  <2> QED BY <2>1 DEF SortedBy
<1>3. /\ p \in [1..n -> 1..n]
      /\ \A i, j \in 1..n : p[i] = p[j] => i = j
      /\ \A i \in 1..n : \E k \in 1..n : p[k] = i
  BY DEF Bijection, Injection, IsInjective, Surjection
<1>4. NamesDiffer(s)
  <2> SUFFICES ASSUME NEW i \in 1..n, NEW j \in 1..n, s[i].name = s[j].name
               PROVE  i = j
    BY <1>1 DEF NamesDiffer
  <2>1. p[i] \in 1..n /\ p[j] \in 1..n /\ ls[p[i]].name = ls[p[j]].name
    BY <1>2, <1>3
  <2>2. p[i] = p[j]
    BY <2>1 DEF NamesDiffer
  <2> QED BY <2>2, <1>3
<1>5. ComputeTotalLoad(s) = ComputeTotalLoad(ls)
  <2>1. \A k \in 1..n : Drawn(s)[k] = Drawn(ls)[p[k]]
    <3>1. \A k \in 1..n : Drawn(s)[k] = IF s[k].active THEN s[k].power ELSE 0
      BY <1>1, DrawnType
    <3>2. \A k \in 1..n : Drawn(ls)[k] = IF ls[k].active THEN ls[k].power ELSE 0
      BY DrawnType
    <3> SUFFICES ASSUME NEW k \in 1..n PROVE Drawn(s)[k] = Drawn(ls)[p[k]]
      OBVIOUS
    <3>3. s[k] = ls[p[k]] /\ p[k] \in 1..n
      BY <1>2, <1>3
    <3> QED BY <3>1, <3>2, <3>3
  <2>2. Drawn(s) \in [1..n -> Nat] /\ Drawn(ls) \in [1..n -> Nat]
    BY <1>1, DrawnType
  <2> QED BY <2>1, <2>2, SumPermuted DEF ComputeTotalLoad
<1>6. ASSUME NEW i \in 1..n PROVE \E k \in 1..n : s[k] = ls[i]
  <2>1. PICK k \in 1..n : p[k] = i
    BY <1>3
  <2>2. s[k] = ls[i]
    BY <2>1, <1>2
  <2> QED BY <2>2
<1>7. ASSUME NEW k \in 1..n PROVE \E i \in 1..n : s[k] = ls[i]
  <2>1. p[k] \in 1..n /\ s[k] = ls[p[k]]
    BY <1>2, <1>3
  <2> QED BY <2>1
<1> QED BY <1>1, <1>4, <1>5, <1>6, <1>7 DEF SameLoads

(* What the two orders are; Rising lets the numbers rise.                  *)
LEMMA FallingRising ==
  ASSUME NEW n \in Nat, NEW ls \in [1..n -> Load], NamesDiffer(ls),
         NEW s, s = Falling(ls) \/ s = Rising(ls)
  PROVE  /\ s \in [1..n -> Load] /\ NamesDiffer(s)
         /\ ComputeTotalLoad(s) = ComputeTotalLoad(ls)
         /\ SameLoads(n, s, ls)
<1>1. \A i \in 1..n : ls[i].priority \in Nat
  BY LoadFields
<1>2. DOMAIN ls = 1..n
  OBVIOUS
<1>3. [i \in DOMAIN ls |-> -ls[i].priority] \in [1..n -> Int]
  BY <1>1, <1>2
<1>4. [i \in DOMAIN ls |-> ls[i].priority] \in [1..n -> Int]
  BY <1>1, <1>2
<1>5. PICK key \in [1..n -> Int] : s = SliceStable(ls, key)
  BY <1>3, <1>4 DEF Falling, Rising
<1> QED BY <1>5, SortedLoads

LEMMA RisingRises ==
  ASSUME NEW n \in Nat, NEW ls \in [1..n -> Load],
         NEW j \in 1..n, NEW k \in 1..n, j < k
  PROVE  Rising(ls)[j].priority <= Rising(ls)[k].priority
<1> DEFINE key == [i \in DOMAIN ls |-> ls[i].priority]
<1>1. DOMAIN ls = 1..n /\ \A i \in 1..n : ls[i].priority \in Nat
  BY LoadFields
<1>2. key \in [1..n -> Int] /\ \A i \in 1..n : key[i] = ls[i].priority
  BY <1>1
<1>3. Rising(ls) = SliceStable(ls, key)
  BY DEF Rising
<1> HIDE DEF key
<1>4. PICK p : SortedBy(p, n, SliceStable(ls, key), ls, key)
  BY <1>2, SliceStableSorts
<1>5. p \in [1..n -> 1..n]
  BY <1>4 DEF SortedBy, Bijection, Injection
<1>6. /\ Rising(ls)[j] = ls[p[j]] /\ Rising(ls)[k] = ls[p[k]]
      /\ key[p[j]] <= key[p[k]]
  BY <1>3, <1>4 DEF SortedBy
<1>7. p[j] \in 1..n /\ p[k] \in 1..n
  BY <1>5
<1> QED BY <1>2, <1>6, <1>7

------------------------------------------------------------------------------
(* Shedding and restoring.                                                 *)

LEMMA Numbers ==
  /\ MaxPower \in Nat /\ OnPower \in Nat /\ OnPriority \in Nat
  /\ PanelPower \in Nat /\ PanelCount \in Nat
  BY EpsConstants

LEMMA Switched ==
  ASSUME NEW l \in Load, NEW b \in BOOLEAN
  PROVE  /\ [l EXCEPT !.active = b] \in Load
         /\ [l EXCEPT !.active = b].active = b
         /\ [l EXCEPT !.active = b].name = l.name
         /\ [l EXCEPT !.active = b].power = l.power
         /\ [l EXCEPT !.active = b].priority = l.priority
  BY DEF Load

(* t is s with other loads switched on.                                    *)
SameBut(n, t, s) ==
  \A i \in 1..n : t[i].name = s[i].name /\ t[i].power = s[i].power
                  /\ t[i].priority = s[i].priority

LEMMA ShedLoadIs ==
  ASSUME NEW n \in Nat, NEW ls \in [1..n -> Load], NamesDiffer(ls),
         NEW s, s = Falling(ls), NEW t, t = ShedLoad(ls)
  PROVE  /\ t \in [1..n -> Load] /\ NamesDiffer(t) /\ SameBut(n, t, s)
         /\ \A i \in 1..n : t[i].active = (s[i].active /\ TotalFrom(s, i) <= MaxPower)
<1>1. s \in [1..n -> Load] /\ NamesDiffer(s) /\ DOMAIN s = 1..n
  BY FallingRising
<1> DEFINE on(i) == s[i].active /\ TotalFrom(s, i) <= MaxPower
<1>2. t = [i \in 1..n |-> [s[i] EXCEPT !.active = on(i)]]
  BY <1>1 DEF ShedLoad
<1>3. \A i \in 1..n : on(i) \in BOOLEAN /\ s[i] \in Load
  BY <1>1
<1> HIDE DEF on
<1>4. /\ \A i \in 1..n : t[i] \in Load /\ t[i].active = on(i)
      /\ SameBut(n, t, s)
  <2> SUFFICES ASSUME NEW i \in 1..n
               PROVE  /\ t[i] \in Load /\ t[i].active = on(i) /\ t[i].name = s[i].name
                      /\ t[i].power = s[i].power /\ t[i].priority = s[i].priority
    BY DEF SameBut
  <2>1. t[i] = [s[i] EXCEPT !.active = on(i)]
    BY <1>2
  <2> QED BY <2>1, <1>3, Switched
<1>5. t \in [1..n -> Load]
  BY <1>2, <1>4
<1>6. NamesDiffer(t)
  BY <1>1, <1>4, <1>5 DEF NamesDiffer, SameBut
<1> QED BY <1>4, <1>5, <1>6 DEF on

(* The total from load i on is never more than the total.                  *)
LEMMA TotalFromType ==
  ASSUME NEW n \in Nat, NEW s \in [1..n -> Load], NEW i \in 1..n, NEW w,
         w = [j \in DOMAIN s |-> IF GoesBefore(s, j, i) THEN 0 ELSE Drawn(s)[j]]
  PROVE  /\ w \in [1..n -> Nat]
         /\ \A j \in 1..n : w[j] = IF GoesBefore(s, j, i) THEN 0 ELSE Drawn(s)[j]
         /\ TotalFrom(s, i) = SumOf(w) /\ TotalFrom(s, i) \in Nat
<1>1. DOMAIN s = 1..n /\ \A j \in 1..n : Drawn(s)[j] \in Nat
  BY DrawnType
<1>2. w \in [1..n -> Nat] /\ \A j \in 1..n : w[j] = IF GoesBefore(s, j, i) THEN 0 ELSE Drawn(s)[j]
  BY <1>1
<1>3. TotalFrom(s, i) = SumOf(w)
  BY DEF TotalFrom
<1> QED BY <1>2, <1>3, SumType

(* After shedding the active loads are within the limit: those that stay   *)
(* on are the first to go of them and some that go after it.               *)
LEMMA ShedLoadFits ==
  ASSUME NEW n \in Nat, NEW ls \in [1..n -> Load], NamesDiffer(ls)
  PROVE  ComputeTotalLoad(ShedLoad(ls)) <= MaxPower
<1> DEFINE s == Falling(ls)
           t == ShedLoad(ls)
<1>1. s \in [1..n -> Load]
  BY FallingRising
<1>2. /\ t \in [1..n -> Load] /\ SameBut(n, t, s)
      /\ \A i \in 1..n : t[i].active = (s[i].active /\ TotalFrom(s, i) <= MaxPower)
  BY ShedLoadIs
<1> HIDE DEF s, t
<1> DEFINE D == {i \in 1..n : t[i].active}
<1>3. /\ Drawn(t) \in [1..n -> Nat]
      /\ \A i \in 1..n : Drawn(t)[i] = IF t[i].active THEN t[i].power ELSE 0
      /\ ComputeTotalLoad(t) = SumOf(Drawn(t)) /\ ComputeTotalLoad(t) \in Nat
  BY <1>2, DrawnType DEF ComputeTotalLoad
<1>4. CASE D = {}
  <2>1. \A i \in 1..n : Drawn(t)[i] = 0
    BY <1>3, <1>4
  <2> QED BY <2>1, <1>3, SumZero, Numbers DEF t
<1>5. CASE D # {}
  <2>1. PICK i \in D : \A j \in D : ~GoesBefore(s, j, i)
    <3>1. D \in SUBSET (1..n)
      OBVIOUS
    <3> HIDE DEF D
    <3> QED BY <1>1, <1>5, <3>1, FirstAndLastToGo
  <2> DEFINE w == [j \in DOMAIN s |-> IF GoesBefore(s, j, i) THEN 0 ELSE Drawn(s)[j]]
  <2>2. /\ w \in [1..n -> Nat]
        /\ \A j \in 1..n : w[j] = IF GoesBefore(s, j, i) THEN 0 ELSE Drawn(s)[j]
        /\ TotalFrom(s, i) = SumOf(w) /\ TotalFrom(s, i) \in Nat
    BY <1>1, TotalFromType
  <2> HIDE DEF w
  <2>3. ASSUME NEW j \in 1..n PROVE Drawn(t)[j] <= w[j]
    <3>1. Drawn(s)[j] = IF s[j].active THEN s[j].power ELSE 0
      BY <1>1, DrawnType
    <3>2. t[j].power = s[j].power /\ t[j].power \in Nat /\ w[j] \in Nat
      BY <1>2, <2>2, LoadFields DEF SameBut
    <3>3. CASE t[j].active
      <4>1. ~GoesBefore(s, j, i) /\ s[j].active
        BY <2>1, <1>2, <3>3
      <4>2. w[j] = s[j].power /\ Drawn(t)[j] = t[j].power
        BY <4>1, <2>2, <3>1, <1>3, <3>3
      <4> QED BY <4>2, <3>2
    <3>4. CASE ~t[j].active
      <4>1. Drawn(t)[j] = 0
        BY <1>3, <3>4
      <4> QED BY <4>1, <3>2
    <3> QED BY <3>3, <3>4
  <2>4. SumOf(Drawn(t)) <= SumOf(w)
    BY <1>3, <2>2, <2>3, SumMonotone
  <2>5. TotalFrom(s, i) <= MaxPower
    BY <1>2
  <2>6. SumOf(Drawn(t)) \in Nat
    BY <1>3
  <2> QED BY <1>3, <2>2, <2>4, <2>5, <2>6, Numbers DEF t
<1> QED BY <1>4, <1>5

LEMMA GreatestUpTo ==
  ASSUME NEW n \in Nat, NEW D \in SUBSET (0..n), 0 \in D
  PROVE  Max(D) \in D /\ \A j \in D : j <= Max(D)
<1>1. \E m \in D : \A j \in D : m >= j
  <2>1. CASE D \ {0} = {}
    <3>1. D = {0}
      BY <2>1
    <3> QED BY <3>1
  <2>2. CASE D \ {0} # {}
    <3>1. D \ {0} \in SUBSET (1..n)
      OBVIOUS
    <3>2. PICK m \in D \ {0} : \A j \in D \ {0} : j <= m
      BY <2>2, <3>1, LeastAndGreatest
    <3> QED BY <3>2
  <2> QED BY <2>1, <2>2
<1>2. Max(D) \in D /\ \A j \in D : Max(D) >= j
  BY <1>1 DEF Max
<1>3. ASSUME NEW j \in D PROVE j <= Max(D)
  <2> DEFINE m == Max(D)
  <2>1. m \in D /\ m >= j
    BY <1>2
  <2> HIDE DEF m
  <2>2. m \in 0..n /\ j \in 0..n
    BY <2>1
  <2>3. j <= m
    BY <2>1, <2>2
  <2> QED BY <2>3 DEF m
<1> QED BY <1>2, <1>3

LEMMA UpToIs ==
  ASSUME NEW n \in Nat, NEW s \in [1..n -> Load], NamesDiffer(s), NEW k \in Int,
         NEW u, u = UpTo(s, k)
  PROVE  /\ u \in [1..n -> Load] /\ NamesDiffer(u) /\ SameBut(n, u, s)
         /\ \A i \in 1..n : u[i].active = (s[i].active \/ i <= k)
<1>1. u = [i \in 1..n |-> [s[i] EXCEPT !.active = s[i].active \/ i <= k]]
  BY DEF UpTo
<1>2. \A i \in 1..n : (s[i].active \/ i <= k) \in BOOLEAN /\ s[i] \in Load
  OBVIOUS
<1>3. /\ \A i \in 1..n : u[i] \in Load /\ u[i].active = (s[i].active \/ i <= k)
      /\ SameBut(n, u, s)
  <2> SUFFICES ASSUME NEW i \in 1..n
               PROVE  /\ u[i] \in Load /\ u[i].active = (s[i].active \/ i <= k)
                      /\ u[i].name = s[i].name
                      /\ u[i].power = s[i].power /\ u[i].priority = s[i].priority
    BY DEF SameBut
  <2> DEFINE b == s[i].active \/ i <= k
  <2>1. u[i] = [s[i] EXCEPT !.active = b] /\ b \in BOOLEAN /\ s[i] \in Load
    BY <1>1, <1>2
  <2> HIDE DEF b
  <2>2. /\ u[i] \in Load /\ u[i].active = b /\ u[i].name = s[i].name
        /\ u[i].power = s[i].power /\ u[i].priority = s[i].priority
    BY <2>1, Switched
  <2> QED BY <2>2 DEF b
<1>4. u \in [1..n -> Load]
  BY <1>1, <1>3
<1>5. NamesDiffer(u)
  BY <1>3, <1>4 DEF NamesDiffer, SameBut
<1> QED BY <1>3, <1>4, <1>5

(* Load k is on, or can be switched on with those before it.               *)
FitsAt(s, k) == s[k].active \/ ComputeTotalLoad(UpTo(s, k)) <= MaxPower

LEMMA RestoreLoadIs ==
  ASSUME NEW n \in Nat, NEW ls \in [1..n -> Load], NamesDiffer(ls)
  PROVE  \E k \in 0..n :
           /\ RestoreLoad(ls) = UpTo(Rising(ls), k)
           /\ \A j \in 1..k : FitsAt(Rising(ls), j)
           /\ k < n => ~FitsAt(Rising(ls), k + 1)
<1> DEFINE s == Rising(ls)
           D == {k \in 0..Len(s) : \A j \in 1..k : FitsAt(s, j)}
<1>1. RestoreLoad(ls) = UpTo(s, Max(D))
  BY DEF RestoreLoad, FitsAt
<1>2. s \in [1..n -> Load]
  BY FallingRising
<1>3. Len(s) = n
  <2> HIDE DEF s
  <2> QED BY <1>2, LenOf
<1> HIDE DEF s
<1>4. D \in SUBSET (0..n) /\ 0 \in D
  <2>1. 1..0 = {} /\ 0 \in 0..n
    OBVIOUS
  <2> QED BY <1>3, <2>1
<1>5. Max(D) \in D /\ \A j \in D : j <= Max(D)
  <2> HIDE DEF D
  <2> QED BY <1>4, GreatestUpTo
<1>6. Max(D) \in 0..n /\ \A j \in 1..Max(D) : FitsAt(s, j)
  BY <1>3, <1>5
<1>7. Max(D) < n => ~FitsAt(s, Max(D) + 1)
  <2> SUFFICES ASSUME Max(D) < n, FitsAt(s, Max(D) + 1) PROVE FALSE
    OBVIOUS
  <2> DEFINE m == Max(D)
  <2>1. m \in 0..n /\ m < n /\ FitsAt(s, m + 1) /\ \A j \in 1..m : FitsAt(s, j)
    BY <1>6
  <2>2. ~(m + 1 <= m)
    BY <2>1
  <2>3. m + 1 \in D => m + 1 <= m
    BY <1>5
  <2> HIDE DEF m
  <2>4. m + 1 \in 0..n /\ \A j \in 1..(m+1) : j \in 1..m \/ j = m + 1
    BY <2>1
  <2>5. m + 1 \in D
    BY <2>1, <2>4, <1>3
  <2> HIDE DEF D
  <2> QED BY <2>2, <2>3, <2>5
<1> HIDE DEF D
<1> QED BY <1>1, <1>6, <1>7 DEF s

(* Switching loads on in order keeps them within the limit: the last one   *)
(* that was switched on was tried, and nothing was switched on after it.   *)
LEMMA RestoreLoadFits ==
  ASSUME NEW n \in Nat, NEW ls \in [1..n -> Load], NamesDiffer(ls),
         ComputeTotalLoad(ls) <= MaxPower
  PROVE  ComputeTotalLoad(RestoreLoad(ls)) <= MaxPower
<1> DEFINE s == Rising(ls)
           u == RestoreLoad(ls)
<1>1. s \in [1..n -> Load] /\ NamesDiffer(s) /\ ComputeTotalLoad(s) <= MaxPower
  BY FallingRising
<1>2. PICK k \in 0..n : u = UpTo(s, k) /\ \A j \in 1..k : FitsAt(s, j)
  BY RestoreLoadIs
<1> HIDE DEF s, u
<1>3. /\ u \in [1..n -> Load] /\ SameBut(n, u, s)
      /\ \A i \in 1..n : u[i].active = (s[i].active \/ i <= k)
  BY <1>1, <1>2, UpToIs
<1>4. ASSUME NEW v \in [1..n -> Load], SameBut(n, v, s),
             \A i \in 1..n : u[i].active => v[i].active,
             ComputeTotalLoad(v) <= MaxPower
      PROVE  ComputeTotalLoad(u) <= MaxPower
  <2>1. /\ Drawn(u) \in [1..n -> Nat] /\ Drawn(v) \in [1..n -> Nat]
        /\ \A i \in 1..n : Drawn(u)[i] = IF u[i].active THEN u[i].power ELSE 0
        /\ \A i \in 1..n : Drawn(v)[i] = IF v[i].active THEN v[i].power ELSE 0
        /\ ComputeTotalLoad(u) \in Nat /\ ComputeTotalLoad(v) \in Nat
    BY <1>3, <1>4, DrawnType
  <2>2. ASSUME NEW i \in 1..n PROVE Drawn(u)[i] <= Drawn(v)[i]
    <3>0. u[i].power = s[i].power /\ v[i].power = s[i].power
      BY <1>3, <1>4 DEF SameBut
    <3>1. u[i].power = v[i].power /\ u[i].power \in Nat /\ Drawn(v)[i] \in Nat
      BY <3>0, <1>3, <2>1, LoadFields
    <3>2. CASE u[i].active
      BY <2>1, <3>1, <3>2, <1>4
    <3>3. CASE ~u[i].active
      <4>1. Drawn(u)[i] = 0
        BY <2>1, <3>3
      <4> QED BY <3>1, <4>1
    <3> QED BY <3>2, <3>3
  <2>3. ComputeTotalLoad(u) <= ComputeTotalLoad(v)
    BY <2>1, <2>2, SumMonotone DEF ComputeTotalLoad
  <2> QED BY <2>1, <2>3, <1>4, Numbers
<1> DEFINE On == {j \in 1..n : j <= k /\ ~s[j].active}
<1>5. CASE On = {}
  <2>1. \A i \in 1..n : u[i].active => s[i].active
    BY <1>3, <1>5
  <2>2. SameBut(n, s, s)
    BY DEF SameBut
  <2>3. ComputeTotalLoad(u) <= MaxPower
    BY <1>1, <1>4, <2>1, <2>2
  <2> QED BY <2>3 DEF u
<1>6. CASE On # {}
  <2>1. PICK m \in On : \A j \in On : j <= m
    <3>1. On \in SUBSET (1..n)
      OBVIOUS
    <3> HIDE DEF On
    <3> QED BY <3>1, <1>6, LeastAndGreatest
  <2> DEFINE v == UpTo(s, m)
  <2>2. /\ v \in [1..n -> Load] /\ SameBut(n, v, s)
        /\ \A i \in 1..n : v[i].active = (s[i].active \/ i <= m)
    BY <1>1, UpToIs
  <2>3. ComputeTotalLoad(v) <= MaxPower
    <3>1. m \in 1..k
      BY <2>1
    <3> QED BY <3>1, <1>2, <2>1 DEF FitsAt
  <2> HIDE DEF v
  <2>4. \A i \in 1..n : u[i].active => v[i].active
    BY <1>3, <2>1, <2>2
  <2>5. ComputeTotalLoad(u) <= MaxPower
    BY <1>4, <2>2, <2>3, <2>4
  <2> QED BY <2>5 DEF u
<1> QED BY <1>5, <1>6

------------------------------------------------------------------------------
(* The list of loads under commands.                                       *)
LoadList(ls) == ls \in Seq(Load) /\ NamesDiffer(ls)

LEMMA AsList ==
  ASSUME NEW ls, LoadList(ls)
  PROVE  Len(ls) \in Nat /\ ls \in [1..Len(ls) -> Load] /\ NamesDiffer(ls)
  BY LenProperties DEF LoadList

LEMMA ListOf ==
  ASSUME NEW n \in Nat, NEW ls \in [1..n -> Load], NamesDiffer(ls)
  PROVE  LoadList(ls) /\ Len(ls) = n
  BY LenOf DEF LoadList

LEMMA PositionIs ==
  ASSUME NEW n \in Nat, NEW ls \in [1..n -> Load], NEW name, PositionOf(ls, name) # {},
         NEW m, m = Min(PositionOf(ls, name))
  PROVE  m \in 1..n /\ ls[m].name = name
<1> DEFINE D == PositionOf(ls, name)
<1>1. D \in SUBSET (1..n) /\ \A i \in D : ls[i].name = name
  BY DEF PositionOf
<1> HIDE DEF D
<1>2. PICK i \in D : \A j \in D : i <= j
  BY <1>1, LeastAndGreatest DEF D
<1>3. Min(D) \in D
  BY <1>2 DEF Min
<1> QED BY <1>1, <1>3 DEF D

LEMMA AddLoadList ==
  ASSUME NEW ls, LoadList(ls), NEW name \in Names, NEW power \in Nat, NEW priority \in Nat
  PROVE  LoadList(AddLoad(ls, name, power, priority))
<1> DEFINE n == Len(ls)
           new == [name |-> name, power |-> power, priority |-> priority, active |-> TRUE]
<1>1. n \in Nat /\ ls \in [1..n -> Load] /\ NamesDiffer(ls)
  BY AsList
<1>2. new \in Load /\ new.name = name
  BY DEF Load
<1>3. AddLoad(ls, name, power, priority) =
        IF PositionOf(ls, name) = {} THEN Append(ls, new)
                                     ELSE [ls EXCEPT ![Min(PositionOf(ls, name))] = new]
  BY DEF AddLoad
<1>4. ls \in Seq(Load)
  BY DEF LoadList
<1> HIDE DEF new
<1>5. CASE PositionOf(ls, name) = {}
  <2> DEFINE r == Append(ls, new)
  <2>1. /\ r \in Seq(Load) /\ Len(r) = n + 1 /\ DOMAIN r = 1..(n+1)
        /\ \A i \in 1..n : r[i] = ls[i] /\ r[n+1] = new
    BY <1>1, <1>2, <1>4
  <2>2. r[n+1] = new
    BY <1>1, <1>2, <1>4
  <2>3. \A i \in 1..n : ls[i].name # name
    BY <1>1, <1>5 DEF PositionOf
  <2> HIDE DEF r
  <2>4. \A i \in DOMAIN r : i \in 1..n \/ i = n + 1
    BY <2>1, <1>1
  <2>5. NamesDiffer(r)
    <3> SUFFICES ASSUME NEW i \in DOMAIN r, NEW j \in DOMAIN r, r[i].name = r[j].name
                 PROVE  i = j
      BY DEF NamesDiffer
    <3>1. CASE i \in 1..n /\ j \in 1..n
      BY <3>1, <2>1, <1>1 DEF NamesDiffer
    <3>2. CASE i \in 1..n /\ j = n + 1
      BY <3>2, <2>1, <2>2, <2>3, <1>2
    <3>3. CASE j \in 1..n /\ i = n + 1
      BY <3>3, <2>1, <2>2, <2>3, <1>2
    <3> QED BY <3>1, <3>2, <3>3, <2>4
  <2> QED BY <1>3, <1>5, <2>1, <2>5 DEF r, LoadList
<1>6. CASE PositionOf(ls, name) # {}
  <2> DEFINE m == Min(PositionOf(ls, name))
             r == [ls EXCEPT ![m] = new]
  <2>1. m \in 1..n /\ ls[m].name = name
    BY <1>1, <1>6, PositionIs
  <2> HIDE DEF m
  <2>2. r \in [1..n -> Load] /\ \A i \in 1..n : r[i].name = ls[i].name
    BY <1>1, <1>2, <2>1
  <2>3. NamesDiffer(r)
    BY <1>1, <2>2 DEF NamesDiffer
  <2>4. LoadList(r)
    BY <1>1, <2>2, <2>3, ListOf
  <2> QED BY <1>3, <1>6, <2>4 DEF m
<1> QED BY <1>5, <1>6

(* Removing load m moves those after it one place down.                    *)
RemovedAt(r, n, m, ls) ==
  /\ r \in [1..(n-1) -> Load] /\ Len(r) = n - 1
  /\ \A i \in 1..(n-1) : r[i] = IF i < m THEN ls[i] ELSE ls[i+1]
LEMMA RemoveLoadIs ==
  ASSUME NEW ls, LoadList(ls), NEW name, PositionOf(ls, name) # {},
         NEW n, n = Len(ls), NEW m, m = Min(PositionOf(ls, name)),
         NEW r, r = RemoveLoad(ls, name)
  PROVE  /\ m \in 1..n /\ ls[m].name = name
         /\ RemovedAt(r, n, m, ls)
<1>1. n \in Nat /\ ls \in [1..n -> Load] /\ ls \in Seq(Load)
  BY AsList DEF LoadList
<1>2. m \in 1..n /\ ls[m].name = name
  BY <1>1, PositionIs
<1> DEFINE a == SubSeq(ls, 1, m-1)
           b == SubSeq(ls, m+1, n)
<1>3. r = a \o b
  BY DEF RemoveLoad, RemoveAt
<1>4. /\ a \in Seq(Load) /\ Len(a) = m - 1
      /\ \A i \in 1..(m-1) : a[i] = ls[i]
  BY <1>1, <1>2
<1>5. /\ b \in Seq(Load) /\ Len(b) = n - m
      /\ \A i \in 1..(n-m) : b[i] = ls[i+m]
  <2>1. m + 1 \in Int /\ n \in Int /\ \A i \in (m+1)..n : ls[i] \in Load
    BY <1>1, <1>2
  <2>2. /\ b \in Seq(Load)
        /\ Len(b) = IF m + 1 <= n THEN n - (m+1) + 1 ELSE 0
        /\ \A i \in 1..(n - (m+1) + 1) : b[i] = ls[(m+1) + i - 1]
    BY <2>1, SubSeqProperties
  <2>3. /\ n - (m+1) + 1 = n - m
        /\ (IF m + 1 <= n THEN n - (m+1) + 1 ELSE 0) = n - m
        /\ \A i \in 1..(n-m) : (m+1) + i - 1 = i + m
    BY <1>1, <1>2
  <2> HIDE DEF b
  <2> QED BY <2>2, <2>3
<1> HIDE DEF a, b
<1>6. /\ r \in Seq(Load) /\ Len(r) = Len(a) + Len(b)
      /\ \A i \in 1..(Len(a) + Len(b)) : r[i] = IF i <= Len(a) THEN a[i] ELSE b[i - Len(a)]
  BY <1>3, <1>4, <1>5, ConcatProperties
<1>7. Len(a) + Len(b) = n - 1 /\ n - 1 \in Nat
  BY <1>1, <1>2, <1>4, <1>5
<1>8. r \in [1..(n-1) -> Load] /\ Len(r) = n - 1
  BY <1>6, <1>7, LenProperties
<1>9. ASSUME NEW i \in 1..(n-1) PROVE r[i] = IF i < m THEN ls[i] ELSE ls[i+1]
  <2>1. r[i] = IF i <= m - 1 THEN a[i] ELSE b[i - (m - 1)]
    BY <1>4, <1>6, <1>7
  <2>2. CASE i < m
    <3>1. i \in 1..(m-1) /\ i <= m - 1
      BY <2>2, <1>2
    <3> QED BY <2>1, <2>2, <3>1, <1>4
  <2>3. CASE ~(i < m)
    <3>1. i - (m-1) \in 1..(n-m) /\ ~(i <= m - 1) /\ (i - (m-1)) + m = i + 1
      BY <2>3, <1>1, <1>2
    <3>2. b[i - (m-1)] = ls[i+1]
      BY <3>1, <1>5
    <3> QED BY <2>1, <2>3, <3>1, <3>2
  <2> QED BY <2>2, <2>3
<1> QED BY <1>2, <1>8, <1>9 DEF RemovedAt

LEMMA RemoveLoadList ==
  ASSUME NEW ls, LoadList(ls), NEW name
  PROVE  LoadList(RemoveLoad(ls, name))
<1> DEFINE n == Len(ls)
           m == Min(PositionOf(ls, name))
           r == RemoveLoad(ls, name)
<1>1. n \in Nat /\ ls \in [1..n -> Load] /\ NamesDiffer(ls)
  BY AsList
<1>2. CASE PositionOf(ls, name) = {}
  BY <1>2 DEF RemoveLoad
<1>3. CASE PositionOf(ls, name) # {}
  <2>1. /\ m \in 1..n /\ r \in [1..(n-1) -> Load] /\ Len(r) = n - 1
        /\ \A i \in 1..(n-1) : r[i] = IF i < m THEN ls[i] ELSE ls[i+1]
    <3>1. n = Len(ls) /\ m = Min(PositionOf(ls, name)) /\ r = RemoveLoad(ls, name)
      OBVIOUS
    <3> HIDE DEF n, m, r
    <3>2. m \in 1..n /\ RemovedAt(r, n, m, ls)
      BY <3>1, <1>3, RemoveLoadIs
    <3> QED BY <3>2 DEF RemovedAt
  <2> HIDE DEF r, m
  <2>2. n - 1 \in Nat
    BY <2>1, <1>1
  <2>3. NamesDiffer(r)
    <3> SUFFICES ASSUME NEW i \in 1..(n-1), NEW j \in 1..(n-1), r[i].name = r[j].name
                 PROVE  i = j
      BY <2>1 DEF NamesDiffer
    <3> DEFINE at(k) == IF k < m THEN k ELSE k + 1
    <3>1. \A k \in 1..(n-1) : at(k) \in 1..n /\ r[k] = ls[at(k)]
      BY <2>1, <1>1
    <3>2. at(i) = at(j)
      <4> HIDE DEF at
      <4> QED BY <3>1, <1>1 DEF NamesDiffer
    <3> QED BY <3>2, <2>1
  <2> QED BY <2>1, <2>2, <2>3, ListOf DEF r
<1> QED BY <1>2, <1>3

LEMMA ShedLoadList ==
  ASSUME NEW ls, LoadList(ls)
  PROVE  /\ LoadList(ShedLoad(ls)) /\ ComputeTotalLoad(ShedLoad(ls)) \in Nat
         /\ ComputeTotalLoad(ShedLoad(ls)) <= MaxPower
<1>1. Len(ls) \in Nat /\ ls \in [1..Len(ls) -> Load] /\ NamesDiffer(ls)
  BY AsList
<1>2. ShedLoad(ls) \in [1..Len(ls) -> Load] /\ NamesDiffer(ShedLoad(ls))
  BY <1>1, ShedLoadIs
<1> QED BY <1>1, <1>2, ShedLoadFits, ListOf, DrawnType

LEMMA RestoreLoadList ==
  ASSUME NEW ls, LoadList(ls)
  PROVE  /\ LoadList(RestoreLoad(ls)) /\ ComputeTotalLoad(RestoreLoad(ls)) \in Nat
         /\ ComputeTotalLoad(ls) <= MaxPower
              => ComputeTotalLoad(RestoreLoad(ls)) <= MaxPower
<1> DEFINE n == Len(ls)
<1>1. n \in Nat /\ ls \in [1..n -> Load] /\ NamesDiffer(ls)
  BY AsList
<1> HIDE DEF n
<1>2. PICK k \in 0..n : RestoreLoad(ls) = UpTo(Rising(ls), k)
  BY <1>1, RestoreLoadIs
<1>3. Rising(ls) \in [1..n -> Load] /\ NamesDiffer(Rising(ls))
  BY <1>1, FallingRising
<1>4. RestoreLoad(ls) \in [1..n -> Load] /\ NamesDiffer(RestoreLoad(ls))
  BY <1>1, <1>2, <1>3, UpToIs
<1> QED BY <1>1, <1>4, RestoreLoadFits, ListOf, DrawnType

------------------------------------------------------------------------------
(* Panels.                                                                 *)

WellPanels(ids) == {p \in 0..PanelCount - 1 : p \notin ToSet(ids)}

(* With no id twice in the list, the ids of panels are as many as the      *)
(* panels that failed: what is left of PanelCount are the well ones.       *)
LEMMA FailedCountIs ==
  ASSUME panels \in Seq(PanelIds), IsInjective(panels)
  PROVE  /\ FailedCount \in Int
         /\ PanelCount - FailedCount = Cardinality(WellPanels(panels))
<1> DEFINE n == Len(panels)
           All == 0..PanelCount - 1
           Bad == {i \in 1..n : panels[i] \notin All}
           Good == {i \in 1..n : panels[i] \in All}
           Failed == {p \in All : p \in ToSet(panels)}
<1>1. n \in Nat /\ DOMAIN panels = 1..n
  BY LenProperties
<1>2. IsFiniteSet(1..n) /\ Cardinality(1..n) = n
  BY <1>1, FS_Interval
<1>3. /\ IsFiniteSet(Good) /\ Cardinality(Good) = n - Cardinality(Bad)
      /\ Cardinality(Bad) \in Nat
  <2>1. Good = (1..n) \ Bad /\ (1..n) \cap Bad = Bad /\ Bad \in SUBSET (1..n)
    OBVIOUS
  <2> HIDE DEF Good, Bad
  <2> DEFINE I == 1..n
  <2> HIDE DEF I
  <2>a. IsFiniteSet(I) /\ Cardinality(I) = n
    BY <1>2 DEF I
  <2>b. Cardinality(I \ Bad) = Cardinality(I) - Cardinality(I \cap Bad)
    BY <2>a, FS_Difference
  <2>2. Cardinality((1..n) \ Bad) = n - Cardinality(Bad)
    BY <2>a, <2>b, <2>1 DEF I
  <2> QED BY <1>2, <2>1, <2>2, FS_Difference, FS_Subset, FS_CardinalityType
<1>4. Cardinality(Failed) = Cardinality(Good)
  <2> DEFINE f == [i \in Good |-> panels[i]]
  <2>1. f \in [Good -> Failed]
    <3> SUFFICES ASSUME NEW i \in Good PROVE panels[i] \in Failed
      OBVIOUS
    <3> QED BY <1>1 DEF ToSet
  <2>2. \A i, j \in Good : f[i] = f[j] => i = j
    BY <1>1 DEF IsInjective
  <2>3. \A p \in Failed : \E i \in Good : f[i] = p
    BY <1>1 DEF ToSet
  <2> HIDE DEF f, Good, Failed
  <2>4. f \in Bijection(Good, Failed)
    BY <2>1, <2>2, <2>3 DEF Bijection, Injection, IsInjective, Surjection
  <2> QED BY <2>4, <1>3, FS_Bijection DEF ExistsBijection
<1>5. /\ Cardinality(WellPanels(panels)) = PanelCount - Cardinality(Failed)
      /\ Cardinality(Failed) \in Nat
  <2>1. IsFiniteSet(All) /\ Cardinality(All) = PanelCount
    BY Numbers, FS_Interval
  <2>2. WellPanels(panels) = All \ Failed /\ All \cap Failed = Failed /\ Failed \in SUBSET All
    BY DEF WellPanels
  <2> HIDE DEF All, Failed
  <2>3. Cardinality(All \ Failed) = Cardinality(All) - Cardinality(All \cap Failed)
    BY <2>1, FS_Difference
  <2> QED BY <2>1, <2>2, <2>3, FS_Subset, FS_CardinalityType
<1>6. FailedCount = n - Cardinality(Bad)
  BY <1>1 DEF FailedCount
<1> HIDE DEF n, Bad, Good, Failed
<1> QED BY <1>1, <1>3, <1>4, <1>5, <1>6, Numbers

------------------------------------------------------------------------------
(* Every step of Next is one of these; the cases of each proof below.      *)
LEMMA Steps ==
  ASSUME NEW P, [Next]_vars,
         ASSUME NEW inSun \in Suns, Tick(inSun) PROVE P,
         ASSUME NEW name \in Names, PowerOn(name) PROVE P,
         ASSUME NEW name \in Names, PowerOff(name) PROVE P,
         ShedCommand => P,
         ASSUME NEW id \in PanelIds, PanelFails(id) PROVE P,
         BatteryFails => P, PanelsCleared => P, BatteryCleared => P, AllCleared => P,
         UNCHANGED vars => P
  PROVE  P
  BY DEF Next, HandleTick, HandleCommand

(* The list of loads and the last thing published, in all steps but Tick.  *)
LoadsOK == LoadList(loads)
PanelsOK == panels \in Seq(PanelIds) /\ IsInjective(panels)
ChargeOK == soc \in 0..Full
FlagsOK == shedding \in BOOLEAN /\ batteryFailed \in BOOLEAN
TelemetryOK ==
  telemetry \in [inSun : BOOLEAN, solar : Int, total : Nat, shedding : BOOLEAN,
                 failures : Seq(PanelIds)]

LEMMA TypeParts == TypeOK <=> LoadsOK /\ PanelsOK /\ ChargeOK /\ FlagsOK /\ TelemetryOK
<1>1. ASSUME loads \in Seq(Load)
      PROVE  IsInjective([i \in DOMAIN loads |-> loads[i].name]) <=> NamesDiffer(loads)
  BY DEF IsInjective, NamesDiffer
<1> QED BY <1>1 DEF TypeOK, LoadsOK, PanelsOK, ChargeOK, FlagsOK, TelemetryOK, LoadList

LEMMA LoadsInit == Init => LoadsOK
<1> SUFFICES ASSUME Init PROVE LoadsOK
  OBVIOUS
<1>1. loads = InitialLoads
  BY DEF Init
<1> QED BY <1>1, EpsConstants DEF LoadsOK, LoadList, NamesDiffer

LEMMA LoadsStep == LoadsOK /\ [Next]_vars => LoadsOK'
<1> SUFFICES ASSUME LoadsOK, [Next]_vars PROVE LoadsOK'
  OBVIOUS
<1>1. ASSUME NEW inSun \in Suns, Tick(inSun) PROVE LoadsOK'
  <2>1. loads' = ShedLoad(loads) \/ loads' = RestoreLoad(loads) \/ loads' = loads
    BY <1>1 DEF Tick, Overloaded, Recovers, Steady
  <2> QED BY <2>1, ShedLoadList, RestoreLoadList DEF LoadsOK
<1>2. ASSUME NEW name \in Names, PowerOn(name) PROVE LoadsOK'
  BY <1>2, AddLoadList, Numbers DEF PowerOn, LoadsOK
<1>3. ASSUME NEW name \in Names, PowerOff(name) PROVE LoadsOK'
  BY <1>3, RemoveLoadList DEF PowerOff, LoadsOK
<1>4. ShedCommand => LoadsOK'
  BY ShedLoadList DEF ShedCommand, LoadsOK
<1>5. ASSUME NEW id \in PanelIds, PanelFails(id) PROVE LoadsOK'
  BY <1>5 DEF PanelFails, LoadsOK
<1>6. BatteryFails \/ PanelsCleared \/ BatteryCleared \/ AllCleared => LoadsOK'
  BY DEF BatteryFails, PanelsCleared, BatteryCleared, AllCleared, LoadsOK
<1>7. UNCHANGED vars => LoadsOK'
  BY DEF vars, LoadsOK
<1> QED BY <1>1, <1>2, <1>3, <1>4, <1>5, <1>6, <1>7, Steps

LEMMA PanelsStep == PanelsOK /\ [Next]_vars => PanelsOK'
<1> SUFFICES ASSUME PanelsOK, [Next]_vars PROVE PanelsOK'
  OBVIOUS
<1>1. UNCHANGED panels => PanelsOK'
  BY DEF PanelsOK
<1>2. panels' = <<>> => PanelsOK'
  BY DEF PanelsOK, IsInjective
<1>3. ASSUME NEW id \in PanelIds, PanelFails(id) PROVE PanelsOK'
  <2>1. CASE id \in ToSet(panels)
    BY <2>1, <1>1, <1>3 DEF PanelFails
  <2>2. CASE id \notin ToSet(panels)
    <3>1. panels' = Append(panels, id)
      BY <2>2, <1>3 DEF PanelFails
    <3> DEFINE n == Len(panels)
               r == Append(panels, id)
    <3>2. n \in Nat /\ DOMAIN panels = 1..n /\ panels \in Seq(PanelIds)
      BY LenProperties DEF PanelsOK
    <3>3. /\ r \in Seq(PanelIds) /\ DOMAIN r = 1..(n+1) /\ r[n+1] = id
          /\ \A i \in 1..n : r[i] = panels[i]
      BY <3>2
    <3>4. \A i \in 1..n : panels[i] # id
      BY <2>2, <3>2 DEF ToSet
    <3>5. \A i, j \in 1..n : panels[i] = panels[j] => i = j
      BY <3>2 DEF PanelsOK, IsInjective
    <3> HIDE DEF r, n
    <3>6. \A i \in 1..(n+1) : i \in 1..n \/ i = n + 1
      BY <3>2
    <3>7. IsInjective(r)
      <4> SUFFICES ASSUME NEW i \in 1..(n+1), NEW j \in 1..(n+1), r[i] = r[j] PROVE i = j
        BY <3>3 DEF IsInjective
      <4> QED BY <3>3, <3>4, <3>5, <3>6
    <3> QED BY <3>1, <3>3, <3>7 DEF PanelsOK, r
  <2> QED BY <2>1, <2>2
<1>4. ASSUME NEW inSun \in Suns, Tick(inSun) PROVE UNCHANGED panels
  BY <1>4 DEF Tick
<1>5. ASSUME NEW name \in Names, PowerOn(name) PROVE UNCHANGED panels
  BY <1>5 DEF PowerOn
<1>6. ASSUME NEW name \in Names, PowerOff(name) PROVE UNCHANGED panels
  BY <1>6 DEF PowerOff
<1>7. ShedCommand \/ BatteryFails \/ BatteryCleared => UNCHANGED panels
  BY DEF ShedCommand, BatteryFails, BatteryCleared
<1>8. PanelsCleared \/ AllCleared => panels' = <<>>
  BY DEF PanelsCleared, AllCleared
<1>9. UNCHANGED vars => UNCHANGED panels
  BY DEF vars
<1> QED BY <1>1, <1>2, <1>3, <1>4, <1>5, <1>6, <1>7, <1>8, <1>9, Steps

LEMMA MinMaxOfTwo ==
  ASSUME NEW a \in Int, NEW b \in Int
  PROVE  /\ Min({a, b}) = IF a <= b THEN a ELSE b
         /\ Max({a, b}) = IF a <= b THEN b ELSE a
<1>1. CASE a <= b
  <2>1. a \in {a, b} /\ \A y \in {a, b} : a <= y
    BY <1>1
  <2>2. b \in {a, b} /\ \A y \in {a, b} : b >= y
    BY <1>1
  <2>3. Min({a, b}) \in {a, b} /\ \A y \in {a, b} : Min({a, b}) <= y
    BY <2>1 DEF Min
  <2>4. Max({a, b}) \in {a, b} /\ \A y \in {a, b} : Max({a, b}) >= y
    BY <2>2 DEF Max
  <2>5. Min({a, b}) = a
    BY <2>3, <1>1
  <2>6. Max({a, b}) = b
    BY <2>4, <1>1
  <2> QED BY <1>1, <2>5, <2>6
<1>2. CASE ~(a <= b)
  <2>1. b \in {a, b} /\ \A y \in {a, b} : b <= y
    BY <1>2
  <2>2. a \in {a, b} /\ \A y \in {a, b} : a >= y
    BY <1>2
  <2>3. Min({a, b}) \in {a, b} /\ \A y \in {a, b} : Min({a, b}) <= y
    BY <2>1 DEF Min
  <2>4. Max({a, b}) \in {a, b} /\ \A y \in {a, b} : Max({a, b}) >= y
    BY <2>2 DEF Max
  <2>5. Min({a, b}) = b
    BY <2>3, <1>2
  <2>6. Max({a, b}) = a
    BY <2>4, <1>2
  <2> QED BY <1>2, <2>5, <2>6
<1> QED BY <1>1, <1>2

LEMMA ChargeStays ==
  ASSUME ChargeOK, NEW solar \in Int, NEW total \in Int
  PROVE  Supply(solar, total) \in 0..Full
<1>1. ChargeStep \in Nat /\ DischargeStep \in Nat /\ Full \in Nat
  BY EpsConstants
<1>2. soc \in 0..Full
  BY DEF ChargeOK
<1>3. Charge \in 0..Full
  BY <1>1, <1>2, MinMaxOfTwo DEF Charge
<1>4. Discharge \in 0..Full
  <2> DEFINE rest == soc - DischargeStep
  <2>1. rest \in Int /\ rest <= Full /\ 0 \in Int
    BY <1>1, <1>2
  <2>2. Discharge = Max({rest, 0})
    BY DEF Discharge
  <2> HIDE DEF rest
  <2>3. Max({rest, 0}) = IF rest <= 0 THEN 0 ELSE rest
    BY <2>1, MinMaxOfTwo
  <2> QED BY <1>1, <2>1, <2>2, <2>3
<1>5. ForceDischarge \in 0..Full
  BY <1>1 DEF ForceDischarge
<1>6. CASE batteryFailed
  BY <1>5, <1>6 DEF Supply
<1>7. CASE ~batteryFailed /\ solar > total
  BY <1>3, <1>7 DEF Supply
<1>8. CASE ~batteryFailed /\ solar < total
  <2>1. ~(solar > total)
    BY <1>8
  <2> QED BY <1>4, <1>8, <2>1 DEF Supply
<1>9. CASE ~batteryFailed /\ solar = total
  <2>1. ~(solar > total) /\ ~(solar < total)
    BY <1>9
  <2> QED BY <1>2, <1>9, <2>1 DEF Supply
<1> QED BY <1>6, <1>7, <1>8, <1>9

(* What a tick publishes.                                                  *)
LEMMA TickPublishes ==
  ASSUME TypeOK, NEW inSun \in Suns, Tick(inSun)
  PROVE  /\ soc' \in 0..Full
         /\ shedding' \in BOOLEAN /\ batteryFailed' = batteryFailed
         /\ ComputeTotalLoad(loads)' \in Nat /\ ComputeTotalLoad(loads)' <= MaxPower
         /\ SolarPower(inSun) \in Int /\ inSun \in BOOLEAN
         /\ telemetry' = [inSun |-> inSun, solar |-> SolarPower(inSun),
                          total |-> ComputeTotalLoad(loads)', shedding |-> shedding',
                          failures |-> panels]
<1>1. LoadList(loads) /\ PanelsOK /\ ChargeOK /\ FlagsOK
  BY TypeParts DEF LoadsOK
<1>2. ComputeTotalLoad(loads) \in Nat
  BY <1>1, AsList, DrawnType
<1>3. inSun \in BOOLEAN
  BY EpsConstants
<1>4. SolarPower(inSun) \in Int
  <2>1. PanelPower * (PanelCount - FailedCount) \in Int
    BY <1>1, FailedCountIs, Numbers DEF PanelsOK
  <2> QED BY <2>1 DEF SolarPower
<1>5. soc' = Supply(SolarPower(inSun), ComputeTotalLoad(loads))
  BY DEF Tick
<1>6. soc' \in 0..Full
  BY <1>1, <1>2, <1>4, <1>5, ChargeStays
<1>7. /\ telemetry' = [inSun |-> inSun, solar |-> SolarPower(inSun),
                       total |-> ComputeTotalLoad(loads)', shedding |-> shedding',
                       failures |-> panels]
      /\ batteryFailed' = batteryFailed
      /\ Overloaded \/ Recovers \/ Steady
  BY DEF Tick, ComputeTotalLoad
<1>8. /\ shedding' \in BOOLEAN
      /\ ComputeTotalLoad(loads') \in Nat /\ ComputeTotalLoad(loads') <= MaxPower
  <2>1. CASE Overloaded
    BY <2>1, <1>1, ShedLoadList DEF Overloaded
  <2>2. CASE Recovers
    BY <2>2, <1>1, RestoreLoadList DEF Recovers
  <2>3. CASE Steady
    BY <2>3, <1>1, <1>2 DEF Steady, FlagsOK
  <2> QED BY <1>7, <2>1, <2>2, <2>3
<1>9. ComputeTotalLoad(loads)' = ComputeTotalLoad(loads')
  BY DEF ComputeTotalLoad, SumOf, Drawn
<1> QED BY <1>3, <1>4, <1>6, <1>7, <1>8, <1>9

------------------------------------------------------------------------------
(* Whatever is switched on and off, shed and restored, the list of loads   *)
(* never holds one name twice, nor the list of failures one panel.         *)
THEOREM TypeCorrect == Spec => []TypeOK
<1>1. Init => TypeOK
  <2> SUFFICES ASSUME Init PROVE TypeOK
    OBVIOUS
  <2>1. PanelsOK
    BY DEF Init, PanelsOK, IsInjective
  <2>2. ChargeOK
    BY EpsConstants DEF Init, ChargeOK
  <2>3. FlagsOK
    BY DEF Init, FlagsOK
  <2>4. TelemetryOK
    BY DEF Init, TelemetryOK
  <2> QED BY <2>1, <2>2, <2>3, <2>4, LoadsInit, TypeParts
<1>2. TypeOK /\ [Next]_vars => TypeOK'
  <2> SUFFICES ASSUME TypeOK, [Next]_vars PROVE TypeOK'
    OBVIOUS
  <2>p. LoadsOK /\ PanelsOK /\ ChargeOK /\ FlagsOK /\ TelemetryOK
    BY TypeParts
  <2> DEFINE Rest == ChargeOK /\ FlagsOK /\ TelemetryOK
  <2>1. ASSUME NEW inSun \in Suns, Tick(inSun) PROVE Rest'
    <3>1. ChargeOK' /\ FlagsOK'
      BY <2>1, <2>p, TickPublishes DEF ChargeOK, FlagsOK
    <3>2. /\ SolarPower(inSun) \in Int /\ inSun \in BOOLEAN /\ shedding' \in BOOLEAN
          /\ ComputeTotalLoad(loads)' \in Nat /\ panels \in Seq(PanelIds)
      BY <2>1, <2>p, TickPublishes DEF PanelsOK
    <3>3. TelemetryOK'
      BY <2>1, <3>2, TickPublishes DEF TelemetryOK
    <3> QED BY <3>1, <3>3
  <2>c. ASSUME UNCHANGED <<soc, telemetry>>, FlagsOK' PROVE Rest'
    BY <2>c, <2>p DEF ChargeOK, TelemetryOK
  <2>2. ASSUME NEW name \in Names, PowerOn(name) PROVE Rest'
    BY <2>2, <2>c, <2>p DEF PowerOn, Command, FlagsOK
  <2>3. ASSUME NEW name \in Names, PowerOff(name) PROVE Rest'
    BY <2>3, <2>c, <2>p DEF PowerOff, Command, FlagsOK
  <2>4. ASSUME NEW id \in PanelIds, PanelFails(id) PROVE Rest'
    BY <2>4, <2>c, <2>p DEF PanelFails, Command, FlagsOK
  <2>5. ShedCommand \/ BatteryFails \/ PanelsCleared => Rest'
    BY <2>c, <2>p DEF ShedCommand, BatteryFails, PanelsCleared, Command, FlagsOK
  <2>6. BatteryCleared \/ AllCleared => Rest'
    BY <2>c, <2>p DEF BatteryCleared, AllCleared, Command, FlagsOK
  <2>7. UNCHANGED vars => Rest'
    BY <2>p DEF vars, ChargeOK, FlagsOK, TelemetryOK
  <2> HIDE DEF Rest
  <2>8. Rest'
    BY <2>1, <2>2, <2>3, <2>4, <2>5, <2>6, <2>7, Steps
  <2>9. TypeOK' <=> LoadsOK' /\ PanelsOK' /\ ChargeOK' /\ FlagsOK' /\ TelemetryOK'
    BY TypeParts, PTL
  <2> QED BY <2>8, <2>9, <2>p, LoadsStep, PanelsStep DEF Rest
<1> QED BY <1>1, <1>2, PTL DEF Spec

(* Every state published is within the limit of the bus.                   *)
THEOREM WithinLimit == Spec => []PublishedWithinLimit
<1>1. Init => PublishedWithinLimit
  BY Numbers DEF Init, PublishedWithinLimit
<1>2. TypeOK /\ PublishedWithinLimit /\ [Next]_vars => PublishedWithinLimit'
  <2> SUFFICES ASSUME TypeOK, PublishedWithinLimit, [Next]_vars
               PROVE  PublishedWithinLimit'
    OBVIOUS
  <2>1. ASSUME NEW inSun \in Suns, Tick(inSun) PROVE PublishedWithinLimit'
    BY <2>1, TickPublishes DEF PublishedWithinLimit
  <2>2. UNCHANGED telemetry => PublishedWithinLimit'
    BY DEF PublishedWithinLimit
  <2>3. ASSUME NEW name \in Names, PowerOn(name) PROVE UNCHANGED telemetry
    BY <2>3 DEF PowerOn, Command
  <2>4. ASSUME NEW name \in Names, PowerOff(name) PROVE UNCHANGED telemetry
    BY <2>4 DEF PowerOff, Command
  <2>5. ASSUME NEW id \in PanelIds, PanelFails(id) PROVE UNCHANGED telemetry
    BY <2>5 DEF PanelFails, Command
  <2>6. ShedCommand \/ BatteryFails \/ PanelsCleared \/ BatteryCleared \/ AllCleared
          => UNCHANGED telemetry
    BY DEF ShedCommand, BatteryFails, PanelsCleared, BatteryCleared, AllCleared, Command
  <2>7. UNCHANGED vars => UNCHANGED telemetry
    BY DEF vars
  <2> QED BY <2>1, <2>2, <2>3, <2>4, <2>5, <2>6, <2>7, Steps
<1> QED BY <1>1, <1>2, TypeCorrect, PTL DEF Spec

(* The solar power published is that of the panels that had not failed.    *)
THEOREM SolarOfWellPanels == Spec => []SolarPowerOfWellPanels
<1>1. Init => SolarPowerOfWellPanels
  BY DEF Init, SolarPowerOfWellPanels
<1>2. TypeOK /\ SolarPowerOfWellPanels /\ [Next]_vars => SolarPowerOfWellPanels'
  <2> SUFFICES ASSUME TypeOK, SolarPowerOfWellPanels, [Next]_vars
               PROVE  SolarPowerOfWellPanels'
    OBVIOUS
  <2>1. ASSUME NEW inSun \in Suns, Tick(inSun) PROVE SolarPowerOfWellPanels'
    <3>1. telemetry'.inSun = inSun /\ telemetry'.solar = SolarPower(inSun)
          /\ telemetry'.failures = panels
      BY <2>1, TickPublishes
    <3>2. PanelCount - FailedCount = Cardinality(WellPanels(panels))
      BY FailedCountIs, TypeParts DEF PanelsOK
    <3>3. inSun => SolarPower(inSun) = PanelPower * Cardinality(WellPanels(panels))
      BY <3>2 DEF SolarPower
    <3> QED BY <3>1, <3>3 DEF SolarPowerOfWellPanels, WellPanels
  <2>2. UNCHANGED telemetry => SolarPowerOfWellPanels'
    BY DEF SolarPowerOfWellPanels
  <2>3. ASSUME NEW name \in Names, PowerOn(name) PROVE UNCHANGED telemetry
    BY <2>3 DEF PowerOn, Command
  <2>4. ASSUME NEW name \in Names, PowerOff(name) PROVE UNCHANGED telemetry
    BY <2>4 DEF PowerOff, Command
  <2>5. ASSUME NEW id \in PanelIds, PanelFails(id) PROVE UNCHANGED telemetry
    BY <2>5 DEF PanelFails, Command
  <2>6. ShedCommand \/ BatteryFails \/ PanelsCleared \/ BatteryCleared \/ AllCleared
          => UNCHANGED telemetry
    BY DEF ShedCommand, BatteryFails, PanelsCleared, BatteryCleared, AllCleared, Command
  <2>7. UNCHANGED vars => UNCHANGED telemetry
    BY DEF vars
  <2> QED BY <2>1, <2>2, <2>3, <2>4, <2>5, <2>6, <2>7, Steps
<1> QED BY <1>1, <1>2, TypeCorrect, PTL DEF Spec

------------------------------------------------------------------------------
(* The flag goes out only when the next load would not fit.                *)

(* The load with the lowest number of those that are off does not fit.     *)
NextDoesNotFit(ls) ==
  LET off == DOMAIN ls \ Active(ls) IN
  off # {} =>
    \E i \in off :
      /\ \A j \in off : ls[i].priority <= ls[j].priority
      /\ ComputeTotalLoad(ls) + ls[i].power > MaxPower

LEMMA RestoreStops ==
  ASSUME NEW ls, LoadList(ls)
  PROVE  NextDoesNotFit(RestoreLoad(ls))
<1> DEFINE n == Len(ls)
           s == Rising(ls)
           u == RestoreLoad(ls)
           off == DOMAIN u \ Active(u)
<1>1. n \in Nat /\ ls \in [1..n -> Load] /\ NamesDiffer(ls)
  BY AsList
<1>2. s \in [1..n -> Load] /\ NamesDiffer(s)
  BY <1>1, FallingRising
<1> HIDE DEF n
<1>3. PICK k \in 0..n : u = UpTo(s, k) /\ (k < n => ~FitsAt(s, k + 1))
  BY <1>1, RestoreLoadIs
<1>r. \A i, j \in 1..n : i < j => s[i].priority <= s[j].priority
  BY <1>1, RisingRises
<1> HIDE DEF s, u, off
<1>4. /\ u \in [1..n -> Load] /\ SameBut(n, u, s)
      /\ \A i \in 1..n : u[i].active = (s[i].active \/ i <= k)
  <2>1. k \in Int /\ u = UpTo(s, k)
    BY <1>3
  <2> QED BY <1>1, <1>2, <2>1, UpToIs
<1> USE DEF off
<1>5. \A i \in off : i \in 1..n /\ ~u[i].active /\ ~(i <= k)
  BY <1>4 DEF Active
<1>6. ASSUME off # {}
      PROVE  \E i \in off :
               /\ \A j \in off : u[i].priority <= u[j].priority
               /\ ComputeTotalLoad(u) + u[i].power > MaxPower
  <2> DEFINE i == k + 1
             v == UpTo(s, i)
  <2>1. k < n /\ i \in 1..n /\ k \in Int
    BY <1>1, <1>5, <1>6
  <2>2. ~s[i].active /\ ComputeTotalLoad(v) > MaxPower
    <3>1. ComputeTotalLoad(v) \in Nat
      BY <1>2, <2>1, UpToIs, DrawnType, <1>1
    <3> QED BY <3>1, <1>3, <2>1, Numbers DEF FitsAt
  <2>a. ~u[i].active
    <3>1. ~(i <= k)
      BY <2>1
    <3> HIDE DEF i
    <3> QED BY <3>1, <1>4, <2>1, <2>2
  <2>3. i \in off
    <3> HIDE DEF i
    <3> QED BY <1>4, <2>1, <2>a DEF Active
  <2>4. ASSUME NEW j \in off PROVE u[i].priority <= u[j].priority
    <3>1. j \in 1..n /\ (j = i \/ i < j)
      BY <1>5, <2>1
    <3>2. u[i].priority \in Nat /\ u[i].priority = s[i].priority
          /\ u[j].priority = s[j].priority
      BY <1>1, <1>4, <2>1, <3>1, LoadFields DEF SameBut
    <3>3. CASE j = i
      BY <3>2, <3>3
    <3>4. CASE i < j
      BY <3>1, <3>2, <3>4, <1>r, <2>1
    <3> QED BY <3>1, <3>3, <3>4
  <2>5. /\ v \in [1..n -> Load] /\ SameBut(n, v, s)
        /\ \A j \in 1..n : v[j].active = (s[j].active \/ j <= i)
    BY <1>2, <2>1, UpToIs, <1>1
  <2> HIDE DEF v
  <2>6. ComputeTotalLoad(v) = ComputeTotalLoad(u) + u[i].power
    <3>1. /\ Drawn(u) \in [1..n -> Nat] /\ Drawn(v) \in [1..n -> Nat]
          /\ \A j \in 1..n : Drawn(u)[j] = IF u[j].active THEN u[j].power ELSE 0
          /\ \A j \in 1..n : Drawn(v)[j] = IF v[j].active THEN v[j].power ELSE 0
      BY <1>1, <1>4, <2>5, DrawnType
    <3>2. u[i].power \in Nat
      BY <1>1, <1>4, <2>1, LoadFields
    <3>3. ASSUME NEW j \in 1..n
          PROVE  Drawn(v)[j] = IF j = i THEN Drawn(u)[j] + u[i].power ELSE Drawn(u)[j]
      <4>1. u[j].power = v[j].power /\ u[j].power \in Nat
        BY <1>1, <1>4, <2>5, LoadFields DEF SameBut
      <4>2. CASE j = i
        <5>a. j <= i
          BY <4>2, <2>1
        <5>1. v[j].active /\ ~u[j].active
          BY <4>2, <5>a, <2>a, <2>5
        <5> QED BY <5>1, <4>1, <4>2, <3>1
      <4>3. CASE j # i
        <5>1. j <= i <=> j <= k
          BY <4>3, <2>1
        <5>2. v[j].active = u[j].active
          BY <5>1, <1>4, <2>5
        <5> QED BY <5>2, <4>1, <4>3, <3>1
      <4> QED BY <4>2, <4>3
    <3> HIDE DEF i
    <3> QED BY <1>1, <2>1, <3>1, <3>2, <3>3, SumAt DEF ComputeTotalLoad
  <2> HIDE DEF off, i
  <2> QED BY <2>2, <2>3, <2>4, <2>6
<1> QED BY <1>6 DEF NextDoesNotFit, u

(* When the flag goes out, the first load to be switched on would put the  *)
(* bus over its limit: only Recovers clears it, and RestoreLoad stopped    *)
(* there, not because the list was at its end.                             *)
THEOREM ClearedOnlyThen == Spec => ClearedWhenNextDoesNotFit
<1> DEFINE Cleared == shedding /\ ~shedding' => NextDoesNotFit(loads')
<1>1. TypeOK /\ [Next]_vars => [Cleared]_vars
  <2> SUFFICES ASSUME TypeOK, [Next]_vars, shedding, ~shedding'
               PROVE  NextDoesNotFit(loads')
    OBVIOUS
  <2>l. LoadList(loads)
    BY TypeParts DEF LoadsOK
  <2>1. ASSUME NEW inSun \in Suns, Tick(inSun) PROVE NextDoesNotFit(loads')
    <3>1. Recovers
      BY <2>1 DEF Tick, Overloaded, Steady
    <3>2. loads' = RestoreLoad(loads)
      BY <3>1 DEF Recovers
    <3> QED BY <3>2, <2>l, RestoreStops
  <2>2. ASSUME NEW name \in Names, PowerOn(name) PROVE UNCHANGED shedding
    BY <2>2 DEF PowerOn
  <2>3. ASSUME NEW name \in Names, PowerOff(name) PROVE UNCHANGED shedding
    BY <2>3 DEF PowerOff
  <2>4. ASSUME NEW id \in PanelIds, PanelFails(id) PROVE UNCHANGED shedding
    BY <2>4 DEF PanelFails
  <2>5. ShedCommand => shedding'
    BY DEF ShedCommand
  <2>6. BatteryFails \/ PanelsCleared \/ BatteryCleared \/ AllCleared => UNCHANGED shedding
    BY DEF BatteryFails, PanelsCleared, BatteryCleared, AllCleared
  <2>7. UNCHANGED vars => UNCHANGED shedding
    BY DEF vars
  <2> QED BY <2>1, <2>2, <2>3, <2>4, <2>5, <2>6, <2>7, Steps
<1> QED BY <1>1, TypeCorrect, PTL DEF Spec, ClearedWhenNextDoesNotFit, NextDoesNotFit

------------------------------------------------------------------------------
(* No more is shed than needed, and in order.                              *)

(* The names of the loads switched off between ls and r, and still there.  *)
Off(ls, r) == {x \in ActiveNames(ls) \ ActiveNames(r) : PositionOf(r, x) # {}}

NoLaterThan(r, off) ==
  \A x \in off : \A y \in ActiveNames(r) :
    WithName(r, x).priority <= WithName(r, y).priority

LastWasNeeded(r, off) ==
  \A x \in off :
    (\A y \in off : WithName(r, y).priority <= WithName(r, x).priority)
      => \E y \in off : /\ WithName(r, y).priority = WithName(r, x).priority
                        /\ ComputeTotalLoad(r) + WithName(r, y).power > MaxPower

(* The two together, as ShedsInOrder has them.                             *)
InOrder(ls, r) ==
  LET off == {n \in ActiveNames(ls) \ ActiveNames(r) : PositionOf(r, n) # {}}
  IN  \A n \in off :
        /\ \A m \in ActiveNames(r) :
             WithName(r, n).priority <= WithName(r, m).priority
        /\ (\A m \in off : WithName(r, m).priority <= WithName(r, n).priority)
             => \E m \in off :
                  /\ WithName(r, m).priority = WithName(r, n).priority
                  /\ ComputeTotalLoad(r) + WithName(r, m).power > MaxPower

(* Names stand for positions.                                              *)
LEMMA AtPosition ==
  ASSUME NEW n \in Nat, NEW ls \in [1..n -> Load], NamesDiffer(ls), NEW i \in 1..n
  PROVE  /\ WithName(ls, ls[i].name) = ls[i]
         /\ PositionOf(ls, ls[i].name) # {}
         /\ ls[i].name \in ActiveNames(ls) <=> ls[i].active
<1>1. PositionOf(ls, ls[i].name) = {i}
  BY DEF PositionOf, NamesDiffer
<1>2. Min({i}) = i
  <2>1. Min({i}) \in {i}
    <3>1. i \in {i} /\ \A y \in {i} : i <= y
      OBVIOUS
    <3> QED BY <3>1 DEF Min
  <2> QED BY <2>1
<1>3. ls[i].name \in ActiveNames(ls) <=> ls[i].active
  BY DEF ActiveNames, Active, NamesDiffer
<1> QED BY <1>1, <1>2, <1>3 DEF WithName

LEMMA NameAt ==
  ASSUME NEW n \in Nat, NEW ls \in [1..n -> Load], NEW x
  PROVE  /\ PositionOf(ls, x) # {} => \E i \in 1..n : ls[i].name = x
         /\ x \in ActiveNames(ls) => \E i \in 1..n : ls[i].name = x /\ ls[i].active
  BY DEF PositionOf, ActiveNames, Active

(* The total from a load on grows with the loads that go after it.         *)
LEMMA TotalFromOrder ==
  ASSUME NEW n \in Nat, NEW s \in [1..n -> Load], NEW i \in 1..n, NEW j \in 1..n,
         GoesBefore(s, j, i)
  PROVE  TotalFrom(s, i) <= TotalFrom(s, j)
<1> DEFINE w(k) == [x \in DOMAIN s |-> IF GoesBefore(s, x, k) THEN 0 ELSE Drawn(s)[x]]
<1>1. ASSUME NEW k \in 1..n
      PROVE  /\ w(k) \in [1..n -> Nat] /\ TotalFrom(s, k) = SumOf(w(k))
             /\ \A x \in 1..n : w(k)[x] = IF GoesBefore(s, x, k) THEN 0 ELSE Drawn(s)[x]
  <2>1. PICK v : v = [x \in DOMAIN s |-> IF GoesBefore(s, x, k) THEN 0 ELSE Drawn(s)[x]]
    OBVIOUS
  <2>2. /\ v \in [1..n -> Nat] /\ TotalFrom(s, k) = SumOf(v)
        /\ \A x \in 1..n : v[x] = IF GoesBefore(s, x, k) THEN 0 ELSE Drawn(s)[x]
    BY <2>1, TotalFromType
  <2>3. w(k) = v
    BY <2>1
  <2> QED BY <2>2, <2>3
<1> HIDE DEF w
<1>2. ASSUME NEW x \in 1..n PROVE w(i)[x] <= w(j)[x]
  <2>1. /\ w(i)[x] = IF GoesBefore(s, x, i) THEN 0 ELSE Drawn(s)[x]
        /\ w(j)[x] = IF GoesBefore(s, x, j) THEN 0 ELSE Drawn(s)[x]
        /\ w(j)[x] \in Nat /\ w(i)[x] \in Nat
    BY <1>1
  <2>2. GoesBefore(s, x, j) => GoesBefore(s, x, i)
    <3>1. s[x].priority \in Nat /\ s[i].priority \in Nat /\ s[j].priority \in Nat
      BY LoadFields
    <3> QED BY <3>1 DEF GoesBefore
  <2> QED BY <2>1, <2>2
<1> QED BY <1>1, <1>2, SumMonotone

LEMMA ShedsOnlyNeeded ==
  ASSUME NEW ls, LoadList(ls)
  PROVE  /\ NoLaterThan(ShedLoad(ls), Off(ls, ShedLoad(ls)))
         /\ LastWasNeeded(ShedLoad(ls), Off(ls, ShedLoad(ls)))
<1> DEFINE n == Len(ls)
           s == Falling(ls)
           t == ShedLoad(ls)
           off == Off(ls, t)
           D == {i \in 1..n : s[i].active /\ ~t[i].active}
<1>1. n \in Nat /\ ls \in [1..n -> Load] /\ NamesDiffer(ls)
  BY AsList
<1>2. s \in [1..n -> Load] /\ NamesDiffer(s) /\ SameLoads(n, s, ls)
  <2> HIDE DEF n
  <2> QED BY <1>1, FallingRising
<1>3. /\ t \in [1..n -> Load] /\ NamesDiffer(t) /\ SameBut(n, t, s)
      /\ \A i \in 1..n : t[i].active = (s[i].active /\ TotalFrom(s, i) <= MaxPower)
  <2> HIDE DEF n
  <2> QED BY <1>1, ShedLoadIs
<1> HIDE DEF n, s, t
<1>p. \A i \in 1..n : s[i].priority \in Nat /\ s[i].power \in Nat /\ TotalFrom(s, i) \in Nat
  BY <1>1, <1>2, LoadFields, TotalFromType
<1>4. \A x \in off : \E i \in D : t[i].name = x /\ WithName(t, x) = t[i]
  <2> SUFFICES ASSUME NEW x \in off PROVE \E i \in D : t[i].name = x /\ WithName(t, x) = t[i]
    OBVIOUS
  <2>1. x \in ActiveNames(ls) /\ x \notin ActiveNames(t) /\ PositionOf(t, x) # {}
    BY DEF Off
  <2>2. PICK i \in 1..n : t[i].name = x
    BY <1>1, <1>3, <2>1, NameAt
  <2>3. WithName(t, x) = t[i] /\ ~t[i].active
    BY <1>1, <1>3, <2>1, <2>2, AtPosition
  <2>4. PICK a \in 1..n : ls[a].name = x /\ ls[a].active
    BY <1>1, <2>1, NameAt
  <2>5. PICK k \in 1..n : s[k] = ls[a]
    BY <1>2 DEF SameLoads
  <2>6. k = i
    BY <1>2, <1>3, <2>2, <2>4, <2>5 DEF NamesDiffer, SameBut
  <2>7. i \in D
    BY <2>3, <2>4, <2>5, <2>6
  <2> QED BY <2>2, <2>3, <2>7
<1>5. \A i \in D : t[i].name \in off /\ WithName(t, t[i].name) = t[i]
  <2> SUFFICES ASSUME NEW i \in D PROVE t[i].name \in off /\ WithName(t, t[i].name) = t[i]
    OBVIOUS
  <2>1. PICK a \in 1..n : s[i] = ls[a]
    BY <1>2 DEF SameLoads
  <2>2. ls[a].active /\ ls[a].name = t[i].name
    BY <2>1, <1>3 DEF SameBut
  <2>3. t[i].name \in ActiveNames(ls)
    BY <1>1, <2>2, AtPosition
  <2>4. /\ t[i].name \notin ActiveNames(t) /\ PositionOf(t, t[i].name) # {}
        /\ WithName(t, t[i].name) = t[i]
    BY <1>1, <1>3, AtPosition
  <2> QED BY <2>3, <2>4 DEF Off
<1>6. \A i \in D : TotalFrom(s, i) > MaxPower
  <2> SUFFICES ASSUME NEW i \in D PROVE TotalFrom(s, i) > MaxPower
    OBVIOUS
  <2>1. ~(TotalFrom(s, i) <= MaxPower)
    BY <1>3
  <2> QED BY <2>1, <1>p, Numbers
<1> HIDE DEF off
<1>7. NoLaterThan(t, off)
  <2> SUFFICES ASSUME NEW x \in off, NEW y \in ActiveNames(t)
               PROVE  WithName(t, x).priority <= WithName(t, y).priority
    BY DEF NoLaterThan
  <2>1. PICK i \in D : WithName(t, x) = t[i]
    BY <1>4
  <2>2. PICK j \in 1..n : t[j].name = y /\ t[j].active
    BY <1>1, <1>3, NameAt
  <2>3. WithName(t, y) = t[j]
    BY <1>1, <1>3, <2>2, AtPosition
  <2>4. TotalFrom(s, i) > MaxPower /\ TotalFrom(s, j) <= MaxPower
    BY <1>3, <1>6, <2>2
  <2>5. ~GoesBefore(s, j, i)
    <3>1. GoesBefore(s, j, i) => TotalFrom(s, i) <= TotalFrom(s, j)
      BY <1>1, <1>2, TotalFromOrder
    <3>2. TotalFrom(s, i) \in Nat /\ TotalFrom(s, j) \in Nat
      BY <1>p
    <3> QED BY <2>4, <3>1, <3>2, Numbers
  <2>6. s[i].priority <= s[j].priority
    BY <2>5, <1>p DEF GoesBefore
  <2> QED BY <2>1, <2>3, <2>6, <1>3 DEF SameBut
<1>8. LastWasNeeded(t, off)
  <2> SUFFICES ASSUME NEW x \in off,
                      \A y \in off : WithName(t, y).priority <= WithName(t, x).priority
               PROVE  \E y \in off :
                        /\ WithName(t, y).priority = WithName(t, x).priority
                        /\ ComputeTotalLoad(t) + WithName(t, y).power > MaxPower
    BY DEF LastWasNeeded
  <2>1. PICK i \in D : WithName(t, x) = t[i]
    BY <1>4
  <2>2. PICK e \in D : \A j \in D : ~GoesBefore(s, e, j)
    <3>1. D \in SUBSET (1..n) /\ D # {}
      BY <2>1
    <3> HIDE DEF D
    <3> QED BY <1>1, <1>2, <3>1, FirstAndLastToGo
  <2>3. t[e].name \in off /\ WithName(t, t[e].name) = t[e]
    BY <1>5
  <2>4. t[e].priority = t[i].priority
    <3>1. t[e].priority <= t[i].priority
      BY <2>1, <2>3
    <3>2. ~GoesBefore(s, e, i)
      BY <2>2
    <3>3. t[e].priority = s[e].priority /\ t[i].priority = s[i].priority
      BY <1>3 DEF SameBut
    <3> QED BY <3>1, <3>2, <3>3, <1>p DEF GoesBefore
  <2>5. ComputeTotalLoad(t) + t[e].power > MaxPower
    <3> DEFINE w == [j \in DOMAIN s |-> IF GoesBefore(s, j, e) THEN 0 ELSE Drawn(s)[j]]
               v == [j \in 1..n |-> IF j = e THEN Drawn(t)[j] + s[e].power ELSE Drawn(t)[j]]
    <3>0. e \in 1..n
      OBVIOUS
    <3>1. /\ w \in [1..n -> Nat] /\ TotalFrom(s, e) = SumOf(w)
          /\ \A j \in 1..n : w[j] = IF GoesBefore(s, j, e) THEN 0 ELSE Drawn(s)[j]
      BY <3>0, <1>1, <1>2, TotalFromType
    <3>2. /\ Drawn(t) \in [1..n -> Nat] /\ ComputeTotalLoad(t) \in Nat
          /\ \A j \in 1..n : Drawn(t)[j] = IF t[j].active THEN t[j].power ELSE 0
          /\ \A j \in 1..n : Drawn(s)[j] = IF s[j].active THEN s[j].power ELSE 0
      BY <1>1, <1>2, <1>3, DrawnType
    <3>3. s[e].power \in Nat /\ t[e].power = s[e].power
      BY <1>3, <1>p DEF SameBut
    <3>4. v \in [1..n -> Nat]
      BY <3>2, <3>3
    <3>5. \A j \in 1..n : v[j] = IF j = e THEN Drawn(t)[j] + s[e].power ELSE Drawn(t)[j]
      OBVIOUS
    <3> HIDE DEF w, v
    <3>6. SumOf(v) = ComputeTotalLoad(t) + s[e].power
      BY <1>1, <3>0, <3>2, <3>3, <3>4, <3>5, SumAt DEF ComputeTotalLoad
    <3>7. ASSUME NEW j \in 1..n PROVE w[j] <= v[j]
      <4>1. /\ w[j] \in Nat /\ v[j] \in Nat /\ Drawn(t)[j] \in Nat
            /\ s[j].power \in Nat /\ t[j].power = s[j].power
        BY <3>1, <3>2, <3>4, <1>3, <1>p DEF SameBut
      <4>2. CASE j = e
        <5>1. w[j] = 0 \/ w[j] = s[j].power
          BY <3>1, <3>2
        <5>2. v[j] = Drawn(t)[j] + s[j].power
          BY <3>5, <4>2
        <5> QED BY <4>1, <5>1, <5>2
      <4>3. CASE j # e /\ s[j].active /\ ~GoesBefore(s, j, e)
        <5>1. GoesBefore(s, e, j)
          BY <4>3, <1>p, <3>0 DEF GoesBefore
        <5>2. t[j].active
          BY <5>1, <2>2, <4>3
        <5>3. w[j] = s[j].power /\ v[j] = t[j].power
          BY <4>3, <5>2, <3>1, <3>2, <3>5
        <5> QED BY <4>1, <5>3
      <4>4. CASE j # e /\ (~s[j].active \/ GoesBefore(s, j, e))
        <5>1. w[j] = 0
          BY <4>4, <3>1, <3>2
        <5> QED BY <4>1, <5>1
      <4> QED BY <4>2, <4>3, <4>4
    <3>8. SumOf(w) <= SumOf(v)
      BY <1>1, <3>1, <3>4, <3>7, SumMonotone
    <3>9. TotalFrom(s, e) > MaxPower /\ TotalFrom(s, e) \in Nat
      BY <1>6, <1>p
    <3>10. SumOf(v) \in Nat
      BY <1>1, <3>4, SumType
    <3> QED BY <3>1, <3>3, <3>6, <3>8, <3>9, <3>10, Numbers
  <2> QED BY <2>1, <2>3, <2>4, <2>5
<1> QED BY <1>7, <1>8 DEF t, off

(* Nothing is switched off when every load that was on is on under its     *)
(* name, or no longer there.                                               *)
LEMMA NoneOff ==
  ASSUME NEW ls, LoadList(ls), NEW r,
         \A i \in 1..Len(ls) : ls[i].active =>
            ls[i].name \in ActiveNames(r) \/ PositionOf(r, ls[i].name) = {}
  PROVE  Off(ls, r) = {}
<1>1. Len(ls) \in Nat /\ ls \in [1..Len(ls) -> Load]
  BY AsList
<1> SUFFICES ASSUME NEW x \in Off(ls, r) PROVE FALSE
  OBVIOUS
<1>2. x \in ActiveNames(ls) /\ x \notin ActiveNames(r) /\ PositionOf(r, x) # {}
  BY DEF Off
<1>3. PICK i \in 1..Len(ls) : ls[i].name = x /\ ls[i].active
  BY <1>1, <1>2, NameAt
<1> QED BY <1>2, <1>3

LEMMA AddLoadKeeps ==
  ASSUME NEW ls, LoadList(ls), NEW name, NEW power, NEW priority
  PROVE  Off(ls, AddLoad(ls, name, power, priority)) = {}
<1> DEFINE n == Len(ls)
           new == [name |-> name, power |-> power, priority |-> priority, active |-> TRUE]
           r == AddLoad(ls, name, power, priority)
<1>1. n \in Nat /\ ls \in [1..n -> Load] /\ ls \in Seq(Load) /\ DOMAIN ls = 1..n
  BY AsList DEF LoadList
<1>2. new.name = name /\ new.active
  OBVIOUS
<1>3. ASSUME NEW i \in 1..n, ls[i].active PROVE ls[i].name \in ActiveNames(r)
  <2>1. CASE PositionOf(ls, name) = {}
    <3>1. r = Append(ls, new)
      BY <2>1 DEF AddLoad
    <3>2. i \in DOMAIN r /\ r[i] = ls[i]
      <4> HIDE DEF new, r
      <4> QED BY <3>1, <1>1
    <3> HIDE DEF r
    <3> QED BY <3>2, <1>3 DEF ActiveNames, Active
  <2>2. CASE PositionOf(ls, name) # {}
    <3> DEFINE m == Min(PositionOf(ls, name))
    <3>1. r = [ls EXCEPT ![m] = new]
      BY <2>2 DEF AddLoad
    <3>2. m \in 1..n /\ ls[m].name = name
      BY <1>1, <2>2, PositionIs
    <3> HIDE DEF m, r, new
    <3>3. i \in DOMAIN r /\ r[i].name = ls[i].name /\ r[i].active
      BY <3>1, <3>2, <1>1, <1>2, <1>3
    <3> QED BY <3>3 DEF ActiveNames, Active
  <2> QED BY <2>1, <2>2
<1> HIDE DEF r
<1>4. Off(ls, r) = {}
  BY <1>3, NoneOff
<1> QED BY <1>4 DEF r

LEMMA RemoveLoadKeeps ==
  ASSUME NEW ls, LoadList(ls), NEW name
  PROVE  Off(ls, RemoveLoad(ls, name)) = {}
<1> DEFINE n == Len(ls)
           m == Min(PositionOf(ls, name))
           r == RemoveLoad(ls, name)
<1>1. n \in Nat /\ ls \in [1..n -> Load] /\ NamesDiffer(ls) /\ DOMAIN ls = 1..n
  BY AsList
<1>2. CASE PositionOf(ls, name) = {}
  <2>1. r = ls
    BY <1>2 DEF RemoveLoad
  <2> QED BY <2>1 DEF Off
<1>3. CASE PositionOf(ls, name) # {}
  <2>1. m \in 1..n /\ RemovedAt(r, n, m, ls)
    <3>1. n = Len(ls) /\ m = Min(PositionOf(ls, name)) /\ r = RemoveLoad(ls, name)
      OBVIOUS
    <3> HIDE DEF n, m, r
    <3> QED BY <3>1, <1>3, RemoveLoadIs
  <2> HIDE DEF m, r
  <2>2. /\ DOMAIN r = 1..(n-1)
        /\ \A i \in 1..(n-1) : r[i] = IF i < m THEN ls[i] ELSE ls[i+1]
    BY <2>1 DEF RemovedAt
  <2>3. ASSUME NEW i \in 1..n, ls[i].active
        PROVE  ls[i].name \in ActiveNames(r) \/ PositionOf(r, ls[i].name) = {}
    <3>1. CASE i < m
      <4>1. i \in 1..(n-1) /\ r[i] = ls[i]
        BY <3>1, <2>1, <2>2, <1>1
      <4> QED BY <4>1, <2>2, <2>3 DEF ActiveNames, Active
    <3>2. CASE i > m
      <4>1. i - 1 \in 1..(n-1) /\ ~(i - 1 < m) /\ (i - 1) + 1 = i
        BY <3>2, <2>1, <1>1
      <4>2. r[i-1] = ls[i]
        BY <4>1, <2>2
      <4> QED BY <4>1, <4>2, <2>2, <2>3 DEF ActiveNames, Active
    <3>3. CASE i = m
      <4>1. ASSUME NEW j \in 1..(n-1) PROVE r[j].name # ls[m].name
        <5> DEFINE at == IF j < m THEN j ELSE j + 1
        <5>1. at \in 1..n /\ at # m /\ r[j] = ls[at]
          BY <2>1, <2>2, <1>1
        <5> HIDE DEF at
        <5> QED BY <5>1, <2>1, <1>1 DEF NamesDiffer
      <4> QED BY <4>1, <2>2, <3>3 DEF PositionOf
    <3> QED BY <3>1, <3>2, <3>3, <2>1
  <2>4. Off(ls, r) = {}
    BY <2>3, NoneOff
  <2> QED BY <2>4 DEF r
<1> QED BY <1>2, <1>3

LEMMA RestoreLoadKeeps ==
  ASSUME NEW ls, LoadList(ls)
  PROVE  Off(ls, RestoreLoad(ls)) = {}
<1> DEFINE n == Len(ls)
           s == Rising(ls)
           u == RestoreLoad(ls)
<1>1. n \in Nat /\ ls \in [1..n -> Load] /\ NamesDiffer(ls)
  BY AsList
<1>2. s \in [1..n -> Load] /\ NamesDiffer(s) /\ SameLoads(n, s, ls)
  <2> HIDE DEF n
  <2> QED BY <1>1, FallingRising
<1>3. PICK k \in 0..n : u = UpTo(s, k)
  <2> HIDE DEF n
  <2> QED BY <1>1, RestoreLoadIs
<1> HIDE DEF n, s, u
<1>4. /\ u \in [1..n -> Load] /\ SameBut(n, u, s)
      /\ \A i \in 1..n : u[i].active = (s[i].active \/ i <= k)
  <2>1. k \in Int
    BY <1>1
  <2> QED BY <1>1, <1>2, <1>3, <2>1, UpToIs
<1>5. ASSUME NEW i \in 1..n, ls[i].active PROVE ls[i].name \in ActiveNames(u)
  <2>1. PICK j \in 1..n : s[j] = ls[i]
    BY <1>2 DEF SameLoads
  <2>2. u[j].name = ls[i].name /\ u[j].active /\ j \in DOMAIN u
    BY <2>1, <1>4, <1>5 DEF SameBut
  <2> QED BY <2>2 DEF ActiveNames, Active
<1>6. Off(ls, u) = {}
  BY <1>5, NoneOff DEF n
<1> QED BY <1>6 DEF u

(* Only shedding switches off what stays in the list, and it takes the     *)
(* lowest numbers, each because with it the bus is over its limit.         *)
THEOREM ShedsOnlyInOrder == Spec => ShedsInOrder
<1> DEFINE off == Off(loads, loads')
           Sheds == InOrder(loads, loads')
<1>1. TypeOK /\ [Next]_vars => [Sheds]_vars
  <2> SUFFICES ASSUME TypeOK, [Next]_vars PROVE Sheds
    OBVIOUS
  <2>l. LoadList(loads)
    BY TypeParts DEF LoadsOK
  <2>0. off = {} => Sheds
    BY DEF InOrder, Off
  <2>u. UNCHANGED loads => off = {}
    BY DEF Off
  <2>s. loads' = ShedLoad(loads) => Sheds
    BY <2>l, ShedsOnlyNeeded DEF InOrder, Off, NoLaterThan, LastWasNeeded
  <2>1. ASSUME NEW inSun \in Suns, Tick(inSun) PROVE Sheds
    <3>1. loads' = ShedLoad(loads) \/ loads' = RestoreLoad(loads) \/ loads' = loads
      BY <2>1 DEF Tick, Overloaded, Recovers, Steady
    <3>2. loads' = RestoreLoad(loads) => off = {}
      BY <2>l, RestoreLoadKeeps
    <3> HIDE DEF off, Sheds
    <3> QED BY <3>1, <3>2, <2>0, <2>u, <2>s
  <2>2. ASSUME NEW name \in Names, PowerOn(name) PROVE off = {}
    BY <2>2, <2>l, AddLoadKeeps DEF PowerOn
  <2>3. ASSUME NEW name \in Names, PowerOff(name) PROVE off = {}
    BY <2>3, <2>l, RemoveLoadKeeps DEF PowerOff
  <2>4. ShedCommand => loads' = ShedLoad(loads)
    BY DEF ShedCommand
  <2>5. ASSUME NEW id \in PanelIds, PanelFails(id) PROVE UNCHANGED loads
    BY <2>5 DEF PanelFails
  <2>6. BatteryFails \/ PanelsCleared \/ BatteryCleared \/ AllCleared => UNCHANGED loads
    BY DEF BatteryFails, PanelsCleared, BatteryCleared, AllCleared
  <2>7. UNCHANGED vars => UNCHANGED loads
    BY DEF vars
  <2> HIDE DEF off, Sheds
  <2> QED BY <2>0, <2>u, <2>s, <2>1, <2>2, <2>3, <2>4, <2>5, <2>6, <2>7, Steps
<1> QED BY <1>1, TypeCorrect, PTL DEF Spec, ShedsInOrder, InOrder
==============================================================================
