----------------------------- MODULE Induction ------------------------------
(***************************************************************************)
(* Induction for the proof modules, stated about sets: an induction rule   *)
(* that takes a formula as its parameter cannot be instantiated by the     *)
(* provers, one about the set of numbers that satisfy the formula can.     *)
(* Everything follows from the strict subset order being well founded on   *)
(* finite sets.                                                            *)
(***************************************************************************)
EXTENDS Integers, FiniteSetTheorems, TLAPS

(* A set that has zero, and the successor of each number it has, has every *)
(* natural number.  Otherwise there is a smallest interval 0..k whose end  *)
(* is missing, and the end of 0..(k-1) is missing too.                     *)
LEMMA NatSetInduction ==
  ASSUME NEW S, 0 \in S, \A n \in Nat : n \in S => n + 1 \in S
  PROVE  Nat \subseteq S
<1> SUFFICES ASSUME NEW m \in Nat, m \notin S PROVE FALSE
  OBVIOUS
<1> DEFINE Missing == Nat \ S
           T == {0..k : k \in Missing}
<1>1. T \subseteq FiniteSubsetsOf(Nat)
  <2> SUFFICES ASSUME NEW k \in Missing PROVE 0..k \in FiniteSubsetsOf(Nat)
    OBVIOUS
  <2>1. IsFiniteSet(0..k)
    BY FS_Interval
  <2>2. 0..k \in SUBSET Nat
    OBVIOUS
  <2> QED BY <2>1, <2>2 DEF FiniteSubsetsOf
<1>2. 0..m \in T /\ T # {}
  OBVIOUS
<1>3. PICK x \in T : \A y \in T : <<y, x>> \notin StrictSubsetOrdering(Nat)
  <2> HIDE DEF T
  <2> QED BY <1>1, <1>2, WFMin, FS_StrictSubsetOrderingWellFounded
<1>4. PICK k \in Missing : x = 0..k
  OBVIOUS
<1>5. k - 1 \in Missing
  <2>1. k # 0 /\ k \in Nat
    OBVIOUS
  <2>2. k - 1 \in Nat /\ (k - 1) + 1 = k
    BY <2>1
  <2> QED BY <2>2
<1>6. 0..(k-1) \in T
  BY <1>5
<1>7. <<0..(k-1), 0..k>> \in StrictSubsetOrdering(Nat)
  <2>1. 0..(k-1) \in SUBSET Nat /\ 0..k \in SUBSET Nat
    BY <1>5
  <2>2. 0..(k-1) \subseteq 0..k /\ k \in 0..k /\ k \notin 0..(k-1)
    OBVIOUS
  <2> QED BY <2>1, <2>2 DEF StrictSubsetOrdering
<1> QED BY <1>3, <1>4, <1>6, <1>7

(* Of finitely many indices one has the largest key.                       *)
LEMMA LargestKey ==
  ASSUME NEW n \in Nat, NEW key \in [1..n -> Int], NEW D \in SUBSET (1..n), D # {}
  PROVE  \E i \in D : \A j \in D : key[j] <= key[i]
<1> DEFINE HasLargest(k) ==
      \A C \in SUBSET (1..n) :
        C # {} /\ C \subseteq 1..k => \E i \in C : \A j \in C : key[j] <= key[i]
           S == {k \in Nat : HasLargest(k)}
<1>1. 0 \in S
  <2>1. 1..0 = {}
    OBVIOUS
  <2> QED BY <2>1
<1>2. ASSUME NEW k \in Nat, k \in S PROVE k + 1 \in S
  <2> SUFFICES ASSUME NEW C \in SUBSET (1..n), C # {}, C \subseteq 1..(k+1)
               PROVE  \E i \in C : \A j \in C : key[j] <= key[i]
    OBVIOUS
  <2>1. CASE C \ {k+1} = {}
    <3>1. C = {k+1}
      BY <2>1
    <3> QED BY <3>1
  <2>2. CASE C \ {k+1} # {}
    <3>1. C \ {k+1} \subseteq 1..k /\ C \ {k+1} \in SUBSET (1..n)
      OBVIOUS
    <3>2. PICK i \in C \ {k+1} : \A j \in C \ {k+1} : key[j] <= key[i]
      BY <2>2, <3>1, <1>2
    <3>3. CASE k+1 \in C /\ key[i] <= key[k+1]
      <4>1. \A j \in C : key[j] <= key[k+1]
        <5> SUFFICES ASSUME NEW j \in C PROVE key[j] <= key[k+1]
          OBVIOUS
        <5>1. j # k+1 => key[j] <= key[i]
          BY <3>2
        <5>2. key[j] \in Int /\ key[i] \in Int /\ key[k+1] \in Int
          BY <3>3
        <5> QED BY <5>1, <5>2, <3>3
      <4> QED BY <4>1, <3>3
    <3>4. CASE ~(k+1 \in C /\ key[i] <= key[k+1])
      <4>1. k+1 \in C => key[k+1] <= key[i]
        <5>1. k+1 \in C => key[k+1] \in Int /\ key[i] \in Int
          OBVIOUS
        <5> QED BY <5>1, <3>4
      <4> QED BY <4>1, <3>2
    <3> QED BY <3>3, <3>4
  <2> QED BY <2>1, <2>2
<1>3. n \in S
  <2> HIDE DEF S
  <2> QED BY <1>1, <1>2, NatSetInduction
<1> QED BY <1>3

(* A set of numbers between 1 and n has a least and a greatest element.    *)
LEMMA LeastAndGreatest ==
  ASSUME NEW n \in Nat, NEW D \in SUBSET (1..n), D # {}
  PROVE  /\ \E i \in D : \A j \in D : i <= j
         /\ \E i \in D : \A j \in D : j <= i
<1>1. \E i \in D : \A j \in D : j <= i
  <2> DEFINE key == [i \in 1..n |-> i]
  <2>1. key \in [1..n -> Int] /\ \A i \in D : key[i] = i
    OBVIOUS
  <2> HIDE DEF key
  <2>2. PICK i \in D : \A j \in D : key[j] <= key[i]
    BY <2>1, LargestKey
  <2> QED BY <2>1, <2>2
<1>2. \E i \in D : \A j \in D : i <= j
  <2> DEFINE key == [i \in 1..n |-> -i]
  <2>1. key \in [1..n -> Int] /\ \A i \in D : key[i] = -i
    OBVIOUS
  <2> HIDE DEF key
  <2>2. PICK i \in D : \A j \in D : key[j] <= key[i]
    BY <2>1, LargestKey
  <2>3. \A j \in D : i <= j
    BY <2>1, <2>2
  <2> QED BY <2>3
<1> QED BY <1>1, <1>2

(* f has the partial sums of w.                                            *)
Adds(f, n, w) ==
  /\ f \in [0..n -> Nat]
  /\ f[0] = 0
  /\ \A k \in 1..n : f[k] = f[k-1] + w[k]

(* Partial sums exist.                                                     *)
LEMMA PartialSums ==
  ASSUME NEW n \in Nat, NEW w \in [1..n -> Nat]
  PROVE  \E f : Adds(f, n, w)
<1> DEFINE HaveSums(m) ==
      \E f \in [0..m -> Nat] : f[0] = 0 /\ \A k \in 1..m : f[k] = f[k-1] + w[k]
           S == {m \in Nat : m <= n => HaveSums(m)}
<1>1. 0 \in S
  <2>1. [k \in 0..0 |-> 0] \in [0..0 -> Nat] /\ [k \in 0..0 |-> 0][0] = 0
    OBVIOUS
  <2>2. 1..0 = {}
    OBVIOUS
  <2> QED BY <2>1, <2>2
<1>2. ASSUME NEW m \in Nat, m \in S PROVE m + 1 \in S
  <2> SUFFICES ASSUME m + 1 <= n
               PROVE  HaveSums(m+1)
    <3> HIDE DEF HaveSums
    <3> QED OBVIOUS
  <2>1. m <= n /\ m + 1 \in 1..n /\ w[m+1] \in Nat
    OBVIOUS
  <2>2. PICK f \in [0..m -> Nat] : f[0] = 0 /\ \A k \in 1..m : f[k] = f[k-1] + w[k]
    BY <1>2, <2>1
  <2> DEFINE g == [k \in 0..(m+1) |-> IF k = m + 1 THEN f[m] + w[m+1] ELSE f[k]]
  <2>3. g \in [0..(m+1) -> Nat] /\ g[0] = 0
    BY <2>1, <2>2
  <2>4. ASSUME NEW k \in 1..(m+1) PROVE g[k] = g[k-1] + w[k]
    <3>1. k - 1 \in 0..(m+1) /\ k - 1 # m + 1 /\ k \in 0..(m+1)
      OBVIOUS
    <3>2. CASE k = m + 1
      BY <3>1, <3>2
    <3>3. CASE k # m + 1
      <4>1. k \in 1..m
        BY <3>3
      <4> QED BY <4>1, <3>1, <3>3, <2>2
    <3> QED BY <3>2, <3>3
  <2> HIDE DEF g
  <2> QED BY <2>3, <2>4
<1>3. n \in S
  <2> HIDE DEF S
  <2> QED BY <1>1, <1>2, NatSetInduction
<1>4. HaveSums(n)
  <2> HIDE DEF HaveSums
  <2> QED BY <1>3
<1> QED BY <1>4 DEF Adds
==============================================================================
