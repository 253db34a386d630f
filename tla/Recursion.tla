----------------------------- MODULE Recursion ------------------------------
(***************************************************************************)
(* Induction and recursion on the natural numbers, with sets and functions *)
(* where the library takes operators: what the definitions of SeedData and *)
(* Catalogue that go through a tree layer by layer rest on.                *)
(***************************************************************************)
EXTENDS Integers, WellFoundedInduction, TLAPS

(* Every set of natural numbers has a least element.                       *)
LEMMA Least ==
  ASSUME NEW T \in SUBSET Nat, T # {}
  PROVE  \E x \in T : \A y \in T : x <= y
<1> DEFINE R == {p \in Nat \X Nat : p[1] < p[2]}
<1>1. IsWellFoundedOn(R, Nat)
  BY NatLessThanWellFounded DEF OpToRel
<1>2. \E x \in T : \A y \in T : ~(<<y, x>> \in R)
  <2> HIDE DEF R
  <2> QED BY <1>1, WFMin
<1>3. PICK x \in T : \A y \in T : ~(y < x)
  BY <1>2
<1>4. \A y \in T : x <= y
  BY <1>3
<1> QED BY <1>4

(* A set that has 0, and with every number the next, has them all.         *)
LEMMA Induction ==
  ASSUME NEW S \in SUBSET Nat, 0 \in S, \A n \in S : n + 1 \in S
  PROVE  S = Nat
<1> SUFFICES ASSUME Nat \ S # {} PROVE FALSE
  OBVIOUS
<1>1. PICK x \in Nat \ S : \A y \in Nat \ S : x <= y
  BY Least
<1>2. x # 0 /\ x - 1 \in Nat /\ x - 1 < x /\ (x - 1) + 1 = x
  BY <1>1
<1> QED BY <1>1, <1>2

(* A set of numbers that has an upper bound has a greatest element.        *)
LEMMA Greatest ==
  ASSUME NEW T \in SUBSET Nat, T # {}, NEW b \in Nat, \A y \in T : y <= b
  PROVE  \E x \in T : \A y \in T : y <= x
<1> DEFINE Above == {n \in Nat : \A y \in T : y <= n}
<1>1. PICK x \in Above : \A n \in Above : x <= n
  <2>1. b \in Above
    OBVIOUS
  <2> HIDE DEF Above
  <2>2. Above \in SUBSET Nat
    BY DEF Above
  <2> QED BY <2>1, <2>2, Least
<1>2. ASSUME x \notin T PROVE FALSE
  <2>1. PICK y \in T : TRUE
    OBVIOUS
  <2>2. y <= x /\ y # x
    BY <1>1, <1>2
  <2>3. x - 1 \in Nat /\ ~(x <= x - 1)
    BY <1>1, <2>2
  <2>4. \A z \in T : z <= x - 1
    BY <1>1, <1>2
  <2> QED BY <1>1, <2>3, <2>4
<1> QED BY <1>1, <1>2

(* The functions with a first value and a step from each value to the next.*)
Recursive(V, first, step) ==
  {f \in [Nat -> V] : f[0] = first /\ \A n \in Nat \ {0} : f[n] = step[n][f[n - 1]]}

(* There is one, whatever the steps are.                                   *)
LEMMA RecursiveExists ==
  ASSUME NEW V, NEW first \in V, NEW step \in [Nat -> [V -> V]]
  PROVE  Recursive(V, first, step) # {}
<1> DEFINE Upto(n) == {g \in [0..n -> V] : g[0] = first /\ \A k \in 1..n : g[k] = step[k][g[k - 1]]}
           Reached == {n \in Nat : Upto(n) # {}}
<1>1. Reached = Nat
  <2>1. 0 \in Reached
    <3>1. [k \in 0..0 |-> first] \in Upto(0)
      OBVIOUS
    <3> QED BY <3>1
  <2>2. ASSUME NEW n \in Reached PROVE n + 1 \in Reached
    <3>1. PICK g \in Upto(n) : TRUE
      OBVIOUS
    <3> DEFINE h == [k \in 0..(n + 1) |-> IF k = n + 1 THEN step[n + 1][g[n]] ELSE g[k]]
    <3>2. h \in [0..(n + 1) -> V]
      BY <3>1
    <3>3. h[0] = first
      BY <3>1
    <3>4. ASSUME NEW k \in 1..(n + 1) PROVE h[k] = step[k][h[k - 1]]
      <4>1. CASE k = n + 1
        BY <4>1
      <4>2. CASE k # n + 1
        <5>1. k \in 1..n /\ k - 1 \in 0..n
          BY <4>2
        <5> QED BY <3>1, <4>2, <5>1
      <4> QED BY <4>1, <4>2
    <3>5. h \in Upto(n + 1)
      <4> HIDE DEF h
      <4> QED BY <3>2, <3>3, <3>4
    <3> HIDE DEF Upto, h
    <3> QED BY <3>5
  <2> HIDE DEF Reached
  <2>3. Reached \in SUBSET Nat
    BY DEF Reached
  <2> QED BY <2>1, <2>2, <2>3, Induction
<1>2. ASSUME NEW n \in Nat, NEW m \in Nat, NEW g \in Upto(n), NEW h \in Upto(m)
      PROVE  \A k \in 0..n \cap 0..m : g[k] = h[k]
  <2> DEFINE Same == {k \in Nat : k <= n /\ k <= m => g[k] = h[k]}
  <2>1. 0 \in Same
    OBVIOUS
  <2>2. ASSUME NEW k \in Same PROVE k + 1 \in Same
    <3> SUFFICES ASSUME k + 1 <= n, k + 1 <= m PROVE g[k + 1] = h[k + 1]
      OBVIOUS
    <3>1. k + 1 \in 1..n /\ k + 1 \in 1..m /\ (k + 1) - 1 = k /\ k <= n /\ k <= m
      OBVIOUS
    <3>2. g[k] = h[k]
      BY <3>1
    <3>3. g[k + 1] = step[k + 1][g[k]] /\ h[k + 1] = step[k + 1][h[k]]
      BY <3>1
    <3> QED BY <3>2, <3>3
  <2>3. Same = Nat
    <3> HIDE DEF Same
    <3>1. Same \in SUBSET Nat
      BY DEF Same
    <3> QED BY <2>1, <2>2, <3>1, Induction
  <2> QED
    <3> SUFFICES ASSUME NEW k \in 0..n, k \in 0..m PROVE g[k] = h[k]
      OBVIOUS
    <3>1. k \in Same
      <4> HIDE DEF Same
      <4> QED BY <2>3
    <3> QED BY <3>1
<1> DEFINE The(n) == CHOOSE g \in Upto(n) : TRUE
           f == [n \in Nat |-> The(n)[n]]
<1>3. ASSUME NEW n \in Nat PROVE The(n) \in Upto(n)
  <2>1. Upto(n) # {}
    BY <1>1
  <2> HIDE DEF Upto
  <2> QED BY <2>1
<1>4. ASSUME NEW n \in Nat, n # 0 PROVE f[n] = step[n][f[n - 1]]
  <2>1. n - 1 \in Nat /\ n \in 1..n /\ n - 1 \in 0..n \cap 0..(n - 1)
    BY <1>4
  <2>2. The(n)[n] = step[n][The(n)[n - 1]]
    <3> HIDE DEF The
    <3> QED BY <1>3, <2>1, SMTT(30)
  <2>3. The(n)[n - 1] = The(n - 1)[n - 1]
    <3> HIDE DEF The, Upto
    <3> QED BY <1>2, <1>3, <2>1, SMTT(30)
  <2> QED BY <2>1, <2>2, <2>3
<1>5. f[0] = first /\ f \in [Nat -> V]
  <2>1. ASSUME NEW n \in Nat PROVE The(n)[n] \in V
    <3> HIDE DEF The
    <3> QED BY <1>3
  <2>2. The(0)[0] = first
    <3> HIDE DEF The
    <3> QED BY <1>3
  <2> QED BY <2>1, <2>2
<1>6. f \in Recursive(V, first, step)
  <2> HIDE DEF f
  <2> QED BY <1>4, <1>5 DEF Recursive
<1> QED BY <1>6

=============================================================================
