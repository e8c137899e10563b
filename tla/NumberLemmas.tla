---------------------------- MODULE NumberLemmas ----------------------------
(* Induction over the natural numbers, in a form that speaks of sets and      *)
(* functions: the least number of a set, and the function that a recursion    *)
(* defines.                                                                   *)
EXTENDS Naturals, WellFoundedInduction, TLAPS

NatLess == {p \in Nat \X Nat : p[1] < p[2]}

(* The order of the numbers is well founded, as the library proves it.        *)
LEMMA NatLessWellFounded == IsWellFoundedOn(NatLess, Nat)
  <1>1. OpToRel(<, Nat) = NatLess
    BY Zenon DEF OpToRel, NatLess
  <1> QED BY <1>1, NatLessThanWellFounded, Zenon

(* A set of numbers that is not empty has a least one.                        *)
LEMMA LeastNumber ==
    ASSUME NEW T, T \subseteq Nat, T # {}
    PROVE  \E i \in T : \A j \in T : i <= j
  <1>1. PICK i \in T : \A j \in T : ~(<<j, i>> \in NatLess)
    BY NatLessWellFounded, WFMin
  <1>2. \A j \in T : ~(j < i)
    <2> SUFFICES ASSUME NEW j \in T, j < i PROVE FALSE
      OBVIOUS
    <2>1. <<j, i>> \in Nat \X Nat /\ <<j, i>>[1] < <<j, i>>[2]
      OBVIOUS
    <2>2. <<j, i>> \in NatLess
      BY <2>1, Zenon DEF NatLess
    <2> QED BY <1>1, <2>2
  <1> QED BY <1>2

(* What holds of 0, and of n + 1 if it holds of n, holds of all: the set T is *)
(* all there is.                                                              *)
LEMMA Induction ==
    ASSUME NEW T, 0 \in T, \A n \in Nat : n \in T => n + 1 \in T
    PROVE  Nat \subseteq T
  <1> SUFFICES ASSUME Nat \ T # {} PROVE FALSE
    OBVIOUS
  <1>1. PICK n \in Nat \ T : \A m \in Nat \ T : n <= m
    <2>1. Nat \ T \subseteq Nat
      OBVIOUS
    <2> QED BY <2>1, LeastNumber
  <1>2. n # 0 /\ n - 1 \in Nat /\ (n - 1) + 1 = n
    OBVIOUS
  <1>3. n - 1 \in T
    BY <1>1, <1>2
  <1> QED BY <1>2, <1>3

(* The function that begins with first and goes on with step.                 *)
Iterates(f, first, step) ==
    /\ f[0] = first
    /\ \A n \in Nat : f[n + 1] = step[<<n, f[n]>>]

LEMMA Iteration ==
    ASSUME NEW V, NEW first \in V, NEW step \in [Nat \X V -> V]
    PROVE  \E f \in [Nat -> V] : Iterates(f, first, step)
  <1> DEFINE Begins(n, g) == /\ g[0] = first
                             /\ \A k \in 0 .. n : k < n => g[k + 1] = step[<<k, g[k]>>]
             T == {n \in Nat : \E g \in [0..n -> V] : Begins(n, g)}
  <1>1. 0 \in T
    <2>1. [k \in 0..0 |-> first] \in [0..0 -> V] /\ Begins(0, [k \in 0..0 |-> first])
      OBVIOUS
    <2> QED BY <2>1
  <1>2. ASSUME NEW n \in Nat, n \in T PROVE n + 1 \in T
    <2>1. PICK g \in [0..n -> V] : Begins(n, g)
      BY <1>2
    <2>2. PICK v \in V : v = step[<<n, g[n]>>]
      OBVIOUS
    <2> DEFINE h == [k \in 0 .. n + 1 |-> IF k = n + 1 THEN v ELSE g[k]]
    <2>3. h \in [0 .. n + 1 -> V]
      OBVIOUS
    <2>4. \A k \in 0..n : h[k] = g[k]
      OBVIOUS
    <2>5. h[n + 1] = v
      OBVIOUS
    <2> HIDE DEF h
    <2>6. ASSUME NEW k \in 0 .. n + 1, k < n + 1 PROVE h[k + 1] = step[<<k, h[k]>>]
      <3>1. k \in 0..n /\ (k = n \/ k < n)
        BY <2>6
      <3>2. CASE k = n
        BY <2>2, <2>4, <2>5, <3>1, <3>2
      <3>3. CASE k < n
        <4>1. k + 1 \in 0..n
          BY <3>1, <3>3
        <4> QED BY <2>1, <2>4, <3>1, <3>3, <4>1
      <3> QED BY <3>1, <3>2, <3>3
    <2>7. h[0] = first
      BY <2>1, <2>4
    <2>8. Begins(n + 1, h)
      BY <2>6, <2>7
    <2> HIDE DEF Begins
    <2> QED BY <2>3, <2>8
  <1>3. Nat \subseteq T
    <2> HIDE DEF T
    <2> QED BY <1>1, <1>2, Induction
  <1>4. ASSUME NEW n \in Nat, NEW m \in Nat, n <= m,
               NEW g \in [0..n -> V], Begins(n, g), NEW h \in [0..m -> V], Begins(m, h)
        PROVE  g[n] = h[n]
    <2> DEFINE U == {k \in Nat : k <= n => g[k] = h[k]}
    <2>1. 0 \in U
      BY <1>4
    <2>2. ASSUME NEW k \in Nat, k \in U PROVE k + 1 \in U
      <3> SUFFICES ASSUME k + 1 <= n PROVE g[k + 1] = h[k + 1]
        OBVIOUS
      <3>1. k \in 0..n /\ k < n /\ k \in 0..m /\ k < m /\ g[k] = h[k]
        BY <1>4, <2>2
      <3>2. g[k + 1] = step[<<k, g[k]>>] /\ h[k + 1] = step[<<k, h[k]>>]
        BY <1>4, <3>1
      <3> QED BY <3>1, <3>2
    <2>3. Nat \subseteq U
      <3> HIDE DEF U
      <3> QED BY <2>1, <2>2, Induction
    <2> QED BY <2>3
  <1> DEFINE start(n) == CHOOSE g \in [0..n -> V] : Begins(n, g)
             f == [n \in Nat |-> start(n)[n]]
  <1>5. \A n \in Nat : start(n) \in [0..n -> V] /\ Begins(n, start(n))
    <2> HIDE DEF Begins
    <2>1. \A n \in Nat : \E g \in [0..n -> V] : Begins(n, g)
      BY <1>3
    <2> QED BY <2>1
  <1> HIDE DEF start, T
  <1>6. f \in [Nat -> V]
    BY <1>5
  <1>7. f[0] = first
    BY <1>5
  <1>8. ASSUME NEW n \in Nat PROVE f[n + 1] = step[<<n, f[n]>>]
    <2>1. start(n)[n] = start(n + 1)[n]
      <3>1. /\ start(n) \in [0..n -> V] /\ Begins(n, start(n))
            /\ start(n + 1) \in [0 .. n + 1 -> V] /\ Begins(n + 1, start(n + 1))
        BY <1>5
      <3> HIDE DEF Begins
      <3> QED BY <1>4, <3>1
    <2>2. start(n + 1)[n + 1] = step[<<n, start(n + 1)[n]>>]
      <3>1. Begins(n + 1, start(n + 1))
        BY <1>5
      <3> QED BY <3>1
    <2> QED BY <2>1, <2>2
  <1> HIDE DEF f
  <1>9. Iterates(f, first, step)
    BY <1>7, <1>8 DEF Iterates
  <1> QED BY <1>6, <1>9
=============================================================================
