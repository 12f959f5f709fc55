----------------------------- MODULE Induction -----------------------------
(***************************************************************************)
(* Induction over the natural numbers, stated for a set of numbers, and    *)
(* what follows for functions that are defined step by step.  Both are     *)
(* drawn from the well-foundedness of < on the naturals.                   *)
(***************************************************************************)
EXTENDS Integers, WellFoundedInduction, TLAPS

(* A set of naturals that is not empty has a least element.                *)
LEMMA Least ==
  ASSUME NEW T \in SUBSET Nat, T # {}
  PROVE  \E n \in T : \A m \in T : n <= m
<1> DEFINE R == {ss \in Nat \X Nat : ss[1] < ss[2]}
<1>1. IsWellFoundedOn(R, Nat)
  BY NatLessThanWellFounded DEF OpToRel
<1>2. \A m, n \in Nat : m < n => <<m, n>> \in R
  OBVIOUS
<1> HIDE DEF R
<1>3. PICK n \in T : \A m \in T : ~ (<<m, n>> \in R)
  BY <1>1, WFMin
<1>4. \A m \in T : ~ (m < n)
  BY <1>2, <1>3
<1> QED BY <1>3, <1>4

(* A set that has 0, and n + 1 with every n, has every natural number.     *)
LEMMA Induct ==
  ASSUME NEW T \in SUBSET Nat, 0 \in T, \A n \in T : n + 1 \in T
  PROVE  T = Nat
<1>1. SUFFICES ASSUME Nat \ T # {} PROVE FALSE
  OBVIOUS
<1>2. PICK n \in Nat \ T : \A m \in Nat \ T : n <= m
  BY <1>1, Least
<1>3. n # 0 /\ n - 1 \in Nat /\ n - 1 \notin Nat \ T
  BY <1>2
<1> QED BY <1>2, <1>3

(* A function on the naturals is defined by a first value and a step.      *)
IsIteration(f, S, first, step) ==
  f \in [Nat -> S] /\ f[0] = first /\ \A n \in Nat : f[n + 1] = step[n][f[n]]

(* There is a function for every first value and every step.               *)
LEMMA Iteration ==
  ASSUME NEW S, NEW first \in S, NEW step \in [Nat -> [S -> S]]
  PROVE  \E f : IsIteration(f, S, first, step)
<1> DEFINE Upto(n, g) == g \in [0 .. n -> S] /\ g[0] = first /\ \A k \in 0 .. n - 1 : g[k + 1] = step[k][g[k]]
           T == {n \in Nat : \E g \in [0 .. n -> S] : Upto(n, g)}
           U == {n \in Nat : \A g, h \in [0 .. n -> S] : Upto(n, g) /\ Upto(n, h) => g[n] = h[n]}
<1>1. T = Nat
  <2>1. 0 \in T
    <3>1. Upto(0, [k \in 0 .. 0 |-> first])
      OBVIOUS
    <3> QED BY <3>1
  <2>2. ASSUME NEW n \in T PROVE n + 1 \in T
    <3>1. PICK g \in [0 .. n -> S] : Upto(n, g)
      OBVIOUS
    <3> DEFINE h == [k \in 0 .. n + 1 |-> IF k = n + 1 THEN step[n][g[n]] ELSE g[k]]
    <3>2. n \in Nat /\ n \in 0 .. n /\ g[n] \in S /\ step[n][g[n]] \in S
      BY <3>1
    <3>3. h \in [0 .. n + 1 -> S]
      BY <3>1, <3>2
    <3>4. h[0] = first
      BY <3>1, <3>2
    <3>5. ASSUME NEW k \in 0 .. n PROVE h[k + 1] = step[k][h[k]]
      <4>1. h[n] = g[n] /\ h[n + 1] = step[n][g[n]]
        BY <3>2
      <4>2. CASE k = n
        BY <4>1, <4>2
      <4>3. CASE k # n
        <5>1. k \in 0 .. n - 1 /\ k + 1 \in 0 .. n /\ k + 1 # n + 1
          BY <3>2, <4>3
        <5>2. h[k] = g[k] /\ h[k + 1] = g[k + 1]
          BY <3>2, <4>3, <5>1
        <5> QED BY <3>1, <5>1, <5>2
      <4> QED BY <4>2, <4>3
    <3>6. Upto(n + 1, h)
      <4>1. (n + 1) - 1 = n BY <3>2
      <4> QED BY <3>3, <3>4, <3>5, <4>1
    <3>7. n + 1 \in Nat BY <3>2
    <3> HIDE DEF Upto, h
    <3> QED BY <3>3, <3>6, <3>7
  <2> HIDE DEF T
  <2>3. T \in SUBSET Nat BY DEF T
  <2> QED BY <2>1, <2>2, <2>3, Induct
<1>2. U = Nat
  <2>1. 0 \in U
    OBVIOUS
  <2>2. ASSUME NEW n \in U PROVE n + 1 \in U
    <3> SUFFICES ASSUME NEW g \in [0 .. n + 1 -> S], NEW h \in [0 .. n + 1 -> S],
                        Upto(n + 1, g), Upto(n + 1, h)
                 PROVE  g[n + 1] = h[n + 1]
      <4>1. n \in Nat /\ n + 1 \in Nat
        OBVIOUS
      <4> HIDE DEF Upto
      <4> QED BY <4>1
    <3> DEFINE g0 == [k \in 0 .. n |-> g[k]]  h0 == [k \in 0 .. n |-> h[k]]
    <3>1. n \in Nat /\ g0 \in [0 .. n -> S] /\ h0 \in [0 .. n -> S]
      OBVIOUS
    <3>2. Upto(n, g0) /\ Upto(n, h0)
      BY <3>1
    <3>3. g0[n] = h0[n]
      BY <3>1, <3>2
    <3>4. g[n] = h[n]
      BY <3>1, <3>3
    <3>5. g[n + 1] = step[n][g[n]] /\ h[n + 1] = step[n][h[n]]
      BY <3>1
    <3> QED BY <3>4, <3>5
  <2> HIDE DEF U
  <2>3. U \in SUBSET Nat BY DEF U
  <2> QED BY <2>1, <2>2, <2>3, Induct
<1> DEFINE G(n) == CHOOSE g \in [0 .. n -> S] : Upto(n, g)
           f == [n \in Nat |-> G(n)[n]]
<1>3. ASSUME NEW n \in Nat PROVE G(n) \in [0 .. n -> S] /\ Upto(n, G(n))
  <2>1. n \in T BY <1>1
  <2>2. \E g \in [0 .. n -> S] : Upto(n, g) BY <2>1
  <2> HIDE DEF Upto
  <2> QED BY <2>2
<1> HIDE DEF G
<1>4. f \in [Nat -> S]
  BY <1>3
<1>5. f[0] = first
  BY <1>3
<1>6. ASSUME NEW n \in Nat PROVE f[n + 1] = step[n][f[n]]
  <2> DEFINE g == G(n + 1)  g0 == [k \in 0 .. n |-> g[k]]
  <2>1. g \in [0 .. n + 1 -> S] /\ Upto(n + 1, g)
    BY <1>3
  <2>2. g0 \in [0 .. n -> S] /\ Upto(n, g0)
    BY <2>1
  <2>3. n \in U BY <1>2
  <2>4. G(n) \in [0 .. n -> S] /\ Upto(n, G(n)) BY <1>3
  <2>5. g0[n] = G(n)[n]
    BY <2>2, <2>3, <2>4
  <2>6. g[n + 1] = step[n][g[n]]
    BY <2>1
  <2> QED BY <2>5, <2>6
<1> QED BY <1>4, <1>5, <1>6 DEF IsIteration
=============================================================================
