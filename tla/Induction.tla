----------------------------- MODULE Induction -----------------------------
(***************************************************************************)
(* Induction over the numbers, without a predicate as a parameter: of sets  *)
(* of numbers, and of the turns of a loop.                                  *)
(***************************************************************************)
EXTENDS Integers, WellFoundedInduction, TLAPS

(* A set of numbers that is not empty has a least one.                      *)
LEMMA LeastOf ==
  ASSUME NEW T, T \subseteq Nat, T # {}
  PROVE  \E i \in T : \A j \in T : i <= j
<1> DEFINE R == {ss \in Nat \X Nat : ss[1] < ss[2]}
<1>1. IsWellFoundedOn(R, Nat)
  BY NatLessThanWellFounded DEF OpToRel
<1>2. PICK i \in T : \A j \in T : ~ (<<j, i>> \in R)
  <2> HIDE DEF R
  <2> QED
    BY <1>1, WFMin
<1>3. ASSUME NEW j \in T PROVE i <= j
  <2>1. i \in Nat /\ j \in Nat
    OBVIOUS
  <2>2. j < i => <<j, i>> \in R
    BY <2>1
  <2> QED
    BY <1>2, <2>1, <2>2
<1> QED
  BY <1>2, <1>3

(* Induction, over a set of numbers.                                       *)
LEMMA AllNumbers ==
  ASSUME NEW T, 0 \in T, \A n \in Nat : n \in T => n + 1 \in T
  PROVE  Nat \subseteq T
<1> SUFFICES ASSUME ~(Nat \subseteq T) PROVE FALSE
  OBVIOUS
<1>1. PICK U : U = Nat \ T
  OBVIOUS
<1>2. U \subseteq Nat /\ U # {}
  BY <1>1
<1>3. PICK k \in U : \A j \in U : k <= j
  BY <1>2, LeastOf
<1>4. k \in Nat /\ k \notin T /\ k # 0
  BY <1>1
<1>5. PICK j \in Nat : k = j + 1
  <2>1. k - 1 \in Nat /\ k = (k - 1) + 1
    BY <1>4
  <2> QED
    BY <2>1
<1>6. j \in U
  BY <1>1, <1>4, <1>5
<1> QED
  BY <1>3, <1>5, <1>6

(* A value and a step for each number define a function: the first turns   *)
(* of a loop, for any number of them.                                      *)
Turns(S, base, step, k, g) ==
  /\ g \in [0..k -> S] /\ g[0] = base
  /\ \A n \in 0..(k - 1) : g[n + 1] = step[n][g[n]]

Loops(S, base, step, f) ==
  f \in [Nat -> S] /\ f[0] = base /\ \A n \in Nat : f[n + 1] = step[n][f[n]]

LEMMA Recursion ==
  ASSUME NEW S, NEW base \in S, NEW step \in [Nat -> [S -> S]]
  PROVE  \E f : Loops(S, base, step, f)
<1> DEFINE Partial(k, g) == Turns(S, base, step, k, g)
<1>1. \A k \in Nat : \E g : Partial(k, g)
  <2> DEFINE T == {k \in Nat : \E g : Partial(k, g)}
  <2>1. 0 \in T
    <3>1. Partial(0, [n \in 0..0 |-> base])
      BY DEF Turns
    <3> QED
      BY <3>1
  <2>2. ASSUME NEW k \in T PROVE k + 1 \in T
    <3>1. PICK g : Partial(k, g)
      OBVIOUS
    <3>2. PICK last \in S : last = step[k][g[k]]
      BY <3>1 DEF Turns
    <3>3. PICK h : h = [n \in 0..(k + 1) |-> IF n = k + 1 THEN last ELSE g[n]]
      OBVIOUS
    <3>4. h \in [0..(k + 1) -> S] /\ h[0] = base
      BY <3>1, <3>3 DEF Turns
    <3>5. ASSUME NEW n \in 0..((k + 1) - 1) PROVE h[n + 1] = step[n][h[n]]
      <4>1. CASE n = k
        BY <3>2, <3>3, <4>1
      <4>2. CASE n # k
        <5>1. n \in 0..(k - 1) /\ h[n] = g[n] /\ h[n + 1] = g[n + 1]
          BY <3>3, <4>2
        <5> QED
          BY <3>1, <5>1 DEF Turns
      <4> QED
        BY <4>1, <4>2
    <3>6. Partial(k + 1, h)
      BY <3>4, <3>5 DEF Turns
    <3> QED
      BY <3>6
  <2>3. Nat \subseteq T
    <3> HIDE DEF T
    <3> QED
      BY <2>1, <2>2, AllNumbers
  <2> QED
    BY <2>3
<1> DEFINE F == [k \in Nat |-> CHOOSE g : Partial(k, g)]
<1>2. \A k \in Nat : Partial(k, F[k])
  <2>1. ASSUME NEW k \in Nat PROVE Partial(k, CHOOSE g : Partial(k, g))
    <3> HIDE DEF Partial
    <3> QED
      BY <1>1
  <2> QED
    BY <2>1
<1> HIDE DEF F
<1>3. ASSUME NEW k \in Nat PROVE F[k + 1][k] = F[k][k]
  <2> DEFINE T == {n \in Nat : n <= k => F[k + 1][n] = F[k][n]}
  <2>1. Partial(k, F[k]) /\ Partial(k + 1, F[k + 1])
    BY <1>2
  <2>2. 0 \in T
    BY <2>1 DEF Turns
  <2>3. ASSUME NEW n \in T PROVE n + 1 \in T
    <3>1. SUFFICES ASSUME n + 1 <= k PROVE F[k + 1][n + 1] = F[k][n + 1]
      OBVIOUS
    <3>2. n \in 0..(k - 1) /\ n \in 0..((k + 1) - 1) /\ F[k + 1][n] = F[k][n]
      BY <3>1
    <3> QED
      BY <2>1, <3>2 DEF Turns
  <2>4. Nat \subseteq T
    <3> HIDE DEF T
    <3> QED
      BY <2>2, <2>3, AllNumbers
  <2> QED
    BY <2>4
<1> DEFINE f == [k \in Nat |-> F[k][k]]
<1>4. f \in [Nat -> S] /\ f[0] = base
  BY <1>2 DEF Turns
<1>5. ASSUME NEW n \in Nat PROVE f[n + 1] = step[n][f[n]]
  <2>1. F[n + 1][n + 1] = step[n][F[n + 1][n]]
    <3>1. n \in 0..((n + 1) - 1)
      OBVIOUS
    <3> QED
      BY <1>2, <3>1 DEF Turns
  <2> QED
    BY <1>3, <2>1
<1>6. Loops(S, base, step, f)
  BY <1>4, <1>5 DEF Loops
<1> QED
  BY <1>6
=============================================================================
