------------------------------ MODULE Induction ------------------------------
(***************************************************************************)
(* Induction in a form the provers take: not over an operator, as in the   *)
(* library's theorems, but over a set of numbers.                          *)
(***************************************************************************)
EXTENDS Integers, WellFoundedInduction, TLAPS

\* Every set of natural numbers but the empty one has a least element.
LEMMA LeastElement ==
    ASSUME NEW T, T \subseteq Nat, T # {}
    PROVE  \E x \in T : \A y \in T : x <= y
<1> DEFINE R == {ss \in Nat \X Nat : ss[1] < ss[2]}
<1>1. IsWellFoundedOn(R, Nat)
  BY NatLessThanWellFounded DEF OpToRel
<1>2. PICK x \in T : \A y \in T : ~(<<y, x>> \in R)
  <2> HIDE DEF R
  <2> QED BY <1>1, WFMin
<1>3. ASSUME NEW y \in T PROVE x <= y
  <2>1. x \in Nat /\ y \in Nat
    OBVIOUS
  <2>2. y < x => <<y, x>> \in R
    BY <2>1
  <2> QED BY <1>2, <2>1, <2>2
<1> QED BY <1>3

\* A set that has 0 and the successor of every number it has, has them all.
LEMMA SetInduction ==
    ASSUME NEW S, 0 \in S, \A n \in Nat : n \in S => n + 1 \in S
    PROVE  Nat \subseteq S
<1> DEFINE T == {n \in Nat : n \notin S}
<1> SUFFICES ASSUME T # {} PROVE FALSE
  OBVIOUS
<1>1. PICK x \in T : \A y \in T : x <= y
  BY LeastElement
<1>2. x # 0 /\ x \in Nat
  OBVIOUS
<1>3. x - 1 \in Nat /\ x - 1 \notin T
  BY <1>1, <1>2
<1> QED BY <1>2, <1>3

\* The same over the first numbers only.
LEMMA BoundedInduction ==
    ASSUME NEW N \in Nat, NEW S, 0 \in S, \A n \in 1..N : n - 1 \in S => n \in S
    PROVE  0..N \subseteq S
<1> DEFINE T == {n \in 0..N : n \notin S}
<1> SUFFICES ASSUME T # {} PROVE FALSE
  OBVIOUS
<1>1. PICK x \in T : \A y \in T : x <= y
  <2>1. T \subseteq Nat
    OBVIOUS
  <2> HIDE DEF T
  <2> QED BY <2>1, LeastElement
<1>2. x # 0 /\ x \in 1..N
  OBVIOUS
<1>3. x - 1 \in 0..N /\ x - 1 \notin T
  BY <1>1, <1>2
<1> QED BY <1>2, <1>3

\* A function of the numbers up to N, from its first value and the step to
\* the next one.
Steps(S) == [S \X Nat -> S]
Follows(f, S, first, F, N) ==
    f \in [0..N -> S] /\ f[0] = first /\ \A n \in 1..N : f[n] = F[<<f[n - 1], n - 1>>]

LEMMA BoundedRecursion ==
    ASSUME NEW S, NEW first \in S, NEW F \in Steps(S), NEW N \in Nat
    PROVE  \E f : Follows(f, S, first, F, N)
<1> DEFINE T == {m \in Nat : \E f : Follows(f, S, first, F, m)}
<1>1. 0 \in T
  <2>1. Follows([n \in 0..0 |-> first], S, first, F, 0)
    BY DEF Follows
  <2> QED BY <2>1
<1>2. ASSUME NEW m \in Nat, m \in T PROVE m + 1 \in T
  <2>1. PICK f : Follows(f, S, first, F, m)
    BY <1>2
  <2>2. /\ f \in [0..m -> S] /\ f[0] = first
        /\ \A n \in 1..m : f[n] = F[<<f[n - 1], n - 1>>]
    BY <2>1 DEF Follows
  <2> DEFINE next == F[<<f[m], m>>]
             g == [n \in 0..m + 1 |-> IF n = m + 1 THEN next ELSE f[n]]
  <2>3. next \in S
    <3>1. <<f[m], m>> \in S \X Nat
      BY <2>2
    <3> QED BY <3>1 DEF Steps
  <2> HIDE DEF next
  <2>4. g \in [0..m + 1 -> S] /\ g[0] = first
    BY <2>2, <2>3
  <2>5. ASSUME NEW n \in 1..m + 1 PROVE g[n] = F[<<g[n - 1], n - 1>>]
    <3>1. g[n - 1] = f[n - 1]
      OBVIOUS
    <3>2. CASE n = m + 1
      <4>1. n - 1 = m /\ g[n] = next
        BY <3>2
      <4> HIDE DEF g
      <4> QED BY <3>1, <4>1 DEF next
    <3>3. CASE n # m + 1
      <4>1. n \in 1..m /\ g[n] = f[n]
        BY <3>3
      <4> HIDE DEF g
      <4> QED BY <2>2, <3>1, <4>1
    <3> QED BY <3>2, <3>3
  <2>6. Follows(g, S, first, F, m + 1)
    <3> HIDE DEF g
    <3> QED BY <2>4, <2>5 DEF Follows
  <2> QED BY <2>6
<1>3. Nat \subseteq T
  <2> HIDE DEF T
  <2> QED BY <1>1, <1>2, SetInduction
<1>4. N \in T
  <2> HIDE DEF T
  <2> QED BY <1>3
<1> QED BY <1>4
=============================================================================
