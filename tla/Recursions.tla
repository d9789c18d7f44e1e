---------------------------- MODULE Recursions -----------------------------
(***************************************************************************)
(* Induction over the natural numbers, and the existence of functions      *)
(* defined by recursion on them.  The facts are about sets and functions   *)
(* and not about operators, so that a proof can cite them.                 *)
(***************************************************************************)
EXTENDS Naturals, WellFoundedInduction, TLAPS

\* A set that holds 0 and, with every number, the next one holds them all:
\* otherwise there is a least number that it does not hold.
LEMMA Induction ==
  ASSUME NEW S, 0 \in S, \A n \in Nat : n \in S => n + 1 \in S
  PROVE  Nat \subseteq S
<1> DEFINE R == {ss \in Nat \X Nat : ss[1] < ss[2]}
           T == Nat \ S
<1>1. IsWellFoundedOn(R, Nat)
  BY NatLessThanWellFounded, Zenon DEF OpToRel
<1> SUFFICES ASSUME T # {} PROVE FALSE
  OBVIOUS
<1>2. PICK x \in T : \A y \in T : ~(<<y, x>> \in R)
  <2>1. T \subseteq Nat
    OBVIOUS
  <2> HIDE DEF R, T
  <2> QED BY <1>1, <2>1, WFMin
<1>3. PICK y \in Nat : x = y + 1
  <2>1. x \in Nat /\ x # 0
    OBVIOUS
  <2> QED BY <2>1
<1>4. <<y, x>> \in R
  BY <1>3
<1>5. y \in S
  BY <1>2, <1>3, <1>4
<1> QED BY <1>3, <1>5

\* The same up to a bound.
LEMMA BoundedInduction ==
  ASSUME NEW N \in Nat, NEW S, 0 \in S, \A r \in 1 .. N : r - 1 \in S => r \in S
  PROVE  0 .. N \subseteq S
<1> DEFINE T == {n \in Nat : n <= N => n \in S}
<1>1. 0 \in T
  OBVIOUS
<1>2. ASSUME NEW n \in Nat, n \in T PROVE n + 1 \in T
  <2>1. CASE n + 1 <= N
    <3>1. n + 1 \in 1 .. N /\ (n + 1) - 1 = n /\ n \in S
      BY <1>2, <2>1
    <3> QED BY <2>1, <3>1
  <2>2. CASE ~(n + 1 <= N)
    BY <2>2
  <2> QED BY <2>1, <2>2
<1>3. Nat \subseteq T
  <2> HIDE DEF T
  <2> QED BY <1>1, <1>2, Induction
<1> QED BY <1>3

-----------------------------------------------------------------------------
(* Recursion                                                               *)

\* g is a and then, at r, what h[r] makes of the value before.
Recurs(g, n, a, h) == g[0] = a /\ \A r \in 1 .. n : g[r] = h[r][g[r - 1]]

\* A recursion of n steps has a result after each of them ...
LEMMA RecursionExists ==
  ASSUME NEW V, NEW a \in V, NEW n \in Nat, NEW h \in [1 .. n -> [V -> V]]
  PROVE  \E g \in [0 .. n -> V] : Recurs(g, n, a, h)
<1> DEFINE S == {k \in 0 .. n : \E g \in [0 .. k -> V] : Recurs(g, k, a, h)}
<1>1. 0 \in S
  <2> DEFINE g == [k \in 0 .. 0 |-> a]
  <2>1. g \in [0 .. 0 -> V] /\ Recurs(g, 0, a, h)
    BY DEF Recurs
  <2> QED BY <2>1
<1>2. ASSUME NEW r \in 1 .. n, r - 1 \in S PROVE r \in S
  <2>1. PICK f \in [0 .. r - 1 -> V] : Recurs(f, r - 1, a, h)
    BY <1>2
  <2> DEFINE g == [k \in 0 .. r |-> IF k = r THEN h[r][f[r - 1]] ELSE f[k]]
  <2>2. r - 1 \in 0 .. r - 1 /\ 0 \in 0 .. r - 1
    OBVIOUS
  <2>3. h[r][f[r - 1]] \in V
    BY <2>2
  <2>4. g \in [0 .. r -> V]
    BY <2>3
  <2>5. g[0] = a
    BY <2>1 DEF Recurs
  <2>6. ASSUME NEW k \in 1 .. r PROVE g[k] = h[k][g[k - 1]]
    <3>0. k - 1 \in 0 .. r - 1 /\ k - 1 # r /\ g[k - 1] = f[k - 1]
      OBVIOUS
    <3>1. CASE k = r
      BY <3>0, <3>1
    <3>2. CASE k # r
      <4>1. k \in 1 .. r - 1 /\ g[k] = f[k]
        BY <3>2
      <4>2. f[k] = h[k][f[k - 1]]
        BY <2>1, <4>1 DEF Recurs
      <4> QED BY <3>0, <4>1, <4>2
    <3> QED BY <3>1, <3>2
  <2> HIDE DEF g
  <2>7. Recurs(g, r, a, h)
    BY <2>5, <2>6 DEF Recurs
  <2> QED BY <2>4, <2>7
<1>3. 0 .. n \subseteq S
  <2> HIDE DEF S
  <2> QED BY <1>1, <1>2, BoundedInduction
<1>4. n \in S
  BY <1>3
<1> QED BY <1>4

\* ... and only one.
LEMMA RecursionUnique ==
  ASSUME NEW n \in Nat, NEW a, NEW h, NEW f, NEW g,
         Recurs(f, n, a, h), Recurs(g, n, a, h)
  PROVE  \A r \in 0 .. n : f[r] = g[r]
<1> DEFINE S == {r \in 0 .. n : f[r] = g[r]}
<1>1. 0 \in S
  BY DEF Recurs
<1>2. ASSUME NEW r \in 1 .. n, r - 1 \in S PROVE r \in S
  BY <1>2 DEF Recurs
<1>3. 0 .. n \subseteq S
  <2> HIDE DEF S
  <2> QED BY <1>1, <1>2, BoundedInduction
<1> QED BY <1>3

\* So a recursion that never stops has a result after each step as well.
LEMMA RecursionOnNat ==
  ASSUME NEW V, NEW a \in V, NEW h \in [Nat \ {0} -> [V -> V]]
  PROVE  \E g \in [Nat -> V] : \A n \in Nat : Recurs(g, n, a, h)
<1> DEFINE Upto(n) == CHOOSE g \in [0 .. n -> V] : Recurs(g, n, a, h)
           g == [n \in Nat |-> Upto(n)[n]]
<1>1. ASSUME NEW n \in Nat
      PROVE  Upto(n) \in [0 .. n -> V] /\ Recurs(Upto(n), n, a, h)
  <2> DEFINE hn == [r \in 1 .. n |-> h[r]]
  <2>1. hn \in [1 .. n -> [V -> V]]
    OBVIOUS
  <2>2. \E f \in [0 .. n -> V] : Recurs(f, n, a, hn)
    <3> HIDE DEF hn
    <3> QED BY <2>1, RecursionExists
  <2>3. \E f \in [0 .. n -> V] : Recurs(f, n, a, h)
    BY <2>2 DEF Recurs
  <2> QED BY <2>3, Zenon
<1> HIDE DEF Upto
<1>2. g \in [Nat -> V]
  <2>1. \A n \in Nat : Upto(n)[n] \in V
    BY <1>1
  <2> QED BY <2>1
<1>3. g[0] = a
  BY <1>1 DEF Recurs
<1>4. ASSUME NEW r \in Nat \ {0} PROVE g[r] = h[r][g[r - 1]]
  <2>0. r - 1 \in Nat /\ r \in Nat
    OBVIOUS
  <2>1. Recurs(Upto(r), r, a, h) /\ Recurs(Upto(r - 1), r - 1, a, h)
    BY <1>1, <2>0
  <2>2. Recurs(Upto(r), r - 1, a, h)
    BY <2>0, <2>1 DEF Recurs
  <2>3. \A k \in 0 .. r - 1 : Upto(r)[k] = Upto(r - 1)[k]
    BY <2>0, <2>1, <2>2, RecursionUnique
  <2>4. Upto(r)[r - 1] = Upto(r - 1)[r - 1]
    BY <2>0, <2>3
  <2>5. Upto(r)[r] = h[r][Upto(r)[r - 1]]
    BY <2>0, <2>1 DEF Recurs
  <2> QED BY <2>0, <2>4, <2>5
<1> HIDE DEF g
<1>5. \A n \in Nat : Recurs(g, n, a, h)
  BY <1>3, <1>4 DEF Recurs
<1> QED BY <1>2, <1>5

=============================================================================
