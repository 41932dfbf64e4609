---------------------------- MODULE SetInduction ----------------------------
(***************************************************************************)
(* Induction over the natural numbers for sets instead of predicates, and  *)
(* recursion for functions instead of operators, so that they can be cited *)
(* with a set or a function that a proof defines.                          *)
(***************************************************************************)
EXTENDS Integers, WellFoundedInduction, TLAPS

\* A set with 0 in it, and with each number the next one, has all of them.
LEMMA SetInduction ==
  ASSUME NEW S, 0 \in S, \A n \in Nat : n \in S => n + 1 \in S
  PROVE  Nat \subseteq S
<1> DEFINE T == Nat \ S
<1> SUFFICES ASSUME T # {} PROVE FALSE
  OBVIOUS
<1>1. PICK x \in T : \A y \in T : ~(<<y, x>> \in OpToRel(<, Nat))
  BY NatLessThanWellFounded, WFMin, T \subseteq Nat, Zenon
<1>2. x \in Nat /\ x # 0 /\ x \notin S
  OBVIOUS
<1>3. x - 1 \in Nat /\ x - 1 < x
  BY <1>2
<1>4. <<x - 1, x>> \in OpToRel(<, Nat)
  BY <1>2, <1>3 DEF OpToRel
<1>5. x - 1 \in S
  BY <1>1, <1>3, <1>4
<1> QED
  BY <1>2, <1>3, <1>5

\* A set of natural numbers that is not empty has a least one.
LEMMA LeastExists ==
  ASSUME NEW T, T \subseteq Nat, T # {}
  PROVE  \E x \in T : \A y \in T : x <= y
<1>1. PICK x \in T : \A y \in T : ~(<<y, x>> \in OpToRel(<, Nat))
  BY NatLessThanWellFounded, WFMin, Zenon
<1>2. ASSUME NEW y \in T PROVE x <= y
  <2>1. x \in Nat /\ y \in Nat
    OBVIOUS
  <2>2. y < x => <<y, x>> \in OpToRel(<, Nat)
    BY <2>1 DEF OpToRel
  <2>3. ~(y < x)
    BY <1>1, <2>2, Zenon
  <2> QED
    BY <2>1, <2>3
<1> QED
  BY <1>2

\* f is defined from its value at 0 and by a step to each of 1 .. N.
Recursive(f, N, base, step) ==
  f[0] = base /\ \A n \in 1 .. N : f[n] = step[<<n, f[n - 1]>>]

\* There are functions defined so.
LEMMA Recursion ==
  ASSUME NEW N \in Nat, NEW V, NEW base \in V, NEW step \in [(1 .. N) \X V -> V]
  PROVE  \E f \in [0 .. N -> V] : Recursive(f, N, base, step)
<1> USE DEF Recursive
<1> DEFINE Defines(f, m) == f \in [0 .. m -> V] /\ Recursive(f, m, base, step)
           S == {m \in Nat : m <= N => \E f : Defines(f, m)}
<1>1. 0 \in S
  <2> DEFINE f == [n \in 0 .. 0 |-> base]
  <2>1. Defines(f, 0)
    OBVIOUS
  <2> QED
    BY <2>1
<1>2. ASSUME NEW m \in Nat, m \in S PROVE m + 1 \in S
  <2> SUFFICES ASSUME m + 1 <= N PROVE \E g : Defines(g, m + 1)
    OBVIOUS
  <2>1. PICK f : Defines(f, m)
    BY <1>2
  <2> DEFINE last == step[<<m + 1, f[m]>>]
             g == [n \in 0 .. m + 1 |-> IF n = m + 1 THEN last ELSE f[n]]
  <2>2. last \in V
    BY <2>1
  <2>3. g \in [0 .. m + 1 -> V]
    <3> HIDE DEF last
    <3> QED
      BY <2>1, <2>2
  <2>4. g[0] = base
    BY <2>1
  <2>5. ASSUME NEW n \in 1 .. m + 1
        PROVE  g[n] = step[<<n, g[n - 1]>>]
    <3>1. CASE n = m + 1
      <4>1. n - 1 \in 0 .. m /\ n - 1 # m + 1 /\ n - 1 = m
        BY <3>1
      <4>2. g[n] = last /\ g[n - 1] = f[m]
        BY <3>1, <4>1
      <4> HIDE DEF g
      <4> QED
        BY <3>1, <4>1, <4>2
    <3>2. CASE n \in 1 .. m
      <4>1. g[n] = f[n] /\ g[n - 1] = f[n - 1]
        BY <3>2
      <4> HIDE DEF g
      <4> QED
        BY <2>1, <3>2, <4>1
    <3> QED
      BY <3>1, <3>2
  <2>6. Defines(g, m + 1)
    BY <2>3, <2>4, <2>5
  <2> QED
    BY <2>6
<1>3. Nat \subseteq S
  <2> HIDE DEF S
  <2> QED
    BY <1>1, <1>2, SetInduction
<1>4. \E f : Defines(f, N)
  BY <1>3
<1> QED
  BY <1>4

-----------------------------------------------------------------------------
(* Division *)

\* A number has a quotient and a remainder.
LEMMA Division ==
  ASSUME NEW c \in Nat \ {0}, NEW a \in Nat
  PROVE  \E q \in Nat, r \in 0 .. c - 1 : a = c * q + r
<1> DEFINE S == {n \in Nat : \E q \in Nat, r \in 0 .. c - 1 : n = c * q + r}
<1>1. 0 \in S
  <2>1. 0 = c * 0 + 0 /\ 0 \in 0 .. c - 1
    OBVIOUS
  <2> QED
    BY <2>1
<1>2. ASSUME NEW n \in Nat, n \in S PROVE n + 1 \in S
  <2>1. PICK q \in Nat, r \in 0 .. c - 1 : n = c * q + r
    BY <1>2
  <2>2. CASE r + 1 < c
    <3>1. n + 1 = c * q + (r + 1) /\ r + 1 \in 0 .. c - 1
      BY <2>1, <2>2
    <3> QED
      BY <3>1
  <2>3. CASE r + 1 = c
    <3> DEFINE p == q + 1
    <3>1. n + 1 = c * p + 0 /\ 0 \in 0 .. c - 1 /\ p \in Nat
      BY <2>1, <2>3
    <3> HIDE DEF p
    <3> QED
      BY <3>1
  <2>4. r + 1 < c \/ r + 1 = c
    OBVIOUS
  <2> HIDE DEF S
  <2> QED
    BY <2>2, <2>3, <2>4
<1>3. Nat \subseteq S
  <2> HIDE DEF S
  <2> QED
    BY <1>1, <1>2, SetInduction
<1> QED
  BY <1>3

\* The remainder is what % gives.
LEMMA Modulus ==
  ASSUME NEW c \in Nat \ {0}, NEW q \in Nat, NEW r \in 0 .. c - 1
  PROVE  (c * q + r) % c = r
<1> DEFINE a == c * q + r
<1>1. a \in Int /\ a = c * q + r
  OBVIOUS
<1> HIDE DEF a
<1>2. a % c = r
  BY <1>1
<1> QED
  BY <1>2 DEF a

\* c steps from anywhere go around a ring of c.
LEMMA RingCovered ==
  ASSUME NEW c \in Nat \ {0}, NEW h \in Nat, NEW f \in 0 .. c - 1
  PROVE  \E o \in 0 .. c - 1 : (h + o) % c = f
<1>1. PICK q \in Nat, r \in 0 .. c - 1 : h = c * q + r
  BY Division
<1>2. CASE r <= f
  <2>1. h + (f - r) = c * q + f /\ f - r \in 0 .. c - 1
    BY <1>1, <1>2
  <2> QED
    BY <2>1, Modulus
<1>3. CASE r > f
  <2>1. h + (f + c - r) = c * (q + 1) + f /\ f + c - r \in 0 .. c - 1 /\ q + 1 \in Nat
    BY <1>1, <1>3
  <2> QED
    BY <2>1, Modulus
<1> QED
  BY <1>2, <1>3

=============================================================================
