--------------------------- MODULE InductionLemmas ---------------------------
(***************************************************************************)
(* Induction in the form in which the proofs of this project can cite it:  *)
(* about sets and functions in place of predicates and operators.  A set   *)
(* of numbers that is not empty has a smallest one; a set that holds 0 and *)
(* with n also n + 1 holds all numbers; what a recursive function over an  *)
(* interval says of itself is true of it.                                  *)
(***************************************************************************)
EXTENDS Integers, WellFoundedInduction, TLAPS

\* The numbers in their order.
Smaller == {e \in Nat \X Nat : e[1] < e[2]}

LEMMA SmallerIsWellFounded == IsWellFoundedOn(Smaller, Nat)
<1>1. OpToRel(<, Nat) = Smaller
  BY DEF OpToRel, Smaller
<1> QED
  BY <1>1, NatLessThanWellFounded

LEMMA SmallestOf ==
  ASSUME NEW S, S \subseteq Nat, S # {}
  PROVE  \E m \in S : \A k \in S : m <= k
<1>1. PICK m \in S : \A k \in S : ~ (<<k, m>> \in Smaller)
  BY SmallerIsWellFounded, WFMin
<1>2. ASSUME NEW k \in S
      PROVE  m <= k
  <2>1. k \in Nat /\ m \in Nat /\ <<k, m>> \notin Smaller
    BY <1>1
  <2>2. ~ (k < m)
    BY <2>1 DEF Smaller
  <2> QED
    BY <2>1, <2>2
<1> QED
  BY <1>2

LEMMA Induction ==
  ASSUME NEW S, 0 \in S, \A n \in Nat : n \in S => n + 1 \in S
  PROVE  \A n \in Nat : n \in S
<1> SUFFICES ASSUME NEW x \in Nat, x \notin S PROVE FALSE
  OBVIOUS
<1>1. PICK m \in Nat \ S : \A k \in Nat \ S : m <= k
  BY SmallestOf
<1>2. m - 1 \in Nat /\ m - 1 \in S
  BY <1>1
<1> QED
  BY <1>2

\* f goes from base through the values g gives it, from lo up to hi.
Recursive(f, lo, hi, V, base, g) ==
  /\ f \in [lo .. hi -> V]
  /\ f[lo] = base
  /\ \A n \in lo + 1 .. hi : f[n] = g[<<n, f[n - 1]>>]

\* g gives the next value of a recursion in V.
StepsIn(g, lo, hi, V) == g \in [(lo + 1 .. hi) \X V -> V]

LEMMA Recursion ==
  ASSUME NEW lo \in Nat, NEW hi \in Nat, lo <= hi,
         NEW V, NEW base \in V, NEW g, StepsIn(g, lo, hi, V)
  PROVE  \E f : Recursive(f, lo, hi, V, base, g)
<1> DEFINE Is(f, n) == /\ f \in [lo .. lo + n -> V]
                       /\ f[lo] = base
                       /\ \A i \in lo + 1 .. lo + n : f[i] = g[<<i, f[i - 1]>>]
           S == {n \in Nat : lo + n <= hi => \E f : Is(f, n)}
<1>1. 0 \in S
  <2>1. Is([i \in lo .. lo + 0 |-> base], 0)
    OBVIOUS
  <2> QED
    BY <2>1
<1>2. ASSUME NEW n \in Nat, n \in S
      PROVE  n + 1 \in S
  <2> SUFFICES ASSUME lo + (n + 1) <= hi PROVE \E f : Is(f, n + 1)
    OBVIOUS
  <2>1. PICK f : Is(f, n)
    BY <1>2
  <2> DEFINE last == lo + n + 1
             v == g[<<last, f[lo + n]>>]
             h == [i \in lo .. lo + (n + 1) |-> IF i = last THEN v ELSE f[i]]
  <2>2. v \in V
    <3>1. f[lo + n] \in V /\ last \in lo + 1 .. hi
      BY <2>1
    <3> QED
      BY <3>1 DEF StepsIn
  <2>3. h \in [lo .. lo + (n + 1) -> V] /\ h[lo] = base
    BY <2>1, <2>2
  <2>4. ASSUME NEW i \in lo + 1 .. lo + (n + 1)
        PROVE  h[i] = g[<<i, h[i - 1]>>]
    <3>1. i - 1 \in lo .. lo + n /\ h[i - 1] = f[i - 1]
      OBVIOUS
    <3>2. CASE i = last
      <4>1. h[i] = v /\ i - 1 = lo + n
        BY <3>2
      <4> QED
        BY <3>1, <3>2, <4>1
    <3>3. CASE i # last
      <4>1. i \in lo + 1 .. lo + n /\ h[i] = f[i]
        BY <3>3
      <4> QED
        BY <2>1, <3>1, <4>1
    <3> QED
      BY <3>2, <3>3
  <2>5. Is(h, n + 1)
    <3> HIDE DEF h
    <3> QED
      BY <2>3, <2>4
  <2> QED
    BY <2>5
<1> HIDE DEF S
<1>3. hi - lo \in S
  BY <1>1, <1>2, Induction
<1>4. PICK f : Is(f, hi - lo)
  BY <1>3 DEF S
<1>5. lo + (hi - lo) = hi
  OBVIOUS
<1> QED
  BY <1>4, <1>5 DEF Recursive

=============================================================================
