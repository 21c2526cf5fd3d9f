-------------------------- MODULE Recursion_proofs --------------------------
(***************************************************************************)
(* Induction and recursion over the natural numbers, stated for sets and   *)
(* functions instead of for operators, so that each can be cited for a     *)
(* set or a function at hand.  Both come from the least number principle.  *)
(***************************************************************************)
EXTENDS Integers, WellFoundedInduction, TLAPS

LEMMA LeastNumber ==
    ASSUME NEW T \in SUBSET Nat, T # {}
    PROVE  \E x \in T : \A y \in T : x <= y
<1>1. PICK x \in T : \A y \in T : <<y, x>> \notin OpToRel(<, Nat)
  <2> DEFINE R == OpToRel(<, Nat)
  <2>1. IsWellFoundedOn(R, Nat)
    BY NatLessThanWellFounded
  <2> HIDE DEF R
  <2>2. \E x \in T : \A y \in T : <<y, x>> \notin R
    BY <2>1, WFMin
  <2> QED  BY <2>2 DEF R
<1>2. \A y \in T : ~(y < x)
  BY <1>1 DEF OpToRel
<1> QED  BY <1>2

(* Induction, for a set that holds 0 and the successors of its numbers.    *)
LEMMA SetInduction ==
    ASSUME NEW S, 0 \in S, \A n \in Nat : n \in S => n + 1 \in S
    PROVE  Nat \subseteq S
<1> SUFFICES ASSUME Nat \ S # {} PROVE FALSE
  OBVIOUS
<1>1. PICK x \in Nat \ S : \A y \in Nat \ S : x <= y
  BY LeastNumber
<1>2. x # 0 /\ x - 1 \in Nat
  BY <1>1
<1>3. x - 1 \in S
  BY <1>1, <1>2
<1> QED  BY <1>1, <1>2, <1>3

(* The values of the recursion up to n.                                    *)
Prefixes(V, v0, step, n) ==
    {h \in [0..n -> V] : h[0] = v0 /\ \A i \in 0..(n - 1) : h[i + 1] = step[h[i]]}

LEMMA PrefixesAgree ==
    ASSUME NEW V, NEW v0 \in V, NEW step \in [V -> V],
           NEW m \in Nat, NEW n \in Nat, m <= n,
           NEW h \in Prefixes(V, v0, step, m), NEW k \in Prefixes(V, v0, step, n)
    PROVE  h[m] = k[m]
<1> DEFINE Same == {i \in Nat : i <= m => h[i] = k[i]}
<1>1. 0 \in Same
  BY DEF Prefixes
<1>2. ASSUME NEW i \in Nat, i \in Same PROVE i + 1 \in Same
  <2> SUFFICES ASSUME i + 1 <= m PROVE h[i + 1] = k[i + 1]
    OBVIOUS
  <2>1. i \in 0..(m - 1) /\ i \in 0..(n - 1) /\ h[i] = k[i]
    BY <1>2
  <2> QED  BY <2>1 DEF Prefixes
<1>3. Nat \subseteq Same
  <2> HIDE DEF Same
  <2> QED  BY <1>1, <1>2, SetInduction
<1> QED  BY <1>3

LEMMA PrefixesExist ==
    ASSUME NEW V, NEW v0 \in V, NEW step \in [V -> V], NEW n \in Nat
    PROVE  Prefixes(V, v0, step, n) # {}
<1> DEFINE Have == {i \in Nat : Prefixes(V, v0, step, i) # {}}
<1>1. 0 \in Have
  <2>1. [i \in 0..0 |-> v0] \in Prefixes(V, v0, step, 0)
    BY DEF Prefixes
  <2> QED  BY <2>1
<1>2. ASSUME NEW i \in Nat, i \in Have PROVE i + 1 \in Have
  <2>1. PICK h \in [0..i -> V] : h[0] = v0 /\ \A j \in 0..(i - 1) : h[j + 1] = step[h[j]]
    BY <1>2 DEF Prefixes
  <2> DEFINE k == [j \in 0..(i + 1) |-> IF j = i + 1 THEN step[h[i]] ELSE h[j]]
  <2>2. h[i] \in V /\ step[h[i]] \in V
    BY <2>1
  <2>3. k \in [0..(i + 1) -> V]
    BY <2>1, <2>2
  <2>4. k[0] = v0
    BY <2>1
  <2>5. ASSUME NEW j \in 0..i PROVE k[j + 1] = step[k[j]]
    <3>1. j # i + 1 /\ j \in 0..(i + 1) /\ k[j] = h[j]
      OBVIOUS
    <3>2. CASE j = i
      <4>1. j + 1 = i + 1 /\ k[j + 1] = step[h[i]]
        BY <3>2
      <4> QED  BY <3>1, <3>2, <4>1
    <3>3. CASE j \in 0..(i - 1)
      <4>1. j + 1 \in 0..(i + 1) /\ j + 1 # i + 1
        BY <3>3
      <4>2. k[j + 1] = h[j + 1]
        BY <4>1
      <4> QED  BY <2>1, <3>1, <3>3, <4>2
    <3> QED  BY <3>2, <3>3
  <2>6. k \in Prefixes(V, v0, step, i + 1)
    <3> HIDE DEF k
    <3>1. \A j \in 0..((i + 1) - 1) : k[j + 1] = step[k[j]]
      BY <2>5
    <3> QED  BY <2>3, <2>4, <3>1 DEF Prefixes
  <2> QED  BY <2>6
<1>3. Nat \subseteq Have
  <2> HIDE DEF Have
  <2> QED  BY <1>1, <1>2, SetInduction
<1> QED  BY <1>3

(* There is a function that begins with v0 and goes on by step.            *)
LEMMA PrimitiveRecursion ==
    ASSUME NEW V, NEW v0 \in V, NEW step \in [V -> V]
    PROVE  \E g \in [Nat -> V] : g[0] = v0 /\ \A n \in Nat : g[n + 1] = step[g[n]]
<1> DEFINE P(n) == Prefixes(V, v0, step, n)
           g == [n \in Nat |-> (CHOOSE h : h \in P(n))[n]]
<1>1. ASSUME NEW n \in Nat PROVE (CHOOSE h : h \in P(n)) \in P(n)
  BY PrefixesExist
<1>2. ASSUME NEW n \in Nat, NEW h \in P(n) PROVE g[n] = h[n]
  <2>1. g[n] = (CHOOSE k : k \in P(n))[n]
    OBVIOUS
  <2> HIDE DEF g
  <2> QED  BY <1>1, <1>2, <2>1, PrefixesAgree
<1>3. ASSUME NEW n \in Nat PROVE g[n] \in V
  <2>1. PICK h : h \in P(n)
    BY PrefixesExist
  <2>2. h[n] \in V
    BY <2>1 DEF Prefixes
  <2> HIDE DEF g
  <2> QED  BY <1>2, <2>1, <2>2
<1>4. g[0] = v0
  <2>1. PICK h : h \in P(0)
    BY PrefixesExist
  <2>2. h[0] = v0
    BY <2>1 DEF Prefixes
  <2> HIDE DEF g
  <2> QED  BY <1>2, <2>1, <2>2
<1>5. ASSUME NEW n \in Nat PROVE g[n + 1] = step[g[n]]
  <2>1. PICK h : h \in P(n + 1)
    BY PrefixesExist
  <2>2. PICK k : k \in P(n)
    BY PrefixesExist
  <2>3. k[n] = h[n]
    BY <2>1, <2>2, PrefixesAgree
  <2>4. n \in 0..((n + 1) - 1) /\ h[n + 1] = step[h[n]]
    BY <2>1 DEF Prefixes
  <2> HIDE DEF g
  <2> QED  BY <1>2, <2>1, <2>2, <2>3, <2>4
<1>6. g \in [Nat -> V]
  BY <1>3
<1> QED  BY <1>4, <1>5, <1>6
============================================================================
