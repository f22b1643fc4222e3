------------------------------ MODULE Recursion ------------------------------
(***************************************************************************)
(* Induction over natural numbers, and the functions that recursive        *)
(* definitions over 0..n ask for, in a form that takes sets and functions  *)
(* where the library's theorems take operators.                            *)
(***************************************************************************)
EXTENDS SequenceTheorems, WellFoundedInduction, TLAPS

\* A set of natural numbers that is not empty has a least member.
LEMMA LeastMember ==
  ASSUME NEW T, T \subseteq Nat, T # {}
  PROVE  \E x \in T : \A y \in T : x <= y
<1> DEFINE Less == {p \in Nat \X Nat : p[1] < p[2]}
<1>1. \E x \in T : \A y \in T : <<y, x>> \notin Less
  <2>1. IsWellFoundedOn(Less, Nat)
    BY NatLessThanWellFounded DEF OpToRel
  <2> HIDE DEF Less
  <2> QED BY <2>1, WFMin
<1>2. PICK x \in T : \A y \in T : <<y, x>> \notin Less
  BY <1>1
<1>3. ASSUME NEW y \in T PROVE x <= y
  <2>1. x \in Nat /\ y \in Nat
    OBVIOUS
  <2>2. <<y, x>> \notin Less
    BY <1>2
  <2>3. <<y, x>> \in Nat \X Nat
    BY <2>1
  <2>4. ~(y < x)
    BY <2>2, <2>3
  <2> QED BY <2>1, <2>4
<1> QED BY <1>3

\* A set that holds 0 and the successor of each of its members below n reaches n.
LEMMA Induction ==
  ASSUME NEW n \in Nat, NEW S, 0 \in S, \A k \in 0..(n - 1) : k \in S => k + 1 \in S
  PROVE  \A k \in 0..n : k \in S
<1> SUFFICES ASSUME NEW k \in 0..n, k \notin S PROVE FALSE
  OBVIOUS
<1> DEFINE Missing == {i \in 0..n : i \notin S}
<1>1. Missing \subseteq Nat /\ Missing # {}
  OBVIOUS
<1>2. PICK x \in Missing : \A y \in Missing : x <= y
  BY <1>1, LeastMember
<1>3. x # 0 /\ x - 1 \in 0..(n - 1)
  BY <1>2
<1>4. x - 1 \in S
  BY <1>2, <1>3
<1>5. x - 1 + 1 \in S
  BY <1>3, <1>4
<1> QED BY <1>2, <1>5

\* A set of natural numbers that is not empty and has a bound has a greatest member.
LEMMA GreatestMember ==
  ASSUME NEW n \in Nat, NEW T, T \subseteq 0..n, T # {}
  PROVE  \E x \in T : \A y \in T : y <= x
<1> DEFINE Below == {n - y : y \in T}
<1>1. Below \subseteq Nat /\ Below # {}
  <2>1. ASSUME NEW y \in T PROVE n - y \in Nat
    OBVIOUS
  <2>2. Below \subseteq Nat
    BY <2>1
  <2>3. PICK y : y \in T
    OBVIOUS
  <2>4. n - y \in Below
    BY <2>3
  <2> QED BY <2>2, <2>4
<1>2. PICK d \in Below : \A e \in Below : d <= e
  BY <1>1, LeastMember
<1>3. PICK x \in T : d = n - x
  OBVIOUS
<1>4. ASSUME NEW y \in T PROVE y <= x
  <2>1. n - y \in Below
    OBVIOUS
  <2>2. n - x <= n - y
    BY <2>1, <1>2, <1>3
  <2> QED BY <2>2
<1> QED BY <1>4

\* A step that stays in V can be iterated: the function that a recursive definition
\* over 0..n asks for exists.
Iterates(f, n, V, v0, step) ==
  f \in [0..n -> V] /\ f[0] = v0 /\ \A k \in 1..n : f[k] = step[<<f[k - 1], k>>]

LEMMA Iteration ==
  ASSUME NEW n \in Nat, NEW V, NEW v0 \in V, NEW step \in [V \X (1..n) -> V]
  PROVE  \E f : Iterates(f, n, V, v0, step)
<1> DEFINE Upto(k, f) == f \in [0..k -> V] /\ f[0] = v0 /\ \A i \in 1..k : f[i] = step[<<f[i - 1], i>>]
           Reached == {k \in 0..n : \E f : Upto(k, f)}
<1>1. 0 \in Reached
  <2>1. Upto(0, [i \in 0..0 |-> v0])
    OBVIOUS
  <2>2. 0 \in 0..n
    OBVIOUS
  <2> HIDE DEF Upto
  <2> QED BY <2>1, <2>2
<1>2. ASSUME NEW k \in 0..(n - 1), k \in Reached
      PROVE  k + 1 \in Reached
  <2>1. PICK f : Upto(k, f)
    BY <1>2
  <2> DEFINE g == [i \in 0..(k + 1) |-> IF i = k + 1 THEN step[<<f[k], k + 1>>] ELSE f[i]]
  <2>2. f[k] \in V /\ k + 1 \in 1..n
    BY <2>1
  <2>3. step[<<f[k], k + 1>>] \in V
    BY <2>2
  <2>4. g \in [0..(k + 1) -> V]
    BY <2>1, <2>3
  <2>5. g[0] = v0
    BY <2>1
  <2>6. ASSUME NEW i \in 1..(k + 1) PROVE g[i] = step[<<g[i - 1], i>>]
    <3>1. CASE i = k + 1
      <4>1. k \in 0..(k + 1) /\ k # k + 1 /\ k + 1 \in 0..(k + 1) /\ k + 1 - 1 = k
        OBVIOUS
      <4>2. g[k] = f[k] /\ g[k + 1] = step[<<f[k], k + 1>>]
        BY <4>1
      <4> HIDE DEF g
      <4> QED BY <3>1, <4>1, <4>2
    <3>2. CASE i # k + 1
      <4>1. i \in 1..k /\ i - 1 \in 0..k /\ i - 1 # k + 1
        BY <3>2
      <4>2. g[i] = f[i] /\ g[i - 1] = f[i - 1]
        BY <4>1, <3>2
      <4> QED BY <4>1, <4>2, <2>1
    <3> QED BY <3>1, <3>2
  <2>7. Upto(k + 1, g)
    BY <2>4, <2>5, <2>6
  <2> HIDE DEF Upto, g
  <2> QED BY <2>7
<1>3. n \in Reached
  <2> HIDE DEF Reached
  <2> QED BY <1>1, <1>2, Induction
<1> QED BY <1>3 DEF Iterates

\* A loop of n rounds, each of which stays in V.
Loops(f, n, V, v0, step) ==
  f \in [0..n -> V] /\ f[0] = v0 /\ \A k \in 1..n : f[k] = step[f[k - 1]]

LEMMA Rounds ==
  ASSUME NEW n \in Nat, NEW V, NEW v0 \in V, NEW step \in [V -> V]
  PROVE  \E f : Loops(f, n, V, v0, step)
<1> DEFINE indexed == [a \in V \X (1..n) |-> step[a[1]]]
<1>1. indexed \in [V \X (1..n) -> V]
  OBVIOUS
<1>2. \A v \in V : \A k \in 1..n : indexed[<<v, k>>] = step[v]
  OBVIOUS
<1> HIDE DEF indexed
<1>3. PICK f : Iterates(f, n, V, v0, indexed)
  BY <1>1, Iteration
<1>4. f \in [0..n -> V] /\ f[0] = v0
  BY <1>3 DEF Iterates
<1>5. ASSUME NEW k \in 1..n PROVE f[k] = step[f[k - 1]]
  <2>1. f[k - 1] \in V
    BY <1>4
  <2>2. f[k] = indexed[<<f[k - 1], k>>]
    BY <1>3 DEF Iterates
  <2> QED BY <2>1, <2>2, <1>2
<1> QED BY <1>3, <1>4, <1>5 DEF Iterates, Loops

\* What holds at first and is kept by every round holds at the end.
LEMMA Kept ==
  ASSUME NEW n \in Nat, NEW V, NEW f, f[0] \in V, \A k \in 1..n : f[k - 1] \in V => f[k] \in V
  PROVE  f[n] \in V
<1> DEFINE Good == {k \in 0..n : f[k] \in V}
<1>1. 0 \in Good
  OBVIOUS
<1>2. ASSUME NEW k \in 0..(n - 1), k \in Good PROVE k + 1 \in Good
  <2>1. k + 1 \in 1..n /\ k + 1 - 1 = k
    OBVIOUS
  <2>2. f[k + 1] \in V
    BY <2>1, <1>2
  <2> QED BY <2>1, <2>2
<1>3. n \in Good
  <2> HIDE DEF Good
  <2> QED BY <1>1, <1>2, Induction
<1> QED BY <1>3
=============================================================================
