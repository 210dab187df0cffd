----------------------------- MODULE Induction -----------------------------
(***************************************************************************)
(* Induction over the naturals for sets and for functions.  The library's  *)
(* theorems take the induction hypothesis as an operator; these take it as *)
(* a set, and follow from its theorem that < is well-founded.              *)
(***************************************************************************)
EXTENDS Integers, WellFoundedInduction, TLAPS

(* A set of naturals that is not empty has a least one. *)
LEMMA Least ==
  ASSUME NEW S \in SUBSET Nat, S # {}
  PROVE  \E x \in S : \A y \in S : x <= y
<1> DEFINE lt == OpToRel(<, Nat)
<1>1. IsWellFoundedOn(lt, Nat)
  BY NatLessThanWellFounded
<1>2. \A x, y \in Nat : x < y => <<x, y>> \in lt
  BY DEF OpToRel
<1> HIDE DEF lt
<1>3. PICK x \in S : \A y \in S : <<y, x>> \notin lt
  BY <1>1, WFMin
<1>4. \A y \in S : y \in Nat /\ x \in Nat /\ ~(y < x)
  BY <1>2, <1>3
<1> QED BY <1>4

(* A set that has 0, and n + 1 with every n, has every natural. *)
LEMMA SetInduction ==
  ASSUME NEW S, 0 \in S, \A n \in Nat : n \in S => n + 1 \in S
  PROVE  Nat \subseteq S
<1> SUFFICES ASSUME Nat \ S # {} PROVE FALSE
  OBVIOUS
<1>1. PICK x \in Nat \ S : \A y \in Nat \ S : x <= y
  BY Least
<1>2. x # 0 /\ x - 1 \in Nat /\ ~(x <= x - 1)
  BY <1>1
<1>3. x - 1 \in S
  BY <1>1, <1>2
<1> QED BY <1>1, <1>2, <1>3

(* The same up to a bound. *)
LEMMA SetInductionTo ==
  ASSUME NEW n \in Nat, NEW S, 0 \in S, \A k \in 1..n : k - 1 \in S => k \in S
  PROVE  0..n \subseteq S
<1> DEFINE T == {k \in Nat : k <= n => k \in S}
<1>1. 0 \in T
  OBVIOUS
<1>2. ASSUME NEW k \in Nat, k \in T PROVE k + 1 \in T
  <2> SUFFICES ASSUME k + 1 <= n PROVE k + 1 \in S
    OBVIOUS
  <2>1. k \in S /\ k + 1 \in 1..n /\ (k + 1) - 1 = k
    BY <1>2
  <2> QED BY <2>1
<1> HIDE DEF T
<1>3. Nat \subseteq T
  BY <1>1, <1>2, SetInduction
<1> QED BY <1>3 DEF T

\* The functions that begin with a and get their k-th value from the one
\* before it by F[k].
Iterations(n, S, a, F) ==
  {f \in [0..n -> S] : f[0] = a /\ \A k \in 1..n : f[k] = F[k][f[k - 1]]}

(* A function may be defined by its first value and a step from each value *)
(* to the next.                                                            *)
LEMMA Recursion ==
  ASSUME NEW n \in Nat, NEW S, NEW a \in S, NEW F \in [1..n -> [S -> S]]
  PROVE  Iterations(n, S, a, F) # {}
<1> DEFINE T == {k \in 0..n : Iterations(k, S, a, F) # {}}
<1>1. 0 \in T
  <2>1. [j \in 0..0 |-> a] \in Iterations(0, S, a, F)
    BY DEF Iterations
  <2> QED BY <2>1
<1>2. ASSUME NEW k \in 1..n, k - 1 \in T PROVE k \in T
  <2>1. PICK f \in Iterations(k - 1, S, a, F) : TRUE
    BY <1>2
  <2> DEFINE g == [j \in 0..k |-> IF j = k THEN F[k][f[k - 1]] ELSE f[j]]
  <2>2. f \in [0..(k - 1) -> S] /\ f[0] = a /\ \A j \in 1..(k - 1) : f[j] = F[j][f[j - 1]]
    BY <2>1 DEF Iterations
  <2>3. F[k][f[k - 1]] \in S
    BY <2>2
  <2>4. g \in [0..k -> S] /\ g[0] = a
    BY <2>2, <2>3
  <2>5. ASSUME NEW j \in 1..k PROVE g[j] = F[j][g[j - 1]]
    BY <2>2
  <2> HIDE DEF g
  <2>6. g \in Iterations(k, S, a, F)
    BY <2>4, <2>5 DEF Iterations
  <2> QED BY <2>6
<1> HIDE DEF T
<1>3. 0..n \subseteq T
  BY <1>1, <1>2, SetInductionTo
<1> QED BY <1>3 DEF T
=============================================================================
