--------------------------- MODULE RecursionLemmas ---------------------------
(***************************************************************************)
(* Least elements, induction and recursion over the natural numbers, in a  *)
(* form that needs no operator as a parameter: a set stands for the        *)
(* statement that is proved, a function for the step that is repeated.     *)
(***************************************************************************)
EXTENDS Integers, WellFoundedInduction, TLAPS

\* Every nonempty set of naturals has a least element.
LEMMA LeastElement ==
  ASSUME NEW T \in SUBSET Nat, T # {}
  PROVE  \E x \in T : \A y \in T : x <= y
  <1>1. \A x, y \in Nat : y < x => <<y, x>> \in OpToRel(<, Nat)
    BY DEF OpToRel
  <1>2. PICK x \in T : \A y \in T : ~ (<<y, x>> \in OpToRel(<, Nat))
    BY NatLessThanWellFounded, WFMin
  <1>3. \A y \in T : ~(y < x)
    BY <1>1, <1>2
  <1> QED
    BY <1>3

\* A set with 0 and every successor holds all naturals.
LEMMA Induction ==
  ASSUME NEW S, 0 \in S, \A n \in Nat : n \in S => n + 1 \in S
  PROVE  Nat \subseteq S
  <1> DEFINE T == Nat \ S
  <1> SUFFICES ASSUME T # {} PROVE FALSE
    OBVIOUS
  <1>1. PICK x \in T : \A y \in T : x <= y
    BY LeastElement
  <1>2. x \in Nat /\ x \notin S /\ x # 0
    OBVIOUS
  <1>3. x - 1 \in Nat /\ x - 1 \in S
    BY <1>1, <1>2
  <1> QED
    BY <1>2, <1>3

\* Every nonempty set of numbers up to some n has a greatest element.
LEMMA GreatestElement ==
  ASSUME NEW n \in Nat, NEW T \in SUBSET (0 .. n), T # {}
  PROVE  \E x \in T : \A y \in T : y <= x
  <1> DEFINE U == {k \in Nat : \E y \in T : k = n - y}
  <1>0. \A y \in T : y \in 0 .. n /\ n - y \in Nat
    OBVIOUS
  <1>1. U \in SUBSET Nat /\ U # {}
    BY <1>0
  <1>2. PICK u \in U : \A v \in U : u <= v
    <2> HIDE DEF U
    <2> QED BY <1>1, LeastElement
  <1>3. PICK x \in T : u = n - x
    BY <1>2
  <1>4. ASSUME NEW y \in T PROVE y <= x
    <2>1. n - y \in U /\ y \in 0 .. n /\ x \in 0 .. n
      BY <1>0
    <2>2. n - x <= n - y
      BY <1>2, <1>3, <2>1
    <2> QED
      BY <2>1, <2>2
  <1> QED
    BY <1>4

\* f is what the recursion over 0 .. N with these steps computes.
Solves(f, N, s0, step) == f[0] = s0 /\ \A n \in 1 .. N : f[n] = step[n][f[n - 1]]

\* A recursion whose steps stay in S has a solution.
LEMMA Recursion ==
  ASSUME NEW N \in Nat, NEW S, NEW s0 \in S, NEW step \in [1 .. N -> [S -> S]]
  PROVE  \E f \in [0 .. N -> S] : Solves(f, N, s0, step)
  <1> DEFINE T == {k \in Nat : k <= N => \E f \in [0 .. k -> S] : Solves(f, k, s0, step)}
  <1>1. 0 \in T
    <2> DEFINE f == [n \in 0 .. 0 |-> s0]
    <2>1. f \in [0 .. 0 -> S] /\ Solves(f, 0, s0, step)
      BY DEF Solves
    <2> QED
      BY <2>1
  <1>2. ASSUME NEW k \in Nat, k \in T PROVE k + 1 \in T
    <2> SUFFICES ASSUME k + 1 <= N
                 PROVE  \E f \in [0 .. k + 1 -> S] : Solves(f, k + 1, s0, step)
      OBVIOUS
    <2>1. PICK g \in [0 .. k -> S] : Solves(g, k, s0, step)
      BY <1>2
    <2> DEFINE f == [n \in 0 .. k + 1 |-> IF n = k + 1 THEN step[n][g[k]] ELSE g[n]]
    <2>2. g[k] \in S /\ step[k + 1] \in [S -> S]
      OBVIOUS
    <2>3. f \in [0 .. k + 1 -> S]
      BY <2>2
    <2>4. f[0] = s0
      BY <2>1 DEF Solves
    <2>5. ASSUME NEW n \in 1 .. k + 1 PROVE f[n] = step[n][f[n - 1]]
      BY <2>1 DEF Solves
    <2>6. Solves(f, k + 1, s0, step)
      BY <2>4, <2>5 DEF Solves
    <2> QED
      BY <2>3, <2>6
  <1>3. N \in T
    <2> HIDE DEF T
    <2> QED BY <1>1, <1>2, Induction
  <1> QED
    BY <1>3

\* f is 2 ** n, as the code computes its backoffs.
Doubles(f, N) == f = [n \in 0 .. N |-> IF n = 0 THEN 1 ELSE 2 * f[n - 1]]

\* There is such a function, and its values are natural numbers.
LEMMA Doubling ==
  ASSUME NEW N \in Nat
  PROVE  /\ \E f : Doubles(f, N)
         /\ \A f : Doubles(f, N) => \A n \in 0 .. N : f[n] \in Nat
  <1>1. \E f : Doubles(f, N)
    <2> DEFINE step == [n \in 1 .. N |-> [x \in Nat |-> 2 * x]]
    <2>1. step \in [1 .. N -> [Nat -> Nat]]
      OBVIOUS
    <2>2. PICK f \in [0 .. N -> Nat] : Solves(f, N, 1, step)
      <3> HIDE DEF step
      <3> QED BY <2>1, Recursion
    <2>3. ASSUME NEW n \in 1 .. N PROVE f[n] = 2 * f[n - 1]
      <3>1. n \in Nat /\ n - 1 \in 0 .. N
        OBVIOUS
      <3>2. f[n - 1] \in Nat /\ f[n] = step[n][f[n - 1]]
        BY <2>2, <3>1 DEF Solves
      <3> QED
        BY <3>2
    <2>4. f[0] = 1
      BY <2>2 DEF Solves
    <2>5. Doubles(f, N)
      BY <2>3, <2>4 DEF Doubles
    <2> QED
      BY <2>5
  <1>2. ASSUME NEW f, Doubles(f, N), NEW m \in 0 .. N PROVE f[m] \in Nat
    <2> DEFINE T == {n \in Nat : n <= N => f[n] \in Nat}
    <2>0. \A n \in 0 .. N : f[n] = IF n = 0 THEN 1 ELSE 2 * f[n - 1]
      BY <1>2 DEF Doubles
    <2>1. 0 \in T
      BY <2>0
    <2>2. ASSUME NEW n \in Nat, n \in T PROVE n + 1 \in T
      <3> SUFFICES ASSUME n + 1 <= N PROVE f[n + 1] \in Nat
        OBVIOUS
      <3>1. f[n + 1] = 2 * f[n] /\ f[n] \in Nat
        BY <2>0, <2>2
      <3> QED
        BY <3>1
    <2>3. Nat \subseteq T
      <3> HIDE DEF T
      <3> QED BY <2>1, <2>2, Induction
    <2> QED
      BY <2>3
  <1> QED
    BY <1>1, <1>2
=============================================================================
