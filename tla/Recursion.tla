----------------------------- MODULE Recursion -----------------------------
(***************************************************************************)
(* Induction over the naturals for sets of numbers, from the minimal       *)
(* elements of a well-founded relation, and the existence of the functions *)
(* that a recursion over 0..N defines.                                     *)
(***************************************************************************)
EXTENDS Integers, Sequences, FiniteSetTheorems, WellFoundedInduction, TLAPS

-----------------------------------------------------------------------------
(* Sets of numbers. *)

\* A set of naturals that is not empty has a least element.
LEMMA LeastElement ==
  ASSUME NEW T \in SUBSET Nat, T # {}
  PROVE  \E m \in T : \A n \in T : m <= n
<1> DEFINE R == {ss \in Nat \X Nat : ss[1] < ss[2]}
<1>1. IsWellFoundedOn(R, Nat) BY NatLessThanWellFounded DEF OpToRel
<1>2. \E x \in T : \A y \in T : ~ (<<y, x>> \in R)
  <2> HIDE DEF R
  <2> QED BY <1>1, WFMin
<1>3. \A x, y \in Nat : <<y, x>> \in R <=> y < x OBVIOUS
<1> HIDE DEF R
<1>4. PICK x \in T : \A y \in T : ~ (<<y, x>> \in R) BY <1>2
<1>5. \A y \in T : ~(y < x) BY <1>3, <1>4
<1>6. \A y \in T : x <= y BY <1>5
<1> QED BY <1>6

\* A set with zero and every successor holds all naturals.
LEMMA SetInduction ==
  ASSUME NEW T, 0 \in T, \A n \in Nat : n \in T => n + 1 \in T
  PROVE  Nat \subseteq T
<1> DEFINE Rest == Nat \ T
<1>1. SUFFICES ASSUME Rest # {} PROVE FALSE OBVIOUS
<1>2. PICK m \in Rest : \A n \in Rest : m <= n BY <1>1, LeastElement
<1>3. m \in Nat /\ m # 0 BY <1>2
<1>4. m - 1 \in Nat /\ m - 1 < m BY <1>3
<1>5. m - 1 \in T BY <1>2, <1>4
<1>6. m - 1 + 1 \in T BY <1>4, <1>5
<1> QED BY <1>3, <1>6

\* A bounded set of numbers that is not empty has a greatest element.
LEMMA GreatestElement ==
  ASSUME NEW T \in SUBSET Nat, T # {}, NEW b \in Nat, \A n \in T : n <= b
  PROVE  \E m \in T : \A n \in T : n <= m
<1> DEFINE U == {b - n : n \in T}
<1>1. U \in SUBSET Nat /\ U # {}
  <2>1. \A n \in T : b - n \in Nat OBVIOUS
  <2> QED BY <2>1
<1>2. PICK u \in U : \A x \in U : u <= x BY <1>1, LeastElement
<1>3. PICK m \in T : u = b - m BY <1>2
<1>4. \A n \in T : b - n \in U OBVIOUS
<1>5. \A n \in T : b - m <= b - n BY <1>2, <1>3, <1>4
<1> QED BY <1>5

\* How many elements an interval has.
LEMMA IntervalFact ==
  ASSUME NEW n \in Nat
  PROVE  IsFiniteSet(1..n) /\ Cardinality(1..n) = n
<1>1. 1 \in Int /\ n \in Int OBVIOUS
<1>2. IsFiniteSet(1..n) /\ Cardinality(1..n) = IF 1 > n THEN 0 ELSE n - 1 + 1
  BY <1>1, FS_Interval
<1> QED BY <1>2

-----------------------------------------------------------------------------
(* Recursive functions. *)

\* g computes, from base, the values of the recursion whose i-th step is step[i].
Computes(g, S, base, step, n) ==
  /\ g \in [0..n -> S]
  /\ g[0] = base
  /\ \A i \in 1..n : g[i] = step[i][g[i - 1]]

\* A recursion over 0..N has a solution.
LEMMA RecursionExists ==
  ASSUME NEW S, NEW base \in S, NEW step, NEW N \in Nat,
         \A i \in Nat, x \in S : step[i][x] \in S
  PROVE  \E g : Computes(g, S, base, step, N)
<1> DEFINE T == {n \in Nat : \E g : Computes(g, S, base, step, n)}
<1>1. 0 \in T
  <2> DEFINE g == [i \in 0..0 |-> base]
  <2>1. Computes(g, S, base, step, 0) BY DEF Computes
  <2> QED BY <2>1
<1>2. ASSUME NEW n \in Nat, n \in T PROVE n + 1 \in T
  <2>1. PICK g : Computes(g, S, base, step, n) BY <1>2
  <2>2. g \in [0..n -> S] /\ g[0] = base /\ \A i \in 1..n : g[i] = step[i][g[i - 1]]
    BY <2>1 DEF Computes
  <2> DEFINE h == [i \in 0..n + 1 |-> IF i = n + 1 THEN step[n + 1][g[n]] ELSE g[i]]
  <2>3. step[n + 1][g[n]] \in S BY <2>2
  <2>4. h \in [0..n + 1 -> S] /\ h[0] = base BY <2>2, <2>3
  <2>5. ASSUME NEW i \in 1..n + 1 PROVE h[i] = step[i][h[i - 1]]
    <3>1. CASE i = n + 1
      <4>1. i - 1 = n /\ h[i] = step[n + 1][g[n]] BY <3>1
      <4>2. n \in 0..n + 1 /\ n # n + 1 OBVIOUS
      <4>3. h[n] = g[n] BY <4>2
      <4> QED BY <3>1, <4>1, <4>3
    <3>2. CASE i # n + 1
      <4>1. i \in 1..n /\ h[i] = g[i] BY <3>2
      <4>2. i - 1 \in 0..n + 1 /\ i - 1 # n + 1 BY <4>1
      <4>3. h[i - 1] = g[i - 1] BY <4>2
      <4> QED BY <2>2, <4>1, <4>3
    <3> QED BY <3>1, <3>2
  <2> HIDE DEF h
  <2>6. Computes(h, S, base, step, n + 1) BY <2>4, <2>5 DEF Computes
  <2>7. n + 1 \in Nat OBVIOUS
  <2> QED BY <2>6, <2>7
<1>3. N \in T
  <2> HIDE DEF T
  <2> QED BY <1>1, <1>2, SetInduction
<1> QED BY <1>3
=============================================================================
