--------------------------- MODULE InductionFacts ---------------------------
(***************************************************************************)
(* Induction and recursion over the naturals, stated with sets in place of *)
(* predicates and with a function in place of the defining operator: the   *)
(* walks over the levels of a book and the sums over the venues are        *)
(* recursive functions.                                                    *)
(***************************************************************************)
EXTENDS Integers, WellFoundedInduction, TLAPS

\* Every set of naturals has a least element.
LEMMA NatMinimum ==
    ASSUME NEW T, T \subseteq Nat, T # {}
    PROVE  \E m \in T : \A x \in T : m <= x
  <1> DEFINE R == {ss \in Nat \X Nat : ss[1] < ss[2]}
  <1>1. IsWellFoundedOn(R, Nat)
    BY NatLessThanWellFounded DEF OpToRel
  <1>2. \A x, y \in Nat : x < y => <<x, y>> \in R
    OBVIOUS
  <1> HIDE DEF R
  <1>3. PICK m \in T : \A x \in T : <<x, m>> \notin R
    BY <1>1, WFMin
  <1>4. ASSUME NEW x \in T PROVE m <= x
    <2>1. x \in Nat /\ m \in Nat
      OBVIOUS
    <2>2. ~(x < m)
      BY <1>2, <1>3, <2>1
    <2> QED  BY <2>1, <2>2
  <1> QED  BY <1>4

\* A set that contains 0 and, up to n, the successors of its elements
\* contains 0..n.
LEMMA Induction ==
    ASSUME NEW n \in Nat, NEW S, 0 \in S, \A i \in 1..n : i - 1 \in S => i \in S
    PROVE  0..n \subseteq S
  <1> DEFINE T == (0..n) \ S
  <1> SUFFICES ASSUME T # {} PROVE FALSE
    OBVIOUS
  <1>1. T \subseteq Nat
    OBVIOUS
  <1>2. PICK m \in T : \A x \in T : m <= x
    <2> HIDE DEF T
    <2> QED  BY <1>1, NatMinimum
  <1>3. m \in 1..n /\ m - 1 \in 0..n /\ ~(m <= m - 1)
    OBVIOUS
  <1>4. m - 1 \in S
    BY <1>2, <1>3
  <1> QED  BY <1>3, <1>4

Steps(n, A) == [1..n -> [A -> A]]

HasWalk(n, A, a, step) ==
    \E f \in [0..n -> A] : f[0] = a /\ \A i \in 1..n : f[i] = step[i][f[i - 1]]

\* A walk over 1..n from a, by a step for each index, exists.
LEMMA WalkExists ==
    ASSUME NEW n \in Nat, NEW A, NEW a \in A, NEW step \in Steps(n, A)
    PROVE  HasWalk(n, A, a, step)
  <1> DEFINE IsWalk(f, m) == f[0] = a /\ \A i \in 1..m : f[i] = step[i][f[i - 1]]
             S == {m \in 0..n : \E f \in [0..m -> A] : IsWalk(f, m)}
  <1>1. 0 \in S
    <2>1. [i \in 0..0 |-> a] \in [0..0 -> A] /\ IsWalk([i \in 0..0 |-> a], 0)
      OBVIOUS
    <2>2. \E f \in [0..0 -> A] : IsWalk(f, 0)
      <3> HIDE DEF IsWalk
      <3> QED  BY <2>1
    <2> HIDE DEF IsWalk
    <2> QED  BY <2>2
  <1>2. ASSUME NEW i \in 1..n, i - 1 \in S PROVE i \in S
    <2>1. PICK f \in [0..(i - 1) -> A] : IsWalk(f, i - 1)
      BY <1>2
    <2> DEFINE g == [j \in 0..i |-> IF j = i THEN step[i][f[i - 1]] ELSE f[j]]
    <2>2. f[i - 1] \in A /\ step[i] \in [A -> A]
      BY DEF Steps
    <2>3. g \in [0..i -> A]
      BY <2>2
    <2>4. ASSUME NEW j \in 1..i PROVE g[j] = step[j][g[j - 1]]
      <3>1. CASE j = i
        BY <3>1
      <3>2. CASE j # i
        BY <2>1, <3>2
      <3> QED  BY <3>1, <3>2
    <2>5. g[0] = a
      BY <2>1
    <2>6. i \in 0..n
      OBVIOUS
    <2> HIDE DEF g
    <2>7. IsWalk(g, i)
      BY <2>4, <2>5
    <2> HIDE DEF IsWalk
    <2> QED  BY <2>3, <2>6, <2>7
  <1>3. n \in 0..n
    OBVIOUS
  <1> HIDE DEF S
  <1>4. n \in S
    BY <1>1, <1>2, <1>3, Induction
  <1> USE DEF S
  <1> QED  BY <1>4 DEF HasWalk
=============================================================================
