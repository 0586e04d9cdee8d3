--------------------------- MODULE InductionProofs ---------------------------
(***************************************************************************)
(* Induction over numbers, and what is defined by recursion over them: the *)
(* lemmas that the other proofs share.                                     *)
(***************************************************************************)
EXTENDS WellFoundedInduction, SequenceTheorems, FiniteSetTheorems, TLAPS

\* A set of numbers has a least one.
LEMMA LeastOne ==
    ASSUME NEW S \in SUBSET Nat, S # {}
    PROVE  \E m \in S : \A k \in S : m <= k
<1>1. PICK m \in S : \A k \in S : <<k, m>> \notin OpToRel(<, Nat)
  BY WFMin, NatLessThanWellFounded, Zenon
<1>2. \A k \in S : ~ (k < m)
  BY <1>1, Zenon DEF OpToRel
<1> QED BY <1>2

\* What holds of 0, and of each number if of the one before, holds up to n.
LEMMA UpTo ==
    ASSUME NEW n \in Nat, NEW S, 0 \in S, \A i \in 1 .. n : i - 1 \in S => i \in S
    PROVE  0 .. n \subseteq S
<1> DEFINE Bad == {i \in 0 .. n : i \notin S}
<1>1. SUFFICES ASSUME Bad # {} PROVE FALSE
  OBVIOUS
<1>2. PICK m \in Bad : \A k \in Bad : m <= k
  <2>1. Bad \in SUBSET Nat
    OBVIOUS
  <2> HIDE DEF Bad
  <2> QED BY <1>1, <2>1, LeastOne
<1>3. m # 0
  BY <1>2
<1>4. m - 1 \in 0 .. n /\ m \in 1 .. n /\ m - 1 \notin Bad
  BY <1>2, <1>3
<1> QED BY <1>2, <1>4

\* A function that is given by its value at 0 and by steps from one value to the next.
Iterates(t, n, start, step) ==
    t = [i \in 0 .. n |-> IF i = 0 THEN start ELSE step[i][t[i - 1]]]

LEMMA IterationStays ==
    ASSUME NEW S, NEW n \in Nat, NEW start \in S, NEW step \in [1 .. n -> [S -> S]],
           NEW t, Iterates(t, n, start, step)
    PROVE  t \in [0 .. n -> S]
<1> DEFINE Bad == {i \in 0 .. n : t[i] \notin S}
<1>1. SUFFICES ASSUME Bad # {} PROVE FALSE
  BY DEF Iterates
<1>2. PICK m \in Bad : \A k \in Bad : m <= k
  <2>1. Bad \in SUBSET Nat
    OBVIOUS
  <2> HIDE DEF Bad
  <2> QED BY <1>1, <2>1, LeastOne
<1>3. m # 0
  BY <1>2 DEF Iterates
<1>4. m - 1 \in 0 .. n /\ m \in 1 .. n /\ m - 1 \notin Bad
  BY <1>2, <1>3
<1>5. t[m] = step[m][t[m - 1]]
  BY <1>2, <1>3 DEF Iterates
<1> QED BY <1>2, <1>4, <1>5

LEMMA IterationExists ==
    ASSUME NEW S, NEW n \in Nat, NEW start \in S, NEW step \in [1 .. n -> [S -> S]]
    PROVE  \E t : Iterates(t, n, start, step)
<1> DEFINE Bad == {i \in 0 .. n : ~ \E t : Iterates(t, i, start, step)}
<1>1. SUFFICES ASSUME Bad # {} PROVE FALSE
  OBVIOUS
<1>2. PICK m \in Bad : \A k \in Bad : m <= k
  <2>1. Bad \in SUBSET Nat
    OBVIOUS
  <2> HIDE DEF Bad
  <2> QED BY <1>1, <2>1, LeastOne
<1>3. m # 0
  <2>1. Iterates([i \in 0 .. 0 |-> start], 0, start, step)
    BY DEF Iterates
  <2> QED BY <1>2, <2>1
<1>4. PICK t : Iterates(t, m - 1, start, step)
  <2>1. m - 1 \in 0 .. n /\ m - 1 \notin Bad
    BY <1>2, <1>3
  <2> QED BY <2>1
<1>5. PICK u : u = [i \in 0 .. m |-> IF i = m THEN step[m][t[m - 1]] ELSE t[i]]
  OBVIOUS
<1>6. \A i \in 0 .. m - 1 : u[i] = t[i]
  BY <1>2, <1>5
<1>7. ASSUME NEW i \in 0 .. m
      PROVE  u[i] = IF i = 0 THEN start ELSE step[i][u[i - 1]]
  <2>1. CASE i = m
    BY <1>2, <1>3, <1>5, <1>6, <2>1
  <2>2. CASE i # m
    <3>1. i \in 0 .. m - 1 /\ (i # 0 => i - 1 \in 0 .. m - 1)
      BY <1>2, <2>2
    <3>2. t[i] = IF i = 0 THEN start ELSE step[i][t[i - 1]]
      BY <1>4, <3>1 DEF Iterates
    <3> QED BY <1>6, <3>1, <3>2
  <2> QED BY <2>1, <2>2
<1>8. Iterates(u, m, start, step)
  BY <1>5, <1>7 DEF Iterates
<1> QED BY <1>2, <1>8
=============================================================================
