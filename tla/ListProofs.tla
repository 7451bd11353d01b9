------------------------------ MODULE ListProofs ------------------------------
(* Lemmas on numbers and sequences that the proofs about several modules use. *)
EXTENDS Integers, Sequences, WellFoundedInduction, TLAPS

\* Every set of natural numbers with an element has a smallest one.  An
\* induction over numbers or lengths takes the smallest counterexample.
LEMMA LeastNatural ==
  ASSUME NEW T, T \subseteq Nat, T # {}
  PROVE  \E x \in T : \A y \in T : x <= y
<1> DEFINE R == OpToRel(<, Nat)
<1>1. IsWellFoundedOn(R, Nat)
  BY NatLessThanWellFounded
<1>2. \A x, y \in Nat : y < x => <<y, x>> \in R
  BY DEF OpToRel
<1> HIDE DEF R
<1>3. PICK x \in T : \A y \in T : ~ (<<y, x>> \in R)
  BY <1>1, WFMin
<1>4. \A y \in T : ~ (y < x)
  BY <1>2, <1>3
<1>5. x \in Nat /\ \A y \in T : y \in Nat
  OBVIOUS
<1>6. \A y \in T : x <= y
  BY <1>4, <1>5
<1> QED
  BY <1>6

\* Numbers that never fall from one place to the next never fall at all.
LEMMA Rising ==
  ASSUME NEW n \in Nat, NEW g,
         \A i \in 1 .. n : g[i] \in Nat,
         \A i \in 1 .. n - 1 : g[i] <= g[i + 1],
         NEW j \in 1 .. n, NEW i \in 1 .. j
  PROVE  g[i] <= g[j]
<1> DEFINE T == {m \in i .. n : ~ (g[i] <= g[m])}
<1> SUFFICES ASSUME j \in T
             PROVE  FALSE
  OBVIOUS
<1>1. T \subseteq Nat /\ T # {}
  OBVIOUS
<1>2. PICK m \in T : \A y \in T : m <= y
  BY <1>1, LeastNatural
<1>3. m \in i .. n /\ ~ (g[i] <= g[m])
  OBVIOUS
<1>4. m # i
  BY <1>3
<1>5. m - 1 \in i .. n /\ m - 1 \in 1 .. n - 1 /\ (m - 1) + 1 = m
  BY <1>3, <1>4
<1>6. m - 1 \notin T
  BY <1>1, <1>2, <1>5
<1>7. g[i] <= g[m - 1]
  BY <1>5, <1>6
<1>8. g[m - 1] <= g[m]
  BY <1>5
<1>9. g[i] \in Nat /\ g[m] \in Nat /\ g[m - 1] \in Nat
  BY <1>3, <1>5
<1> HIDE DEF T
<1> QED
  BY <1>3, <1>7, <1>8, <1>9
===============================================================================
