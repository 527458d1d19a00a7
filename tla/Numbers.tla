------------------------------- MODULE Numbers -------------------------------
(***************************************************************************)
(* What the proofs about rows that are worked through one by one share: the  *)
(* least-number principle, stated of a set, from which they draw what an      *)
(* induction would give them.                                                *)
(***************************************************************************)
EXTENDS Naturals, WellFoundedInduction, TLAPS

Earlier == {pair \in Nat \X Nat : pair[1] < pair[2]}

\* A non-empty set of naturals has a least member: where something goes wrong while rows
\* are worked through in order (migrate, submitBatchPayment), there is a first place.
THEOREM LeastNumber ==
  ASSUME NEW T \in SUBSET Nat, T # {}
  PROVE  \E x \in T : \A y \in T : x <= y
  <1>1. OpToRel(<, Nat) = Earlier
    BY Zenon DEF OpToRel, Earlier
  <1>2. IsWellFoundedOn(Earlier, Nat)
    BY <1>1, NatLessThanWellFounded
  <1>3. PICK x \in T : \A y \in T : ~ (<<y, x>> \in Earlier)
    BY <1>2, WFMin
  <1>4. \A y \in T : x <= y
    <2>1. SUFFICES ASSUME NEW y \in T, y < x PROVE FALSE
      OBVIOUS
    <2>2. <<y, x>> \in Earlier
      BY <2>1 DEF Earlier
    <2>3. QED
      BY <1>3, <2>2
  <1>5. QED
    BY <1>4

=============================================================================
