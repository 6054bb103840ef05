----------------------------- MODULE SetInduction -----------------------------
(***************************************************************************)
(* Induction over the natural numbers with a set in the place of the       *)
(* predicate: S is the set of the numbers that have the property.  It is   *)
(* what the proofs about recursive functions rest on.                      *)
(***************************************************************************)
EXTENDS Integers, WellFoundedInduction, TLAPS

(* A set of natural numbers that is not empty has a least element. *)
LEMMA LeastNatural ==
  ASSUME NEW S, S \subseteq Nat, S # {}
  PROVE  \E m \in S : \A k \in S : m <= k
<1>1. IsWellFoundedOn(OpToRel(<, Nat), Nat)
  BY NatLessThanWellFounded
<1>2. \E x \in S : \A y \in S : ~ (<<y, x>> \in OpToRel(<, Nat))
  BY <1>1, WFMin, Zenon
<1>3. \A x, y \in Nat : ~ (<<y, x>> \in OpToRel(<, Nat)) => x <= y
  BY DEF OpToRel
<1>. QED
  BY <1>2, <1>3

(* A set with 0 that a step up to N does not leave has all of 0..N. *)
LEMMA InductionUpTo ==
  ASSUME NEW N \in Nat, NEW S,
         0 \in S,
         \A k \in 0..N : k < N /\ k \in S => k + 1 \in S
  PROVE  0..N \subseteq S
<1>. DEFINE Missing == {k \in 0..N : k \notin S}
<1>1. SUFFICES ASSUME Missing # {} PROVE FALSE
  OBVIOUS
<1>2. PICK m \in Missing : \A k \in Missing : m <= k
  <2>1. Missing \subseteq Nat
    OBVIOUS
  <2>. HIDE DEF Missing
  <2>. QED
    BY <1>1, <2>1, LeastNatural, Zenon
<1>3. m # 0 /\ m - 1 \in 0..N /\ m - 1 < N
  OBVIOUS
<1>4. m - 1 \in S
  BY <1>2, <1>3
<1>. QED
  BY <1>3, <1>4

=============================================================================
