------------------------------ MODULE MCJobUsage ------------------------------
(***************************************************************************)
(* Small instances of JobUsage: the root has a bank P with a leaf A and a  *)
(* leaf B; one association in each leaf.                                   *)
(***************************************************************************)
EXTENDS JobUsage

CONSTANTS root, P, A, B, a1, a2, j1, j2, j3

Tree == (root :> NoBank) @@ (P :> root) @@ (A :> P) @@ (B :> root)
InLeaves == [a \in Assocs |-> IF a = a1 THEN A ELSE B]
ChargedTo == [j \in Jobs |-> IF j = j3 THEN a2 ELSE a1]
Used == [j \in Jobs |-> IF j = j2 THEN 4 ELSE 8]

\* A half-life of one tick and one of two, in two bins.
Weekly == {[half_life |-> 1, reset_period |-> 2]}
WeeklyOrBiweekly == Weekly \cup {[half_life |-> 2, reset_period |-> 4]}

\* What the theorems assume of an instance.
ASSUME Regular == DecayHalves /\ BanksAreATree /\ LeavesAreCleared

=============================================================================
