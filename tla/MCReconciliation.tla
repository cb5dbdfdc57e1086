------------------------ MODULE MCReconciliation ------------------------
(* Instances of Reconciliation for TLC. *)
EXTENDS Reconciliation, TLC

CONSTANTS p1, p2, n1, r1, r2

RequestSymmetry == Permutations(Requests)
=============================================================================
