------------------------------ MODULE MCBatches ------------------------------
(* A small instance of Batches for TLC. *)
EXTENDS Batches, TLC

CONSTANTS b1, b2, b3, p1, p2

BatchSymmetry == Permutations({b1, b2, b3})
=============================================================================
