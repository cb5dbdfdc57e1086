------------------------------ MODULE MCReadyX3 ------------------------------
(* A small instance of ReadyX3 for TLC. *)
EXTENDS ReadyX3, TLC

CONSTANTS j1, j2, j3, q1, q2

RequestSymmetry == Permutations({q1, q2})
=============================================================================
