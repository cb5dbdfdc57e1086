---------------------- MODULE MCDispatchActivation ----------------------
(* Instances of DispatchActivation for TLC. *)
EXTENDS DispatchActivation

CONSTANTS j1, j2, w1, a1, a2

(* The first job is recovered twice, the second is a bystander. *)
Recoveries == [j \in Jobs |-> IF j = j1 THEN 2 ELSE 0]
=============================================================================
