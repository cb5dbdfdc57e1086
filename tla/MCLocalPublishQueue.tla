----------------------- MODULE MCLocalPublishQueue -----------------------
(* Instances of LocalPublishQueue for TLC. *)
EXTENDS LocalPublishQueue

CONSTANTS j1, j2, p1, t1, t2

OnePage == [j \in Jobs |-> p1]
=============================================================================
