------------------------- MODULE MCMetricsCollection -------------------------
(* Instances of MetricsCollection for TLC. *)
EXTENDS MetricsCollection, TLC
CONSTANTS p1, m1, m2
\* Intervals of two until the publication is old.
ShortCadence == [t \in Time |-> IF t < 4 THEN 2 ELSE 0]
MetricsSymmetry == Permutations(Metrics)
=============================================================================
