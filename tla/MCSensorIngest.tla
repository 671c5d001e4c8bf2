--------------------------- MODULE MCSensorIngest ---------------------------
(* Instances of SensorIngest for TLC. *)
EXTENDS SensorIngest, TLC

CONSTANTS s1, r1, r2

OneSensor == {s1}
OneRequest == {r1}
TwoRequests == {r1, r2}
AllKinds == {"meta", "active", "inactive"}
TwoKinds == {"meta", "inactive"}
Symmetry == Permutations({r1, r2})
=============================================================================
