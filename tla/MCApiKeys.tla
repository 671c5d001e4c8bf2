------------------------------ MODULE MCApiKeys ------------------------------
(* Instances of ApiKeys for TLC. *)
EXTENDS ApiKeys, TLC

CONSTANTS u1, u2, k1, k2, k3, a, b, r1, r2

OneUser == {u1}
TwoUsers == {u1, u2}
TwoKeys == {k1, k2}
ThreeKeys == {k1, k2, k3}
OneRequest == {r1}
TwoRequests == {r1, r2}
TwoLabels == {a, b}

Symmetry ==
  Permutations({u1, u2}) \cup Permutations({k1, k2, k3}) \cup Permutations({a, b})
    \cup Permutations({r1, r2})
=============================================================================
