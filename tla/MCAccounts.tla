----------------------------- MODULE MCAccounts -----------------------------
(* Instances of Accounts for TLC: one user, onboarded by two overlapping   *)
(* batches, which may name the user twice.                                 *)
EXTENDS Accounts

CONSTANTS a, q1, q2

OneEmail == {a}
BatchOfOne == {<<a>>}
NamedTwice == {<<a, a>>}
TwoRequests == {q1, q2}
Symmetry == Permutations({q1, q2})
=============================================================================
