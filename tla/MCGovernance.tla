---------------------------- MODULE MCGovernance ----------------------------
(* Small instances of Governance. *)
EXTENDS Governance, TLC

CONSTANTS p1, p2, r1, r2, r3, r4, none

Beside == {p1}
Nowhere == {}
Interchangeable == Permutations(Receipt)
==============================================================================
