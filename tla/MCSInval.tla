------------------------------ MODULE MCSInval ------------------------------
(* Instances of SInval for TLC. *)
EXTENDS SInval, TLC

CONSTANTS b1, b2

Backends2 == {b1, b2}
Symmetry2 == Permutations(Backends2)
=============================================================================
