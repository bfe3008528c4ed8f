------------------------------ MODULE MCLWLock ------------------------------
(* Instances of LWLock for TLC. *)
EXTENDS LWLock, TLC

CONSTANTS p1, p2, p3, plain, plain2, insert

Procs3 == {p1, p2, p3}
Procs2 == {p1, p2}
RankOne == insert :> 1
RankPlain == plain :> 1 @@ plain2 :> 2

Symmetry3 == Permutations(Procs3)
=============================================================================
