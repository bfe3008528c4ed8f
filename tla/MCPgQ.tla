------------------------------- MODULE MCPgQ -------------------------------
(* Instances of PgQ for TLC.                                               *)
EXTENDS PgQ, TLC
CONSTANTS p1, p2, c1, c2

NoLimit == -1
ProducerSymmetry == Permutations(Producer)
=============================================================================
