--------------------------- MODULE MCTIDGenerator ---------------------------
(* TIDGenerator for TLC.                                                   *)
EXTENDS TIDGenerator, TLC

CONSTANTS t1, t2, t3, t4

Symmetry == Permutations(Threads)
=============================================================================
