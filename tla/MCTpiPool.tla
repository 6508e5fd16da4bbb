----------------------------- MODULE MCTpiPool -----------------------------
(* The constants of the runs of TpiPool.                                   *)
EXTENDS TpiPool, TLC

MCRetcodes == {0, 1}     \* SCIP_ERROR, SCIP_OKAY

Symmetry == Permutations(Workers) \cup Permutations(Jobs)

=============================================================================
