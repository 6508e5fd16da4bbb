------------------------- MODULE MCConcurrentSolve -------------------------
(* The constants of the runs of ConcurrentSolve.                           *)
EXTENDS ConcurrentSolve

TwoSolvers     == {0, 1}
LimitOrOptimal == {4, OPTIMAL}       \* 4: SCIP_STATUS_STALLNODELIMIT
=============================================================================
