---------------------------- MODULE MCSyncStore ----------------------------
(* The constants of the runs of SyncStore.                                 *)
EXTENDS SyncStore

TwoSolvers == {0, 1}

\* A limit, the optimum, infeasibility: one status of each branch of
\* SCIPsyncdataSetStatus.
SomeStatuses == {4, OPTIMAL, 12}
OptimalOnly  == {OPTIMAL}
=============================================================================
