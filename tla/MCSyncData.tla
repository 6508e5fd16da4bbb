----------------------------- MODULE MCSyncData -----------------------------
(* The constants of the runs of SyncData.                                  *)
EXTENDS SyncData

MCSolvers == {0, 1, 2}
TwoVars   == {"x", "y"}

\* Up to four solutions, best first, with ties.
SomeSols == {<<1>>, <<2, 2>>, <<1, 1, 2, 2>>}

\* An upper bound that is improved before it is written, bounds of the same
\* sides from different solvers, and merges in different orders.
FewBoundLists ==
    {<<Bound("x", UPPER, 4), Bound("x", UPPER, 3), Bound("y", LOWER, 1)>>,
     <<Bound("y", LOWER, 2), Bound("x", UPPER, 2)>>}
=============================================================================
