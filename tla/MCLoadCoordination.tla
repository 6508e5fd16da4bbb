------------------------- MODULE MCLoadCoordination -------------------------
(* The constants of the runs of LoadCoordination.                          *)
EXTENDS LoadCoordination

\* "a" looks best and is not; a node of "a" and "c" gets worse than "b".
ThreeLeaves == {"a", "b", "c"}
ThreeValues == [l \in ThreeLeaves |-> IF l = "b" THEN 2 ELSE 3]
ThreeBounds == [l \in ThreeLeaves |-> CASE l = "a" -> 1 [] l = "b" -> 2 [] l = "c" -> 3]

BothModes == BOOLEAN
Waited    == {TRUE}

TwoLeaves == {"a", "b"}
TwoValues == [l \in TwoLeaves |-> IF l = "a" THEN 2 ELSE 1]
=============================================================================
