---------------------------- MODULE MCEventQueue ----------------------------
(* The constants of the run of EventQueue.                                 *)
EXTENDS EventQueue

\* "y" is tracked only when a handler has caught its events.
TwoVars     == {"x", "y"}
ColumnVars  == {"x"}
ThreeBounds == 0..2

\* "both" hears of every change of "x", "up" only of its tightenings.
ThreeHandlers == {"both", "up", "other"}
ThreeVar   == [h \in ThreeHandlers |-> IF h = "other" THEN "y" ELSE "x"]
ThreeTypes == [h \in ThreeHandlers |-> IF h = "up" THEN {"tightened"} ELSE Types]
=============================================================================
