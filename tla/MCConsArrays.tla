---------------------------- MODULE MCConsArrays ----------------------------
(* Constants of the runs of ConsArrays.                                    *)
EXTENDS ConsArrays, TLC

CONSTANTS cons1, cons2, cons3

Two   == {cons1, cons2}
Three == {cons1, cons2, cons3}
Enforced(set)   == [check |-> set, enforce |-> set, propagate |-> {}]
Propagated(set) == [check |-> {}, enforce |-> {}, propagate |-> set]
EitherFlags     == {Enforced(Two), Propagated(Two)}
ForEnforcement  == {Enforced(Three)}
Permuted        == Permutations(Two)
=============================================================================
