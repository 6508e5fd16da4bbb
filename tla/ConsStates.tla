----------------------------- MODULE ConsStates -----------------------------
(***************************************************************************)
(* What the functions of cons.h promise of the constraints of one handler: *)
(* every request takes effect at once.  Nothing is said of arrays, and     *)
(* nothing of the callbacks during which requests have to wait.            *)
(***************************************************************************)
CONSTANT Conss

VARIABLES
  active,       \* the constraints that take part in the current subproblem
  enabled,      \* those of them that are enforced, separated, propagated
  propenabled,  \* those whose propagation is switched on
  obsolete      \* those whose age exceeds the limit

vars == <<active, enabled, propenabled, obsolete>>

Init ==
  /\ active = {}
  /\ enabled = {}
  /\ propenabled \subseteq Conss
  /\ obsolete = {}

Activate(c) ==
  /\ c \notin active
  /\ active' = active \union {c}
  /\ enabled' = enabled \union {c}
  /\ UNCHANGED <<propenabled, obsolete>>

Deactivate(c) ==
  /\ c \in active
  /\ active' = active \ {c}
  /\ enabled' = enabled \ {c}
  /\ UNCHANGED <<propenabled, obsolete>>

Enable(c) ==
  /\ c \in active
  /\ enabled' = enabled \union {c}
  /\ UNCHANGED <<active, propenabled, obsolete>>

Disable(c) ==
  /\ enabled' = enabled \ {c}
  /\ UNCHANGED <<active, propenabled, obsolete>>

EnablePropagation(c) ==
  /\ propenabled' = propenabled \union {c}
  /\ UNCHANGED <<active, enabled, obsolete>>

DisablePropagation(c) ==
  /\ propenabled' = propenabled \ {c}
  /\ UNCHANGED <<active, enabled, obsolete>>

AddAge(c) ==
  /\ obsolete' = obsolete \union {c}
  /\ UNCHANGED <<active, enabled, propenabled>>

ResetAge(c) ==
  /\ obsolete' = obsolete \ {c}
  /\ UNCHANGED <<active, enabled, propenabled>>

Next ==
  \E c \in Conss :
    \/ Activate(c)
    \/ Deactivate(c)
    \/ Enable(c)
    \/ Disable(c)
    \/ EnablePropagation(c)
    \/ DisablePropagation(c)
    \/ AddAge(c)
    \/ ResetAge(c)

Spec == Init /\ [][Next]_vars
=============================================================================
