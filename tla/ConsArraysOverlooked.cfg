CONSTANTS
  cons1 = cons1
  cons2 = cons2
  cons3 = cons3
  Conss <- Three
  Flags <- ForEnforcement
  Ageing = FALSE
  Reenables = FALSE
  Solutions = {"lp"}
  MaxCalls = 1
  MaxRequests = 1
SPECIFICATION Spec
INVARIANT NoneEverOverlooked
SYMMETRY Permuted
