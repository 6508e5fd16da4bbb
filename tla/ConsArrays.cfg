CONSTANTS
  cons1 = cons1
  cons2 = cons2
  cons3 = cons3
  Conss <- Two
  Flags <- EitherFlags
  Ageing = TRUE
  Reenables = FALSE
  Solutions = {"lp", "pseudo"}
  MaxCalls = 2
  MaxRequests = 3
SPECIFICATION Spec
INVARIANTS TypeOK ArraysParted UpdatesAgree NoneOverlooked
PROPERTIES ArraysStill ImplementsConsStates
SYMMETRY Permuted
