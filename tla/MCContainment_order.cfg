SPECIFICATION Spec
CONSTANTS
  NoMarker = NoMarker
  Setups = {p1, p2}
  Subnets = {n1}
  MaxBoot = 1
  HasBootId = TRUE
  MayAbort = TRUE
  MayTamper = FALSE
  p1 = p1
  p2 = p2
  n1 = n1
SYMMETRY Symmetry
INVARIANT SettledRepliesFlow
