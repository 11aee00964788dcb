SPECIFICATION Spec
CONSTANTS
  NoMarker = NoMarker
  Setups = {p1, p2}
  Subnets = {n1, n2}
  MaxBoot = 2
  HasBootId = TRUE
  MayAbort = FALSE
  MayTamper = FALSE
  p1 = p1
  p2 = p2
  n1 = n1
  n2 = n2
SYMMETRY Symmetry
INVARIANT SettledEffective
INVARIANT SettledTruthful
