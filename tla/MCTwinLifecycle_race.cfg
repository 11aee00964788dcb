SPECIFICATION Spec
CONSTANTS
  Setups = {p1, p2}
  Subnets = {n1}
  MaxBoot = 1
  HasBootId = TRUE
  MayAbort = FALSE
  Twins = {t1}
  Runs = {r1}
  Stops = {q1}
  p1 = p1
  p2 = p2
  n1 = n1
  t1 = t1
  r1 = r1
  q1 = q1
  NoMarker = NoMarker
  NoNetwork = NoNetwork
  EgressSubnet = EgressSubnet
  MacvlanSubnet = MacvlanSubnet
SYMMETRY Symmetry
PROPERTY StartsCovered
