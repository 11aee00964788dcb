SPECIFICATION Spec
CONSTANTS
  Setups = {p1}
  Subnets = {n1, n2}
  MaxBoot = 2
  HasBootId = TRUE
  MayAbort = FALSE
  Twins = {t1}
  Runs = {r1}
  Stops = {q1}
  p1 = p1
  n1 = n1
  n2 = n2
  t1 = t1
  r1 = r1
  q1 = q1
  NoMarker = NoMarker
  NoNetwork = NoNetwork
  EgressSubnet = EgressSubnet
  MacvlanSubnet = MacvlanSubnet
SYMMETRY Symmetry
INVARIANT TypeOK
INVARIANT DeniedTwinsCovered
