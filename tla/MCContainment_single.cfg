SPECIFICATION Spec
CONSTANTS
  NoMarker = NoMarker
  Setups = {p1}
  Subnets = {n1, n2}
  MaxBoot = 3
  HasBootId = TRUE
  MayAbort = TRUE
  MayTamper = TRUE
  p1 = p1
  n1 = n1
  n2 = n2
INVARIANT TypeOK
INVARIANT MarkerTruthful
INVARIANT InPlaceMeansOrdered
PROPERTY CoverageStable
PROPERTY KeepsPromise
