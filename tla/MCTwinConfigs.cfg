SPECIFICATION Spec
CONSTANTS
  Twins = {t1, t2}
  t1 = t1
  t2 = t2
  NoTwin = NoTwin
  Generators = {g1, g2}
  g1 = g1
  g2 = g2
  Profiles <- SomeProfiles
  MayFail = TRUE
SYMMETRY Symmetry
INVARIANT TypeOK
INVARIANT OutboundConsented
 
INVARIANT ListComplete
