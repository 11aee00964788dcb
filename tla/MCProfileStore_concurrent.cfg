SPECIFICATION Spec
CONSTANTS
  Savers = {s1, s2}
  s1 = s1
  s2 = s2
  MaxScans = 4
  MayFail = TRUE
SYMMETRY Symmetry
CHECK_DEADLOCK FALSE
INVARIANT TypeOK
INVARIANT EarlierKept
INVARIANT Correlated
