SPECIFICATION Spec
CONSTANTS
  Savers = {s1, s2}
  s1 = s1
  s2 = s2
  MaxScans = 2
  MayFail = FALSE
CHECK_DEADLOCK FALSE
PROPERTY NeverOverwritten
