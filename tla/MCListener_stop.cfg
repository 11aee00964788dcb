SPECIFICATION FairSpec
CONSTANTS
  NPorts = 1
  Banners = {1}
  Conns = {c1}
  c1 = c1
  NoConn = NoConn
  MaxPayload = 1
  ReadSize = 1
  MaxSend = 1
  Syslog = FALSE
  MaxFaults = 0
  MaxStarts = 1
CHECK_DEADLOCK FALSE
PROPERTY StopsOnSignal
