SPECIFICATION Spec
CONSTANTS
  NPorts = 2
  Banners = {1}
  Conns = {c1}
  c1 = c1
  NoConn = NoConn
  MaxPayload = 2
  ReadSize = 1
  MaxSend = 2
  Syslog = FALSE
  MaxFaults = 0
  MaxStarts = 1
CHECK_DEADLOCK FALSE
INVARIANT PayloadKept
