SPECIFICATION FairSpec
CONSTANTS
  NPorts = 1
  Banners = {1}
  Conns = {c1, c2}
  c1 = c1
  c2 = c2
  NoConn = NoConn
  MaxPayload = 1
  ReadSize = 2
  MaxSend = 2
  Syslog = TRUE
  MaxFaults = 1
  MaxStarts = 2
CHECK_DEADLOCK FALSE
INVARIANT TypeOK
INVARIANT RecordedPayload
INVARIANT CleanExitRecordsAll
INVARIANT CutsCostOneLine
INVARIANT SessionCountExact
PROPERTY KeepsLog
PROPERTY HandlersFinish
