SPECIFICATION Spec
CONSTANTS
  PipeSize = 1
  MaxLines = 2
CHECK_DEADLOCK FALSE
INVARIANT TypeOK
INVARIANT NothingLeft
INVARIANT XmlComplete
INVARIANT RightError
PROPERTY PipesDrained
PROPERTY AlwaysEnds
