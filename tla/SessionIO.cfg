SPECIFICATION FairSpec
CONSTANTS
  PipeSize = 2
  ReadSize = 2
  BufLimit = 2
  InSize = 1
  MaxLines = 4
  Readers = {r1}
  Posts = {p1}
  TailLines = 1
  None = None
INVARIANTS TypeOK AbsentIsAbsent
PROPERTIES ImplementsStream GateReleased WritersReleased
CHECK_DEADLOCK FALSE
