CONSTANTS
  HeaderSize = 2
  BodySizes = {1, 2}
  ReadBufferSize = 5
  SocketBuffer = 5
  MaxSends = 3
  MaxBreaks = 1
  MaxDepth = 2
SPECIFICATION Spec
CHECK_DEADLOCK FALSE
INVARIANTS
  IntactUnlessTorn
  LockDiscipline
