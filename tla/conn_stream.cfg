CONSTANTS
  HeaderSize = 2
  BodySizes = {1, 2}
  ReadBufferSize = 3
  SocketBuffer = 4
  MaxSends = 4
  MaxBreaks = 0
  MaxDepth = 1
SPECIFICATION Spec
CHECK_DEADLOCK FALSE
INVARIANTS
  TypeOK
  WriteInterest
PROPERTY
  ImplementsChannel
