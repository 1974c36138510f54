CONSTANTS
  HeaderSize = 2
  BodySizes = {1, 2}
  ReadBufferSize = 3
  SocketBuffer = 4
  MaxSends = 2
  MaxBreaks = 1
  MaxDepth = 1
SPECIFICATION Spec
CHECK_DEADLOCK FALSE
PROPERTY
  HangupReconnects
