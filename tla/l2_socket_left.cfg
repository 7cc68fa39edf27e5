CONSTANTS
  Messages <- OneMessage
  MaxMessages = 1
  Commands <- AddStock
  CmdBatch = 2
  Wrap = 2
  MaxStarts = 2
  MaxPending = 1
SPECIFICATION Spec
CHECK_DEADLOCK FALSE
PROPERTIES StopClosesSocket
