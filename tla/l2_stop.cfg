CONSTANTS
  Messages <- OneMessage
  MaxMessages = 2
  Commands <- AddStock
  CmdBatch = 2
  Wrap = 2
  MaxStarts = 1
  MaxPending = 1
SPECIFICATION FairSpec
CHECK_DEADLOCK FALSE
PROPERTIES StopReturns ReportsWhenQuiet
