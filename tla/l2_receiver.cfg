CONSTANTS
  Messages <- AllMessages
  MaxMessages = 1
  Commands <- AddAndRemove
  CmdBatch = 2
  Wrap = 2
  MaxStarts = 2
  MaxPending = 1
SPECIFICATION Spec
CHECK_DEADLOCK FALSE
INVARIANTS TypeOK ReportsAreExact ThreadOwnsSocket CodeCountIsReal
PROPERTIES StopClosesThreadSocket
