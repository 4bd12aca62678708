SPECIFICATION ChannelSpec
CONSTANTS
  Writers = {w1, w2}
  Readers = {w2}
  Closers = {"user", "callback"}
  Users = {"user"}
  Threshold = 3
  MsgSize = 2
  MaxWrites = 2
  MaxIce = 1
  MayLose = TRUE
INVARIANTS
  ChannelInv
PROPERTIES
  WriteProgress
  CloseReturnsUnlessStuck
CHECK_DEADLOCK FALSE
