SPECIFICATION Spec
CONSTANTS
  Streams = {s1}
  MaxTickets = 1
  MaxStreams = 1
  MaxRequests = 4
  MaxSends = 1
  MaxFaults = 1
  MayStop = FALSE
  ClientSends = {"unary", "stream", "msg", "msgEos", "eos", "nilPacket", "rst"}
  Pump = pump
  NoProc = none
INVARIANTS
  NoSendOnClosed
  DeliveryInv
PROPERTIES
  CancelledCallsEnd
CHECK_DEADLOCK FALSE
