SPECIFICATION Spec
CONSTANTS
  Streams = {s1, s2}
  MaxTickets = 1
  MaxStreams = 1
  MaxRequests = 4
  MaxSends = 0
  MaxFaults = 0
  MayStop = TRUE
  ClientSends = {"stream", "unknown", "rst"}
  Pump = pump
  NoProc = none
INVARIANTS
  TicketsBound
  StopWaitsForHandlers
PROPERTIES
  StopReturnsUnlessRefused
CHECK_DEADLOCK FALSE
