SPECIFICATION Spec
CONSTANTS
  Streams = {s1}
  MaxStreams = 1
  MaxSends = 1
  MaxResponses = 4
  MaxFaults = 1
  Responses = {"H", "M", "Tok", "Terr"}
  MayClose = TRUE
INVARIANTS
  StreamInv
PROPERTIES
  DoneStreamsReleased
  CloseReturnsUnlessBlocked
CHECK_DEADLOCK FALSE
