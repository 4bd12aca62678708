CONSTANTS
  Calls = {"unary", "stream", "peer"}
  Streams = {"stream", "peer"}
  OverHTTP = {"unary"}
  Methods <- MCMethods
  Setups <- MCSetups
  Ext <- MCExt
  MaxFaults = 1
SPECIFICATION Spec
INVARIANTS
  AccessInv
PROPERTIES
  
  StopsForGood
  Recovers
CHECK_DEADLOCK FALSE
