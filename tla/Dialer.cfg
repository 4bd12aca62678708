SPECIFICATION DialerSpec
CONSTANTS
  Dials = {1, 2}
  Options <- TwoDials
  None = None
  ClosesDialer <- Closed
INVARIANTS
  CacheInv
  NothingLeft
PROPERTIES
  DialReturns
CHECK_DEADLOCK FALSE
