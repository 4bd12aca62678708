SPECIFICATION Spec
CONSTANTS
  Cands = {1, 2}
  FirstHost = 1
  MaxTracks = 2
  MaxFaults = 1
INVARIANTS
  CallInv
  NothingLeft
PROPERTIES
  Ends
  TracksKnown
CHECK_DEADLOCK FALSE
