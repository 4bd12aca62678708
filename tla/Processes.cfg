SPECIFICATION Spec
CONSTANTS
  Procs = {"one", "two", "three"}
  OneShot = {"two"}
  IDs = {"a", "b"}
  IdOf <- Ids
  None = none
  MaxFaults = 1
INVARIANTS
  StopLeavesNothing
  ManagerLeavesNothing
PROPERTIES
  NoStartAfterStop
  ManagerReturns
CHECK_DEADLOCK FALSE
