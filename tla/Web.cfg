SPECIFICATION Spec
CONSTANTS
    Tabs = {"a1", "a2", "b1"}
    Owner <- MCOwner
    EnableTest = TRUE
    MaxLogins = 2
    MaxFaults = 1
INVARIANTS
  SessionInv
  LogoutSticks
PROPERTIES
  LoginSticks
