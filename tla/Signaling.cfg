SPECIFICATION Spec
CONSTANTS
  Calls = {"c1"}
  Attempts = {1}
  Hosts = {"h1"}
  HostOf <- OneHost
  AnswerHosts <- AnswerOne
  MaxAnswerers = 1
  MaxCands = 1
  CallerCands = 1
  NoTrickle = {}
  MaxFaults = 1
INVARIANTS
  ExchangeInv
PROPERTIES
  AnswerReturns
  OffersForgotten
  AnswererStopReturns
CHECK_DEADLOCK FALSE
