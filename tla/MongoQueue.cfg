SPECIFICATION Spec
CONSTANTS
  Operators = {"o1"}
  Calls = {"c1"}
  Answerers = {a1, a2}
  Hosts = {"h1"}
  None = None
  CallerOf <- Callers
  HostOf <- OneHost
  AnswererOf <- AnswerersSame
  HostsOf <- AnswerOne
  MaxHostCallers = 1
  MaxHostAnswerers = 1
  ExchangeCap = 1
  MaxSaid = 1
  MaxEvents = 1
SYMMETRY Alike
INVARIANTS
  QueueInv
PROPERTIES
  QueueSpec
CHECK_DEADLOCK FALSE
