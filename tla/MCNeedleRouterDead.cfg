SPECIFICATION Spec
CONSTANTS
  Callers = {c1}
  Tools = {"a", "b"}
  Catalogs <- MCCatalogs
  MaxTools = 2
  MaxCalls = 3
  MaxLines = 1
  Faults = {"dies"}
  None = None
INVARIANT RouteAnswers
CHECK_DEADLOCK FALSE
