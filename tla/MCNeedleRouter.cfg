SPECIFICATION FairSpec
CONSTANTS
  Callers = {c1, c2}
  Tools = {"a", "b"}
  Catalogs <- MCCatalogs
  MaxTools = 2
  MaxCalls = 3
  MaxLines = 2
  Faults = {"noise", "dies", "full"}
  None = None
INVARIANTS
  TypeOK
  AnswersTheQuery
  OneWorker
PROPERTY EveryRouteReturns
CHECK_DEADLOCK FALSE
