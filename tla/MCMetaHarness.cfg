SPECIFICATION Spec
CONSTANTS
  Harnesses = {h1, h2}
  Catalog <- MCCatalog
  Requests <- MCRequests
  Limits <- MCLimits
  Destructive = {"delete"}
  MaxSteps = 3
  Errors = {"e1", "e2"}
  None = None
INVARIANTS
  TypeOK
  BudgetsHold
  RunsOnce
  SessionIsTrue
CHECK_DEADLOCK FALSE
