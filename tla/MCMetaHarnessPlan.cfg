SPECIFICATION Spec
CONSTANTS
  Harnesses = {h1}
  Catalog <- MCCatalog
  Requests <- MCQuickFix
  Limits <- MCEasy
  Destructive = {}
  MaxSteps = 20
  Errors = {"e1"}
  None = None
INVARIANT PlansCanPass
CHECK_DEADLOCK FALSE
