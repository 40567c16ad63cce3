SPECIFICATION FairSpec
CONSTANTS
  Executors = {e1, e2}
  Length = 4
  Needs <- MCFork
  Class <- MCForkClass
  Unchecked = {4}
  Unstable <- MCForkUnstable
  None = None
INVARIANTS
  TypeOK
  NeverRepeated
  ReportIsFresh
  ReportIsClosed
PROPERTIES
  NeverRehabilitated
  EveryCallReturns
CHECK_DEADLOCK FALSE
