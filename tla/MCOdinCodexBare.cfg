SPECIFICATION SupervisorSpec
CONSTANTS
  Keys = {k1}
  Ids = {1}
  Dirs <- MCOneDir
  Threads = {0, 1, 2}
  KnownThreads = {0}
  Turns = {1, 2}
  Requests = {1, 2}
  MaxCapacity = 2
  MaxOpen = 3
  None = None
  Named = {}
  Emits = {"bare"}
  Questions = {}
  Askers = {}
  Faults = {}
  OwnerDoes = {}
  JournalFails = FALSE
  EarlyLimit = 1
INVARIANT SlotsHaveTurns
CHECK_DEADLOCK FALSE
