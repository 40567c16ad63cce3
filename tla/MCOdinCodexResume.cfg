SPECIFICATION SupervisorSpec
CONSTANTS
  Keys = {k1, k2}
  Ids = {1, 2}
  Dirs <- MCSeparateDirs
  Threads = {0, 1, 2}
  KnownThreads = {0}
  Turns = {1, 2}
  Requests = {1, 2}
  MaxCapacity = 1
  MaxOpen = 3
  None = None
  Named = {0}
  Emits = {"completed"}
  Questions = {}
  Askers = {}
  Faults = {"timeout"}
  OwnerDoes = {"cancel", "confirm"}
  JournalFails = FALSE
  EarlyLimit = 1
SYMMETRY MCKeySymmetry
INVARIANT TurnsHoldSlots
CHECK_DEADLOCK FALSE
