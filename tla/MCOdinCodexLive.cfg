SPECIFICATION FairSupervisor
CONSTANTS
  Keys = {k1, k2}
  Ids = {1, 2}
  Dirs <- MCSeparateDirs
  Threads = {0, 1, 2}
  KnownThreads = {0}
  Turns = {1, 2}
  Requests = {1, 2}
  MaxCapacity = 2
  MaxOpen = 3
  None = None
  Named = {}
  Emits = {"completed", "approval"}
  Questions <- MCAnswerable
  Askers = {1}
  Faults = {"server", "refusal"}
  OwnerDoes = {"answer"}
  JournalFails = FALSE
  EarlyLimit = 1
SYMMETRY MCKeySymmetry
PROPERTIES
  EveryJobEnds
  LossIsReported
CHECK_DEADLOCK FALSE
