SPECIFICATION SupervisorSpec
CONSTANTS
  Keys = {k1}
  Ids = {1}
  Dirs <- MCOneDir
  Threads = {0, 1, 2}
  KnownThreads = {0}
  Turns = {1, 2}
  Requests = {1, 2}
  MaxCapacity = 2
  MaxOpen = 3
  None = None
  Named = {}
  Emits = {"completed", "odd", "approval"}
  Questions <- MCQuestions
  Askers = {1}
  Faults = {"account", "refusal", "timeout", "server", "crash"}
  OwnerDoes = {"pause", "cancel", "confirm", "answer"}
  JournalFails = TRUE
  EarlyLimit = 1
INVARIANTS
  SupervisorTypeOK
  TurnsHoldSlots
  SlotsHaveTurns
  ButtonsWork
  AskingIsShown
PROPERTY Spec
CHECK_DEADLOCK FALSE
