SPECIFICATION Spec
CONSTANTS
  Keys = {k1, k2}
  Dirs <- MCThreeDirs
  Threads = {t0, t1}
  KnownThreads = {t0}
  Turns = {u1, u2}
  Requests = {r1}
  MaxCapacity = 2
  MaxOpen = 3
  JournalFails = TRUE
  None = None
INVARIANTS
  TypeOK
  JournalIsMemory
  NoReplay
  SlotsAreSound
PROPERTIES
  FailureStopsAdmission
  KeepsLedger
