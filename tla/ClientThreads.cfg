\* Two threads, two calls each, at any time; a thread may wait for ever.
CONSTANTS
  Threads = {t1, t2}
  MaxCalls = 2
SPECIFICATION Spec
CHECK_DEADLOCK FALSE
INVARIANTS
  TypeOK
  NotSharedByThreads
  RaceLeavesNoSocket
  ThreadsInv
