\* Two threads, one call each, at any time; a thread may wait for ever.
CONSTANTS
  Threads = {t1, t2}
  MaxCalls = 1
SPECIFICATION FairSpec
CHECK_DEADLOCK FALSE
PROPERTY CallsReturn
