\* Two applications, three traces each, on a queue of two that fills up. The daemon
\* is terminated twice, so that one that finds a leftover socket file comes between
\* two that serve; the disk goes wrong once.
CONSTANTS
  Clients = {c1, c2}
  QueueLen = 2
  MaxTraces = 3
  MaxKills = 2
  MaxFaults = 1
SPECIFICATION FairSpec
INVARIANTS
  TypeOK
  LogInOrder
  OrderInv
  BoundIsReceived
  NoUnexplainedGap
PROPERTIES
  ImplementsTraceLog
  SendReturns
  TraceGetsStored
