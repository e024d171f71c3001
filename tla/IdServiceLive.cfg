\* Fair runs of three applications, so that one is served, one waits in the backlog
\* and one in connect(); the daemon may be lost once and an application may die. One of
\* the two names that are tagged fills derrived_id.
CONSTANTS
  Clients = {c1, c2, c3}
  Requests <- Divided
  ClIds <- MCClIds
  Strings <- MCStrings
  Residue <- CleanStack
  NoId = NoId
  a = a
  b = b
  id1 = id1
  id2 = id2
  BACKLOG = 0
  CL_MAX_FREE_UUIDS = 1
  MaxUuid = 10
  MaxCalls = 1
  MaxKills = 1
  MaxCrashes = 1
  DERRIVED_LEN = 2
SPECIFICATION FairSpec
INVARIANT
  IdInv
PROPERTIES
  CallsReturn
  DaemonComesBack
  TagGetsStored
