\* One application asks twice; the daemon is terminated once.
CONSTANTS
  Clients = {c1}
  Requests <- GetOnly
  ClIds <- MCClIds
  Strings <- MCStrings
  Residue <- CleanStack
  NoId = NoId
  a = a
  b = b
  id1 = id1
  id2 = id2
  BACKLOG = 0
  CL_MAX_FREE_UUIDS = 2
  MaxUuid = 10
  MaxCalls = 2
  MaxKills = 1
  MaxCrashes = 0
  DERRIVED_LEN = 4
SPECIFICATION Spec
INVARIANT ReturnedIdsFresh
