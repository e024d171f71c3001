\* The stack may hold one more character behind the bytes that were read.
CONSTANTS
  Clients = {c1}
  Requests <- OneTag
  ClIds <- MCClIds
  Strings <- MCStrings
  Residue <- MCResidue
  NoId = NoId
  a = a
  b = b
  id1 = id1
  id2 = id2
  BACKLOG = 0
  CL_MAX_FREE_UUIDS = 2
  MaxUuid = 8
  MaxCalls = 1
  MaxKills = 0
  MaxCrashes = 0
  DERRIVED_LEN = 4
SPECIFICATION Spec
INVARIANT DerrivedArrives
