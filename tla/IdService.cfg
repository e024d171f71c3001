\* Two applications, two calls each. One may die in the middle of a call; the daemon
\* may be terminated, or give up on accept(), between any two steps, and is started
\* again, at first onto the socket file its predecessor left behind. "ab" with what
\* is left on the stack, "b", fills derrived_id.
CONSTANTS
  Clients = {c1, c2}
  Requests <- MCRequests
  ClIds <- MCClIds
  Strings <- MCStrings
  Residue <- MCResidue
  NoId = NoId
  a = a
  b = b
  id1 = id1
  id2 = id2
  BACKLOG = 0
  CL_MAX_FREE_UUIDS = 2
  MaxUuid = 10
  MaxCalls = 2
  MaxKills = 1
  MaxCrashes = 1
  DERRIVED_LEN = 3
SPECIFICATION Spec
SYMMETRY Interchangeable
INVARIANTS
  TypeOK
  IdsNotShared
  LockStep
  TagIsWhatWasSent
  OneEntryPerKey
  NoLeakedSocket
PROPERTIES
  PoolUsedAsSpecified
  ImplementsTagMap
