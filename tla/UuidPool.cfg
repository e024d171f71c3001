\* Three slots: a full draw-down, a refill and restarts at every depth.
CONSTANTS
  CL_MAX_FREE_UUIDS = 3
  MaxUuid = 13
SPECIFICATION Spec
INVARIANTS
  NeverDrawFromEmpty
  NoReissue
  NothingWasted
  PoolInv
PROPERTY ImplementsFreshIds
