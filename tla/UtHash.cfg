\* Nine keys on hash values that part at the first doubling, at the third, at the
\* fifth, or never: tables of up to 32 buckets, and doubling given up.
CONSTANTS
  HASH_INITIAL_NUM_BUCKETS_LOG2 = 0
  HASH_BKT_CAPACITY_THRESH = 2
  Hashes = {0, 1, 4, 20}
  MaxItems = 9
SPECIFICATION Spec
INVARIANTS
  Fsck
  FindsWhatWasAdded
  ChainsBounded
  HashInv
