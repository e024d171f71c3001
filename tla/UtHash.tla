--------------------------------- MODULE UtHash ---------------------------------
(***************************************************************************)
(* The hash table behind the daemon's table of tags: HASH_FIND and         *)
(* HASH_ADD of identifier-service/src/uthash.h, with the doubling of the   *)
(* buckets that an addition may set off.  tag_id finds, and adds what it   *)
(* has not found; it never deletes.  Module TagStore takes for granted     *)
(* what is checked here: what was added, and nothing else, is found.       *)
(*                                                                         *)
(* The n-th key added is called n.  The hash function may be any: the hash *)
(* of a key is chosen when the key is added.                               *)
(***************************************************************************)
EXTENDS Naturals, Sequences, SequencesExt, FiniteSetsExt

CONSTANTS
  HASH_INITIAL_NUM_BUCKETS_LOG2,
  HASH_BKT_CAPACITY_THRESH,
  Hashes,               \* hash values there are
  MaxItems              \* bound: keys added

ASSUME ThreshAssumption == HASH_BKT_CAPACITY_THRESH \in Nat \ {0}
ASSUME Log2Assumption == HASH_INITIAL_NUM_BUCKETS_LOG2 \in Nat
ASSUME HashesAssumption == Hashes \subseteq Nat
ASSUME ItemsAssumption == MaxItems \in Nat

VARIABLES
  tbl,                  \* the UT_hash_table
  app                   \* the items in the order of their addition, the list
                        \* that next and prev of UT_hash_handle make

(* 1 << n, and what a shift by n divides by. *)
TwoTo[n \in Nat] == IF n = 0 THEN 1 ELSE 2 * TwoTo[n - 1]

EmptyBucket == [chain |-> <<>>, count |-> 0, expand_mult |-> 0]

HASH_MAKE_TABLE ==
  LET n == TwoTo[HASH_INITIAL_NUM_BUCKETS_LOG2]
  IN  [buckets |-> [b \in 0 .. n - 1 |-> EmptyBucket],
       num_buckets |-> n, log2_num_buckets |-> HASH_INITIAL_NUM_BUCKETS_LOG2,
       num_items |-> 0, ideal_chain_maxlen |-> 0, ineff_expands |-> 0, noexpand |-> FALSE]

HASH_TO_BKT(hashv, num_bkts) == hashv % num_bkts

(* The item is found by a walk along the chain of one bucket. *)
HASH_FIND(t, item) ==
  Contains(t.buckets[HASH_TO_BKT(item.hashv, t.num_buckets)].chain, item)

-------------------------------------------------------------------------------
\* Chains that are let grow no longer than any other.
ExpandMult_None(count, ideal) == 0

\* One time more than there are ideal chains in it.
ExpandMult_OneMore(count, ideal) == IF count > ideal THEN count \div ideal + 1 ELSE 0

\* How many times HASH_BKT_CAPACITY_THRESH a chain may grow, and once more,
\* before it sets off the next doubling.
ExpandMult(count, ideal) == IF count > ideal THEN count \div ideal ELSE 0

\* Items distributed over the old number of buckets.
GoesTo_Old(item, b, num_bkts) == HASH_TO_BKT(item.hashv, num_bkts) = b

GoesTo(item, b, num_bkts) == HASH_TO_BKT(item.hashv, 2 * num_bkts) = b

\* The walk along an old chain, as far as it concerns new bucket b: items go in
\* from the front, so that chains turn round.
Moved(old, b, num_bkts) ==
  FoldLeft(LAMBDA chain, item : IF GoesTo(item, b, num_bkts) THEN <<item>> \o chain ELSE chain,
           <<>>, old)

\* The items of new bucket b all come from one old bucket.
NewBucket(t, b, ideal) ==
  LET chain == Moved(t.buckets[HASH_TO_BKT(b, t.num_buckets)].chain, b, t.num_buckets)
  IN  [chain |-> chain, count |-> Len(chain), expand_mult |-> ExpandMult(Len(chain), ideal)]

(* Twice the buckets.  Items past the ideal length of a chain are counted; *)
(* when they are more than half of all, twice in a row, it has been the    *)
(* last time.                                                              *)
HASH_EXPAND_BUCKETS(t) ==
  LET n == 2 * t.num_buckets
      ideal == t.num_items \div TwoTo[t.log2_num_buckets + 1]
                 + (IF t.num_items % n # 0 THEN 1 ELSE 0)
      new == [b \in 0 .. n - 1 |-> NewBucket(t, b, ideal)]
      nonideal == SumFunction([b \in 0 .. n - 1 |-> Max({0, new[b].count - ideal})])
      ineff == IF nonideal > t.num_items \div 2 THEN t.ineff_expands + 1 ELSE 0
  IN  [buckets |-> new, num_buckets |-> n, log2_num_buckets |-> t.log2_num_buckets + 1,
       num_items |-> t.num_items, ideal_chain_maxlen |-> ideal, ineff_expands |-> ineff,
       noexpand |-> t.noexpand \/ ineff > 1]

\* Counting an item when it comes into the table only.
Linked_Uncounted(bkt, item) ==
  [bkt EXCEPT !.chain = <<item>> \o @, !.count = IF @ = 0 THEN 1 ELSE @]

Linked(bkt, item) == [bkt EXCEPT !.chain = <<item>> \o @, !.count = @ + 1]

HASH_ADD_TO_BKT(t, b, item) ==
  LET added == [t EXCEPT !.buckets[b] = Linked(@, item)]
      bkt == added.buckets[b]
  IN  IF bkt.count >= (bkt.expand_mult + 1) * HASH_BKT_CAPACITY_THRESH /\ ~ t.noexpand
        THEN HASH_EXPAND_BUCKETS(added) ELSE added

HASH_ADD(t, item) ==
  HASH_ADD_TO_BKT([t EXCEPT !.num_items = @ + 1],
                  HASH_TO_BKT(item.hashv, t.num_buckets), item)

-------------------------------------------------------------------------------
(* The table is made with the first addition. *)
Init == tbl = HASH_MAKE_TABLE /\ app = <<>>

Add ==
  /\ Len(app) < MaxItems
  /\ \E hashv \in Hashes :
       LET item == [key |-> Len(app) + 1, hashv |-> hashv]
       IN  tbl' = HASH_ADD(tbl, item) /\ app' = Append(app, item)

Full == Len(app) = MaxItems /\ UNCHANGED <<tbl, app>>

Next == Add \/ Full

Spec == Init /\ [][Next]_<<tbl, app>>

-------------------------------------------------------------------------------
Buckets == 0 .. tbl.num_buckets - 1
Items == [key : Nat \ {0}, hashv : Hashes]
BucketTypes == [chain : Seq(Items), count : Nat, expand_mult : Nat]

(* Types; there is always a bucket. *)
TypeOK ==
  /\ tbl \in [buckets : [Buckets -> BucketTypes], num_buckets : Nat \ {0},
              log2_num_buckets : Nat, num_items : Nat, ideal_chain_maxlen : Nat,
              ineff_expands : Nat, noexpand : BOOLEAN]
  /\ app \in Seq(Items)

(* What HASH_FSCK checks in a debugging build, and what the doubling       *)
(* relies on: counts agree with chains and with the list of all items, and *)
(* the number of buckets is the power of two that its logarithm says.      *)
Fsck ==
  /\ tbl.num_buckets = TwoTo[tbl.log2_num_buckets]
  /\ \A b \in Buckets : tbl.buckets[b].count = Len(tbl.buckets[b].chain)
  /\ tbl.num_items = Len(app)
  /\ SumFunction([b \in Buckets |-> tbl.buckets[b].count]) = tbl.num_items

(* What was added, and nothing else, is found, over any number of          *)
(* doublings: every item is in the one chain that HASH_FIND walks along.   *)
FindsWhatWasAdded ==
  /\ \A item \in Range(app) : HASH_FIND(tbl, item)
  /\ \A b \in Buckets : \A item \in Range(tbl.buckets[b].chain) :
       item \in Range(app) /\ HASH_TO_BKT(item.hashv, tbl.num_buckets) = b

(* "a longer yet-still-bounded value" (UT_hash_bucket): between additions  *)
(* no chain is as long as calls for a doubling, unless the items are so    *)
(* many that chains are no longer than ideal; and there are so many        *)
(* buckets that chains have less than twice the threshold on the average.  *)
(* That is so whatever the hash function, until doubling has been given up.*)
ChainsBounded ==
  \/ tbl.noexpand
  \/ /\ \A b \in Buckets :
          \/ tbl.buckets[b].count < (tbl.buckets[b].expand_mult + 1) * HASH_BKT_CAPACITY_THRESH
          \/ tbl.buckets[b].count <= tbl.ideal_chain_maxlen
     /\ tbl.num_items < 2 * HASH_BKT_CAPACITY_THRESH * tbl.num_buckets

(* Chains that are let grow are paid for by others: the multipliers come   *)
(* to one for each bucket at most, which is what keeps the ideal length    *)
(* within the threshold.                                                   *)
GrowthIsPaidFor ==
  /\ SumFunction([b \in Buckets |-> tbl.buckets[b].expand_mult]) <= tbl.num_buckets
  /\ tbl.ideal_chain_maxlen <= HASH_BKT_CAPACITY_THRESH

(* The inductive invariant of the proofs. *)
HashInv == TypeOK /\ Fsck /\ FindsWhatWasAdded /\ ChainsBounded /\ GrowthIsPaidFor
===============================================================================
