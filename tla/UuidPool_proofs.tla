---------------------------- MODULE UuidPool_proofs ----------------------------
(***************************************************************************)
(* Proofs about the UUID pool, for every pool size and every clock.  The   *)
(* inductive invariant is PoolInv: the history can stay free of duplicates *)
(* only because the UUIDs still in the pool differ from each other and     *)
(* from every one drawn (ReadyFresh), and a refill keeps that because the  *)
(* clock is past all of them (DrawnFromClock).                             *)
(***************************************************************************)
EXTENDS UuidPool, SequenceLemmas, TLAPS

(* A refill of a pool with nothing ready gives every slot a UUID the clock *)
(* had not shown before, all different.  The two calls of                  *)
(* update_uuid_pool are such: a head of 0 before any draw, a head of -1.   *)
LEMMA Refill ==
  ASSUME TypeOK, uuid_list_hd \in {-1, 0}, update_uuid_pool
  PROVE  /\ uuid_list' \in [Slots -> 0 .. MaxUuid]
         /\ uuid_list_hd' = CL_MAX_FREE_UUIDS - 1
         /\ generated' = generated + CL_MAX_FREE_UUIDS
         /\ generated' \in 0 .. MaxUuid
         /\ \A i \in Slots : uuid_list'[i] = generated + 1 + i
<1>. USE PoolAssumption, ClockAssumption DEF TypeOK, Slots
<1>. DEFINE first == IF uuid_list_hd < 0 THEN 0 ELSE uuid_list_hd
<1>1. first = 0
  OBVIOUS
<1>2. /\ generated + (CL_MAX_FREE_UUIDS - first) <= MaxUuid
      /\ uuid_list' = [i \in Slots |-> IF i >= first
                                         THEN generated + 1 + (i - first)
                                         ELSE uuid_list[i]]
      /\ generated' = generated + (CL_MAX_FREE_UUIDS - first)
      /\ uuid_list_hd' = CL_MAX_FREE_UUIDS - 1
  BY DEF update_uuid_pool, LastSlot
<1>. HIDE DEF first
<1>3. /\ generated' = generated + CL_MAX_FREE_UUIDS
      /\ generated' \in 0 .. MaxUuid
  BY <1>1, <1>2
<1>4. \A i \in Slots : uuid_list'[i] = generated + 1 + i
  BY <1>1, <1>2
<1>5. uuid_list' = [i \in Slots |-> uuid_list'[i]]
  BY <1>2, Zenon
<1>6. \A i \in Slots : generated + 1 + i \in 0 .. MaxUuid
  BY <1>1, <1>2
<1>7. uuid_list' \in [Slots -> 0 .. MaxUuid]
  BY <1>4, <1>5, <1>6
<1>. QED
  BY <1>2, <1>3, <1>4, <1>7

(* A daemon that has not been started: the clock has shown nothing. *)
LEMMA InitInv == Init => PoolInv
<1>. SUFFICES ASSUME Init PROVE PoolInv
  OBVIOUS
<1>. USE PoolAssumption, ClockAssumption DEF Init
<1>1. TypeOK
  BY DEF TypeOK, EmptyPool, NilUuid, Phases, Slots
<1>2. DOMAIN issued = {}
  OBVIOUS
<1>3. NothingWasted
  BY DEF NothingWasted, Ready
<1>. QED
  BY <1>1, <1>2, <1>3 DEF PoolInv, NeverDrawFromEmpty, NoReissue, DrawnFromClock,
    ReadyFresh, StartsAtZero

(* A fill that turns a pool with nothing ready into a full one. *)
LEMMA FillInv ==
  ASSUME PoolInv, uuid_list_hd \in {-1, 0}, update_uuid_pool,
         phase = "drawn" => uuid_list_hd = -1, phase # "idle",
         phase' = "idle", UNCHANGED <<issued, lost>>
  PROVE  PoolInv'
<1>. USE PoolAssumption, ClockAssumption DEF PoolInv
<1>1. /\ uuid_list' \in [Slots -> 0 .. MaxUuid]
      /\ uuid_list_hd' = CL_MAX_FREE_UUIDS - 1
      /\ generated' = generated + CL_MAX_FREE_UUIDS
      /\ generated' \in 0 .. MaxUuid
      /\ \A i \in Slots : uuid_list'[i] = generated + 1 + i
  BY Refill
<1>2. TypeOK'
  BY <1>1 DEF TypeOK, Phases
<1>3. NeverDrawFromEmpty'
  BY <1>1 DEF NeverDrawFromEmpty, Slots
<1>4. NoReissue'
  BY DEF NoReissue
<1>5. NothingWasted'
  <2>1. Ready = 0 /\ Ready' = CL_MAX_FREE_UUIDS
    BY <1>1 DEF Ready, TypeOK, Phases
  <2>2. issued \in Seq(0 .. MaxUuid) /\ lost \in Nat /\ generated \in Nat
    BY DEF TypeOK
  <2>. QED
    BY <1>1, <2>1, <2>2, LenProperties DEF NothingWasted
<1>6. DrawnFromClock'
  BY <1>1 DEF DrawnFromClock, TypeOK
<1>7. ReadyFresh'
  BY <1>1 DEF ReadyFresh, DrawnFromClock, TypeOK, Slots
<1>8. StartsAtZero'
  BY DEF StartsAtZero
<1>. QED
  BY <1>2, <1>3, <1>4, <1>5, <1>6, <1>7, <1>8

(* A draw hands out the UUID at the head, which nobody had; those below it *)
(* stay new and different.                                                 *)
LEMMA DrawInv == PoolInv /\ DrawUuid => PoolInv'
<1>. SUFFICES ASSUME PoolInv, DrawUuid PROVE PoolInv'
  OBVIOUS
<1>. USE PoolAssumption, ClockAssumption DEF PoolInv
<1>1. /\ phase = "idle" /\ phase' = "drawn"
      /\ uuid_list' = uuid_list /\ generated' = generated /\ lost' = lost
      /\ uuid_list_hd' = uuid_list_hd - 1
      /\ issued' = Append(issued, Drawn)
  BY DEF DrawUuid, next_uuid
<1>2. /\ uuid_list_hd \in Slots
      /\ Drawn = uuid_list[uuid_list_hd]
      /\ Drawn \in 1 .. generated
      /\ Drawn \in 0 .. MaxUuid
      /\ \A k \in DOMAIN issued : issued[k] # Drawn
  BY <1>1 DEF NeverDrawFromEmpty, Drawn, ReadyFresh, TypeOK, Slots
<1>3. issued \in Seq(0 .. MaxUuid) /\ lost \in Nat /\ generated \in 0 .. MaxUuid
  BY DEF TypeOK
<1>4. /\ issued' \in Seq(0 .. MaxUuid)
      /\ Len(issued') = Len(issued) + 1
      /\ DOMAIN issued' = DOMAIN issued \cup {Len(issued) + 1}
      /\ \A k \in DOMAIN issued : issued'[k] = issued[k] /\ k # Len(issued) + 1
      /\ issued'[Len(issued) + 1] = Drawn
  BY <1>1, <1>2, <1>3, AppendEntry
<1>5. TypeOK'
  BY <1>1, <1>2, <1>4 DEF TypeOK, Phases, Slots
<1>6. NeverDrawFromEmpty' /\ StartsAtZero'
  BY <1>1 DEF NeverDrawFromEmpty, StartsAtZero
<1>7. NoReissue'
  BY <1>2, <1>4, Zenon DEF NoReissue
<1>8. NothingWasted'
  <2>1. Ready = uuid_list_hd + 1 /\ Ready' = uuid_list_hd
    BY <1>1, <1>2 DEF Ready, Slots
  <2>. QED
    BY <1>1, <1>2, <1>3, <1>4, <2>1, LenProperties DEF NothingWasted, Slots
<1>9. DrawnFromClock'
  BY <1>1, <1>2, <1>4 DEF DrawnFromClock
<1>10. ReadyFresh'
  <2>. SUFFICES ASSUME NEW i \in 0 .. uuid_list_hd - 1
                PROVE  /\ uuid_list[i] \in 1 .. generated
                       /\ \A j \in 0 .. uuid_list_hd - 1 :
                            uuid_list[i] = uuid_list[j] => i = j
                       /\ \A k \in DOMAIN issued' : issued'[k] # uuid_list[i]
    BY <1>1 DEF ReadyFresh
  <2>1. i \in 0 .. uuid_list_hd /\ i # uuid_list_hd /\ uuid_list_hd \in 0 .. uuid_list_hd
    BY <1>2 DEF Slots
  <2>2. /\ uuid_list[i] \in 1 .. generated
        /\ \A j \in 0 .. uuid_list_hd : uuid_list[i] = uuid_list[j] => i = j
        /\ \A k \in DOMAIN issued : issued[k] # uuid_list[i]
    BY <1>1, <2>1 DEF ReadyFresh
  <2>3. uuid_list[i] # Drawn
    BY <1>2, <2>1, <2>2
  <2>4. \A k \in DOMAIN issued' : issued'[k] # uuid_list[i]
    BY <1>4, <2>2, <2>3
  <2>5. \A j \in 0 .. uuid_list_hd - 1 : j \in 0 .. uuid_list_hd
    BY <1>2 DEF Slots
  <2>. QED
    BY <2>2, <2>4, <2>5
<1>. QED
  BY <1>5, <1>6, <1>7, <1>8, <1>9, <1>10

(* The check after a draw refills a pool that is down to a head of -1, and *)
(* leaves any other alone.                                                 *)
LEMMA CheckInv == PoolInv /\ CheckPool => PoolInv'
<1>. SUFFICES ASSUME PoolInv, CheckPool PROVE PoolInv'
  OBVIOUS
<1>1. /\ phase = "drawn" /\ phase' = "idle" /\ UNCHANGED <<issued, lost>>
      /\ check_pool
  BY DEF CheckPool
<1>2. CASE uuid_list_hd = -1
  BY <1>1, <1>2, FillInv DEF check_pool
<1>3. CASE uuid_list_hd # -1
  <2>1. UNCHANGED poolVars
    BY <1>1, <1>3 DEF check_pool
  <2>. QED
    BY <1>1, <1>3, <2>1, PoolAssumption
    DEF poolVars, PoolInv, TypeOK, Phases, Slots, NeverDrawFromEmpty, NoReissue,
        NothingWasted, Ready, DrawnFromClock, ReadyFresh, StartsAtZero
<1>. QED
  BY <1>2, <1>3

(* A daemon that goes away loses what was ready, and only that. *)
LEMMA ExitInv == PoolInv /\ Exit => PoolInv'
<1>. SUFFICES ASSUME PoolInv, Exit PROVE PoolInv'
  OBVIOUS
<1>. USE PoolAssumption, ClockAssumption DEF PoolInv
<1>1. /\ phase # "start" /\ phase' = "start"
      /\ uuid_list' = EmptyPool /\ uuid_list_hd' = 0
      /\ lost' = lost + Ready
      /\ generated' = generated /\ issued' = issued
  BY DEF Exit
<1>2. TypeOK'
  BY <1>1 DEF TypeOK, EmptyPool, NilUuid, Phases, Slots, Ready
<1>3. NothingWasted'
  <2>1. Ready \in Int /\ Ready' = 0
    BY <1>1 DEF Ready, TypeOK
  <2>. QED
    BY <1>1, <2>1, LenProperties DEF NothingWasted, TypeOK
<1>. QED
  BY <1>1, <1>2, <1>3 DEF NeverDrawFromEmpty, NoReissue, DrawnFromClock,
    ReadyFresh, StartsAtZero

(* PoolInv is inductive: main's first fill, a draw, the check after it,    *)
(* and the loss of the daemon all keep it.                                 *)
LEMMA StepInv == PoolInv /\ [Next]_vars => PoolInv'
<1>. SUFFICES ASSUME PoolInv, [Next]_vars PROVE PoolInv'
  OBVIOUS
<1>1. CASE Start
  <2>1. /\ phase = "start" /\ update_uuid_pool /\ phase' = "idle"
        /\ UNCHANGED <<issued, lost>>
    BY <1>1 DEF Start
  <2>2. uuid_list_hd = 0
    BY <2>1 DEF PoolInv, StartsAtZero
  <2>. QED
    BY <2>1, <2>2, FillInv
<1>2. CASE DrawUuid
  BY <1>2, DrawInv
<1>3. CASE CheckPool
  BY <1>3, CheckInv
<1>4. CASE Exit
  BY <1>4, ExitInv
<1>5. CASE UNCHANGED vars
  BY <1>5 DEF vars, PoolInv, TypeOK, NeverDrawFromEmpty, NoReissue, NothingWasted,
    Ready, DrawnFromClock, ReadyFresh, StartsAtZero
<1>6. CASE ClockSpent
  BY <1>5, <1>6 DEF ClockSpent
<1>. QED
  BY <1>1, <1>2, <1>3, <1>4, <1>5, <1>6 DEF Next

(* The inductive invariant holds in every reachable state. *)
THEOREM Invariance == Spec => []PoolInv
<1>. QED
  BY InitInv, StepInv, PTL DEF Spec

-------------------------------------------------------------------------------
(* The state of the pool keeps its types: the head stays within -1 .. the  *)
(* last slot whatever the sequence of requests, refills and restarts.      *)
THEOREM TypeCorrect == Spec => []TypeOK
<1>1. PoolInv => TypeOK
  BY DEF PoolInv
<1>. QED
  BY <1>1, Invariance, PTL

(* next_uuid never reads outside uuid_list, for any pool size. *)
THEOREM DrawsInBounds == Spec => []NeverDrawFromEmpty
<1>1. PoolInv => NeverDrawFromEmpty
  BY DEF PoolInv
<1>. QED
  BY <1>1, Invariance, PTL

(* The pool never hands out a UUID twice, over refills and restarts. *)
THEOREM NeverReissued == Spec => []NoReissue
<1>1. PoolInv => NoReissue
  BY DEF PoolInv
<1>. QED
  BY <1>1, Invariance, PTL

(* A refill never overwrites a UUID that was still to be drawn. *)
THEOREM AllAccounted == Spec => []NothingWasted
<1>1. PoolInv => NothingWasted
  BY DEF PoolInv
<1>. QED
  BY <1>1, Invariance, PTL

(* The pool implements a source of fresh identifiers: a draw is an Issue   *)
(* of a proper, new identifier, every other step a stutter.                *)
THEOREM Refinement == Spec => ImplementsFreshIds
<1>1. Init => Abstract!Init
  BY DEF Init, Abstract!Init
<1>2. PoolInv /\ [Next]_vars => [Abstract!Next]_issued
  <2>. SUFFICES ASSUME PoolInv, [Next]_vars PROVE [Abstract!Next]_issued
    OBVIOUS
  <2>1. CASE DrawUuid
    <3>1. phase = "idle" /\ issued' = Append(issued, Drawn)
      BY <2>1 DEF DrawUuid
    <3>2. /\ Drawn \in Uuids
          /\ \A k \in DOMAIN issued : issued[k] # Drawn
      BY <3>1, PoolAssumption, ClockAssumption
      DEF PoolInv, NeverDrawFromEmpty, Drawn, ReadyFresh, TypeOK, Slots, Uuids
    <3>3. Drawn \notin Range(issued)
      BY <3>2, Zenon DEF Range
    <3>. QED
      BY <3>1, <3>2, <3>3, Zenon DEF Abstract!Next, Abstract!Issue, Abstract!Range, Range
  <2>2. CASE Start \/ CheckPool \/ Exit \/ ClockSpent \/ UNCHANGED vars
    BY <2>2 DEF Start, CheckPool, Exit, ClockSpent, vars
  <2>. QED
    BY <2>1, <2>2 DEF Next
<1>. QED
  BY <1>1, <1>2, Invariance, PTL DEF Spec, ImplementsFreshIds, Abstract!Spec
===============================================================================
