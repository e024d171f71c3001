------------------------------- MODULE UuidPool -------------------------------
(***************************************************************************)
(* The pool of ready-made UUIDs of the identifier daemon                   *)
(* (identifier-service/src/id_generator.c) together with the order in      *)
(* which its two callers use it: main() fills the pool once before it      *)
(* starts to listen (clacksidd.c), and send_uuid() draws one UUID, writes  *)
(* it to the client and then checks whether the pool has to be refilled    *)
(* (id_dom_socket.c).                                                      *)
(*                                                                         *)
(* uuid_generate_time_safe() belongs to libuuid: its k-th call in the      *)
(* history of the machine returns the UUID k, so UUIDs differ because the  *)
(* clock they are made from moves on, across restarts of the daemon too.   *)
(* The clock has MaxUuid readings.                                         *)
(***************************************************************************)
EXTENDS Integers, Sequences, Functions

CONSTANTS
  CL_MAX_FREE_UUIDS,    \* slots of the pool
  MaxUuid               \* readings of the UUID clock

ASSUME PoolAssumption == CL_MAX_FREE_UUIDS \in Nat \ {0}
ASSUME ClockAssumption == MaxUuid \in Nat

VARIABLES
  uuid_list,            \* the slots
  uuid_list_hd,         \* index of the next UUID to draw, -1 when none is left
  generated,            \* UUIDs the clock has produced so far
  phase,                \* where the caller of the pool is
  issued,               \* history: the UUIDs drawn, oldest first
  lost                  \* history: UUIDs generated but never drawn because the
                        \* daemon went away with them

poolVars == <<uuid_list, uuid_list_hd, generated>>
vars == <<uuid_list, uuid_list_hd, generated, phase, issued, lost>>

Slots == 0 .. CL_MAX_FREE_UUIDS - 1
NilUuid == 0            \* an all-zero uuid_t, what static memory holds
Uuids == 1 .. MaxUuid
EmptyPool == [i \in Slots |-> NilUuid]

(* "start": the process has not filled the pool yet (or there is none);    *)
(* "idle": the daemon listens; "drawn": between next_uuid and check_pool.  *)
Phases == {"start", "idle", "drawn"}

\* How many UUIDs lie ready in the pool.
Ready == IF phase = "start" THEN 0 ELSE uuid_list_hd + 1

-------------------------------------------------------------------------------
Init ==
  /\ uuid_list = EmptyPool
  /\ uuid_list_hd = 0
  /\ generated = 0
  /\ phase = "start"
  /\ issued = <<>>
  /\ lost = 0

\* Where a fill leaves the head.
LastSlot_PastEnd == CL_MAX_FREE_UUIDS

LastSlot == CL_MAX_FREE_UUIDS - 1

\* Every slot from the head on gets a UUID of its own; the head moves to the
\* last slot.
update_uuid_pool ==
  LET first == IF uuid_list_hd < 0 THEN 0 ELSE uuid_list_hd
      fresh == CL_MAX_FREE_UUIDS - first
  IN  /\ generated + fresh <= MaxUuid
      /\ uuid_list' = [i \in Slots |-> IF i >= first THEN generated + 1 + (i - first)
                                       ELSE uuid_list[i]]
      /\ generated' = generated + fresh
      /\ uuid_list_hd' = LastSlot

\* The UUID that next_uuid copies out.
Drawn == uuid_list[uuid_list_hd]

\* next_uuid that forgets to move the head.
next_uuid_KeepHead == UNCHANGED poolVars

next_uuid ==
  /\ uuid_list_hd' = uuid_list_hd - 1
  /\ UNCHANGED <<uuid_list, generated>>

\* check_pool that tests for the last slot instead of the empty pool.
check_pool_OffByOne ==
  IF uuid_list_hd = 0 THEN update_uuid_pool ELSE UNCHANGED poolVars

\* check_pool that never refills.
check_pool_Never == UNCHANGED poolVars

check_pool ==
  IF uuid_list_hd = -1 THEN update_uuid_pool ELSE UNCHANGED poolVars

-------------------------------------------------------------------------------
(* main() fills the pool, then listens. *)
Start_NoFill ==
  /\ phase = "start"
  /\ phase' = "idle"
  /\ UNCHANGED <<uuid_list, uuid_list_hd, generated, issued, lost>>

Start ==
  /\ phase = "start"
  /\ update_uuid_pool
  /\ phase' = "idle"
  /\ UNCHANGED <<issued, lost>>

(* send_uuid draws a UUID; writing it to the client touches no pool state. *)
DrawUuid ==
  /\ phase = "idle"
  /\ next_uuid
  /\ phase' = "drawn"
  /\ issued' = Append(issued, Drawn)
  /\ UNCHANGED lost

CheckPool ==
  /\ phase = "drawn"
  /\ check_pool
  /\ phase' = "idle"
  /\ UNCHANGED <<issued, lost>>

(* The daemon exits or is killed; its memory goes, the clock stays. *)
Exit ==
  /\ phase # "start"
  /\ uuid_list' = EmptyPool
  /\ uuid_list_hd' = 0
  /\ phase' = "start"
  /\ lost' = lost + Ready
  /\ UNCHANGED <<generated, issued>>

(* The clock has no reading left for another fill: nothing to model. *)
ClockSpent ==
  /\ phase = "start"
  /\ generated + CL_MAX_FREE_UUIDS > MaxUuid
  /\ UNCHANGED vars

Next == Start \/ DrawUuid \/ CheckPool \/ Exit \/ ClockSpent

Spec == Init /\ [][Next]_vars

-------------------------------------------------------------------------------
(* Types of the pool; the head never passes either end of uuid_list.       *)
TypeOK ==
  /\ uuid_list \in [Slots -> 0 .. MaxUuid]
  /\ uuid_list_hd \in -1 .. CL_MAX_FREE_UUIDS - 1
  /\ generated \in 0 .. MaxUuid
  /\ phase \in Phases
  /\ issued \in Seq(0 .. MaxUuid)
  /\ lost \in Nat

(* Whenever the daemon can be asked for a UUID, the head points at a slot: *)
(* next_uuid reads inside uuid_list.  next_uuid itself tests nothing, it   *)
(* is check_pool at the end of the previous request that must have         *)
(* refilled the pool.                                                      *)
NeverDrawFromEmpty == phase = "idle" => uuid_list_hd \in Slots

(* No UUID is ever drawn twice, over any number of refills and restarts.   *)
NoReissue == \A i, j \in DOMAIN issued : issued[i] = issued[j] => i = j

(* Every UUID that was generated has been drawn, or lies in the pool at or *)
(* below the head, or was lost with a daemon that went away: a refill      *)
(* never overwrites a UUID that was still to be drawn, although its loop   *)
(* starts at the head without looking whether that slot is used.           *)
NothingWasted == generated = Len(issued) + Ready + lost

(* What makes the invariants above inductive: every UUID drawn or ready    *)
(* came from the clock, and the ready ones are new and differ.             *)
DrawnFromClock == \A k \in DOMAIN issued : issued[k] \in 1 .. generated

ReadyFresh ==
  phase # "start" =>
    \A i \in 0 .. uuid_list_hd :
      /\ uuid_list[i] \in 1 .. generated
      /\ \A j \in 0 .. uuid_list_hd : uuid_list[i] = uuid_list[j] => i = j
      /\ \A k \in DOMAIN issued : issued[k] # uuid_list[i]

StartsAtZero == phase = "start" => uuid_list_hd = 0

(* The inductive invariant: the conjunction of the parts above.            *)
PoolInv ==
  /\ TypeOK
  /\ NeverDrawFromEmpty
  /\ NoReissue
  /\ NothingWasted
  /\ DrawnFromClock
  /\ ReadyFresh
  /\ StartsAtZero

Abstract == INSTANCE FreshIds WITH Ids <- Uuids

(* The promise of an identifier source: each UUID drawn is a proper one    *)
(* (never the zero bytes static memory starts with) and a new one.         *)
ImplementsFreshIds == Abstract!Spec
===============================================================================
