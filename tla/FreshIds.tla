------------------------------- MODULE FreshIds -------------------------------
(***************************************************************************)
(* What an identifier source promises, with no pool, no socket and no      *)
(* process in sight: it hands out identifiers one at a time, each of them  *)
(* a proper identifier that it has never handed out before.  The promise   *)
(* is the one of the API header, "Get a fresh new id to track activities"  *)
(* (lib/src/clacks-api/clacks.h).                                          *)
(***************************************************************************)
EXTENDS Sequences, Functions

CONSTANT Ids            \* the identifiers that may be handed out

VARIABLE issued         \* the identifiers handed out so far, oldest first

Init == issued = <<>>

Issue(id) ==
  /\ id \notin Range(issued)
  /\ issued' = Append(issued, id)

Next == \E id \in Ids : Issue(id)

Spec == Init /\ [][Next]_issued
===============================================================================
