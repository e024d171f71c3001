-------------------------------- MODULE TraceLog --------------------------------
(***************************************************************************)
(* What a trace log promises, with no socket, no daemon and no disk: of    *)
(* the traces that were accepted, numbered in the order of their           *)
(* acceptance, some are stored, each at most once and in that order.       *)
(***************************************************************************)
EXTENDS Integers, Sequences

VARIABLES
  accepted,             \* how many traces have been accepted
  log                   \* the numbers of those that are stored

Init == accepted = 0 /\ log = <<>>

Accept == accepted' = accepted + 1 /\ UNCHANGED log

Store ==
  /\ \E i \in 1 .. accepted :
       /\ \A k \in DOMAIN log : log[k] < i
       /\ log' = Append(log, i)
  /\ UNCHANGED accepted

Next == Accept \/ Store

Spec == Init /\ [][Next]_<<accepted, log>>
===============================================================================
