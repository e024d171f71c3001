--------------------------------- MODULE TagMap ---------------------------------
(***************************************************************************)
(* What a tag table promises, with no hash table, no buffer and no socket: *)
(* a partial map from derived identifiers to Clacks identifiers, as a set  *)
(* of pairs.  A name is tagged once and its tag stands until the table is  *)
(* forgotten as a whole.                                                   *)
(***************************************************************************)
VARIABLE tags           \* the set of pairs <<derived identifier, identifier>>

Init == tags = {}

Add(pair) ==
  /\ \A t \in tags : t[1] # pair[1]
  /\ tags' = tags \cup {pair}

(* At most one pair is added in a step, and then only for a new name. *)
Tag == \E pair \in tags' : pair \notin tags /\ Add(pair)

Forget == tags' = {}

Spec == Init /\ [][Tag \/ Forget]_tags
===============================================================================
