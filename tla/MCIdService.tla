------------------------------ MODULE MCIdService ------------------------------
(***************************************************************************)
(* Instances of IdService for TLC.  Strings are over the characters a, b;  *)
(* "a" is a proper prefix of "ab", so that bytes left on the stack can     *)
(* turn one name into the other.                                           *)
(***************************************************************************)
EXTENDS IdServiceInv, TLC

CONSTANTS a, b, id1, id2

MCClIds == {id1, id2}
MCStrings == {<<a>>, <<a, b>>}
MCResidue == {<<>>, <<b>>}
CleanStack == {<<>>}

Get == [op |-> "GET", cl_id |-> NoId, derrived |-> <<>>]
Tag(id, key) == [op |-> "TAG", cl_id |-> id, derrived |-> key]

All(requests) == [c \in Clients |-> requests]

MCRequests == All({Get, Tag(id1, <<a>>), Tag(id2, <<a, b>>)})
GetOnly == All({Get})
OneTag == All({Get, Tag(id1, <<a>>)})

\* One application gets an identifier, one tags an identifier, the others another.
Divided ==
  LET getter == CHOOSE c \in Clients : TRUE
      tagger == CHOOSE c \in Clients : c # getter
  IN  [c \in Clients |-> CASE c = getter -> {Get}
                           [] c = tagger -> {Tag(id1, <<a>>)}
                           [] OTHER -> {Tag(id2, <<a, b>>)}]

Interchangeable == Permutations(Clients)
================================================================================
