-------------------------------- MODULE TagStore --------------------------------
(***************************************************************************)
(* The table of tagged identifiers (identifier-service/src/                *)
(* id_tag_manager.c): a derived identifier, which an application already   *)
(* carries through its protocols, is mapped to a Clacks identifier.  The   *)
(* table is a sequence of entries in the order they were added (uthash's   *)
(* application order); a C string is a sequence of characters.             *)
(***************************************************************************)
EXTENDS Integers, Sequences, SequencesExt

CONSTANT DERRIVED_LEN       \* bytes of struct tagged_id.derrived_id

ASSUME DerrivedLenAssumption == DERRIVED_LEN \in Nat \ {0}

(* The string found in derrived_id once strncpy() has copied key into it.  *)
(* strncpy() writes no terminator when key fills the array, and the string *)
(* then runs on into the next member, cl_id.                               *)
StoredKey(key, cl_id) ==
  IF Len(key) < DERRIVED_LEN THEN key
  ELSE SubSeq(key, 1, DERRIVED_LEN) \o <<cl_id>>

\* HASH_FIND_STR: the derived identifier is in the table.
IsTagged(table, key) == \E i \in DOMAIN table : table[i].derrived_id = key

\* What a read() of DERRIVED_LEN bytes takes of a longer name.
Fitting(name) == SubSeq(name, 1, Min({Len(name), DERRIVED_LEN}))

\* tag_id that adds without looking.
tag_id_NoFind(table, cl_id, key) ==
  Append(table, [derrived_id |-> StoredKey(key, cl_id), cl_id |-> cl_id])

\* tag_id that lets the last tag of a name win.
tag_id_Replace(table, cl_id, key) ==
  Append(SelectSeq(table, LAMBDA e : e.derrived_id # key),
         [derrived_id |-> StoredKey(key, cl_id), cl_id |-> cl_id])

tag_id(table, cl_id, key) ==
  IF IsTagged(table, key) THEN table
  ELSE Append(table, [derrived_id |-> StoredKey(key, cl_id), cl_id |-> cl_id])

\* No two entries of a table answer to the same string that ends in its array.
KeysDiffer(table) ==
  \A i, j \in DOMAIN table :
    /\ table[i].derrived_id = table[j].derrived_id
    /\ Len(table[i].derrived_id) < DERRIVED_LEN
    => i = j
===============================================================================
