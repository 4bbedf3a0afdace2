-------------------------------- MODULE Tables --------------------------------
(***************************************************************************)
(* Database tables as functions from ids to rows, and the statements that  *)
(* twistar sends for an object of a table.  An id is never reused.  UPDATE *)
(* and DELETE of an id that is gone change nothing.                        *)
(***************************************************************************)
EXTENDS Integers, Functions

Id == Nat \ {0}

InsertRow(table, id, row) ==
  [i \in DOMAIN table \cup {id} |-> IF i = id THEN row ELSE table[i]]
UpdateRow(table, id, row) ==
  [i \in DOMAIN table |-> IF i = id THEN row ELSE table[i]]
DeleteRow(table, id) == Restrict(table, DOMAIN table \ {id})
================================================================================
