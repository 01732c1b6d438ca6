-------------------------------- MODULE Tables --------------------------------
(* Database tables as functions from the ids of their rows. *)
EXTENDS Functions

(* The table with row written under id k, and without the rows of gone. *)
Put(table, k, row) == [x \in DOMAIN table \cup {k} |-> IF x = k THEN row ELSE table[x]]
Without(table, gone) == Restrict(table, DOMAIN table \ gone)
=============================================================================
