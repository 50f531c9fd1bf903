----------------------------- MODULE MCJsonList -----------------------------
(* Three nodes, two names and no name, indexes from -1 to one past the end.    *)
EXTENDS JsonList
=============================================================================
