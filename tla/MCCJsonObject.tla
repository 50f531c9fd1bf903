--------------------------- MODULE MCCJsonObject ---------------------------
(* Three spellings of two keys, and room for two children.                 *)
EXTENDS CJsonObject

MCKeys == {"a", "A", "b"}
MCFold == [k \in MCKeys |-> IF k = "A" THEN "a" ELSE k]
=============================================================================
