----------------------------- MODULE MCTinyTimer -----------------------------
(* Small instances of TinyTimer for TLC.                                   *)
EXTENDS TinyTimer

CONSTANTS k1

MCOneKiller == {k1}
MCNoKiller == {}
==============================================================================
