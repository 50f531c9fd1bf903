----------------------------- MODULE MCSingleton -----------------------------
(* Small instances of Singleton for TLC.                                   *)
EXTENDS Singleton

CONSTANTS t1, t2, d1

MCTwoGetters == {t1, t2}
MCOneDeleter == {d1}
MCNoDeleter == {}
==============================================================================
