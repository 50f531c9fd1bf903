-------------------------- MODULE MCThreadSafeQueue --------------------------
(* Small instances of ThreadSafeQueue for TLC.                             *)
EXTENDS ThreadSafeQueue

CONSTANTS p1, p2, c1, c2, c3, v1, v2

MCTwoProducers == {p1, p2}
MCOneProducer == {p1}
MCThreeConsumers == {c1, c2, c3}
MCTwoConsumers == {c1, c2}
MCTwoValues == {v1, v2}
==============================================================================
