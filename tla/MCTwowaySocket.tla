--------------------------- MODULE MCTwowaySocket ---------------------------
(* Small instances of TwowaySocket: the two clients of the code, two peers,  *)
(* and fewer numbers than there are sockets.                               *)
EXTENDS TwowaySocket

CONSTANTS p1, p2

MCPeers == {p1, p2}
MCNumbers == 1 .. 3
=============================================================================
