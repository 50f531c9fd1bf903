SPECIFICATION Spec
CONSTANTS
    p1 = p1
    p2 = p2
    Peers <- MCPeers
    Numbers <- MCNumbers
    Free = Free
    NoPeer = NoPeer
    Listener = Listener
    ClientCount = 2
INVARIANTS TypeOK SocketsKeptApart WinsockLoaded CloseIsComplete AbortExplained
PROPERTIES CloseReturns
