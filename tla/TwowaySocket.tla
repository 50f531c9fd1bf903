---------------------------- MODULE TwowaySocket ----------------------------
(***************************************************************************)
(* src/TwowaySocket/TwowaySocket.cpp with AsynClientSocket.cpp: one server *)
(* and two clients in one process.  Init, Send and Close call all three    *)
(* and ignore what the calls return, so that a client that failed goes on  *)
(* using a number that may be somebody else's by now.                      *)
(*                                                                         *)
(* Init is called once and before the other operations, and nothing else   *)
(* in the process uses Winsock.  Addresses, data and the copies of them    *)
(* are left out.                                                           *)
(***************************************************************************)
EXTENDS TwowayServer

CONSTANT ClientCount   (* 2 in the code *)

Clients == 1 .. ClientCount

ASSUME TwowayAssumption ==
    /\ ClientCount \in Nat \ {0}
    /\ NoPeer \notin Peers
    /\ Free \notin Peers \cup Clients \cup {Listener}
    /\ Listener \notin Peers \cup Clients
    /\ Peers \cap Clients = {}

VARIABLES m_Socket,  (* m_Socket[c]: the number client c uses              *)
          i,         (* the index of the facade's loops                    *)
          fails      (* history: failures of c, counted to 2               *)

clientVars == <<m_Socket, fails>>
vars == <<winsock, serverVars, clientVars, i>>

Init ==
    /\ ServerInit
    /\ m_Socket = [c \in Clients |-> Invalid]
    /\ i = 1
    /\ fails = [c \in Clients |-> 0]

facadeFrame == <<m_IsCloseServer, m_ServerSocket, m_SingleSocketRecvThreadMap, main,
                 accepted, tpc, num, todo, aborted, left, midway>>

(* A plausible slip, for comparison: one client too many.                  *)
StepPastEnd(next, done) ==
    IF i <= ClientCount THEN pc' = next /\ i' = i + 1 ELSE pc' = done /\ i' = 1

(* On to the next client, or out of the loop.                              *)
Step(next, done) ==
    IF i < ClientCount THEN pc' = next /\ i' = i + 1 ELSE pc' = done /\ i' = 1

Failed(c) == fails' = [fails EXCEPT ![c] = IF @ < 2 THEN @ + 1 ELSE @]

-----------------------------------------------------------------------------
(* Init: CreateAndConnectToRemoteServer for each client.                   *)

OpenSocket(n) ==
    /\ pc = "socket" /\ pc' = "connect"
    /\ n \in Vacant
    /\ holder' = [holder EXCEPT ![n] = i]
    /\ loads' = loads + 1
    /\ m_Socket' = [m_Socket EXCEPT ![i] = n]
    /\ UNCHANGED <<facadeFrame, linked, i, fails>>

(* WSAStartup or socket fails; the count is as before.                     *)
OpenFails ==
    /\ pc = "socket" /\ Step("socket", "ready")
    /\ Failed(i)
    /\ UNCHANGED <<facadeFrame, winsock, m_Socket>>

(* connect succeeds, or finds the number connected already (line 65).      *)
Connect ==
    /\ pc = "connect" /\ Step("socket", "ready")
    /\ Holds(m_Socket[i], i) \/ Talks(m_Socket[i])
    /\ linked' = IF Holds(m_Socket[i], i) THEN linked \cup {i} ELSE linked
    /\ UNCHANGED <<facadeFrame, holder, loads, clientVars>>

(* A plausible slip, for comparison: cleaned up once here and once by a    *)
(* guard object.                                                           *)
ConnectFailsTwice ==
    /\ pc = "connect" /\ Step("socket", "ready")
    /\ loads' = IF loads < 2 THEN 0 ELSE loads - 2
    /\ holder' = [m \in Numbers |-> IF m = m_Socket[i] \/ loads <= 2 THEN Free
                                    ELSE holder[m]]
    /\ Failed(i)
    /\ UNCHANGED <<facadeFrame, linked, m_Socket>>

ConnectFails ==
    /\ pc = "connect" /\ Step("socket", "ready")
    /\ Release(m_Socket[i])
    /\ Failed(i)
    /\ UNCHANGED <<facadeFrame, m_Socket>>

-----------------------------------------------------------------------------
(* SendDataToRemoteServer, also after Close and after any failure.         *)

(* Where the owner is between two calls.                                   *)
Idle == IF m_IsCloseServer THEN "closed" ELSE "ready"

StartSend ==
    /\ pc \in {"ready", "closed"} /\ pc' = "send"
    /\ UNCHANGED <<facadeFrame, winsock, clientVars, i>>

Send ==
    /\ pc = "send" /\ Step("send", Idle)
    /\ Talks(m_Socket[i])
    /\ UNCHANGED <<facadeFrame, winsock, clientVars>>

SendFails ==
    /\ pc = "send" /\ Step("send", Idle)
    /\ Release(m_Socket[i])
    /\ Failed(i)
    /\ UNCHANGED <<facadeFrame, m_Socket>>

-----------------------------------------------------------------------------
(* Close, after CloseServer; and the destructor, which closes nothing: the *)
(* thread objects it destroys must have been joined.                       *)

CloseClient ==
    /\ pc = "close" /\ Step("close", "closed")
    /\ Release(m_Socket[i])
    /\ UNCHANGED <<facadeFrame, clientVars>>

Destroy ==
    /\ pc \in {"ready", "closed"}
    /\ IF main \in {"null", "joined"} /\ Filed = {}
       THEN pc' = "gone" /\ UNCHANGED aborted
       ELSE aborted' = "destroyed" /\ UNCHANGED pc
    /\ UNCHANGED <<winsock, m_IsCloseServer, m_ServerSocket, m_SingleSocketRecvThreadMap,
                   main, accepted, tpc, num, todo, left, midway, clientVars, i>>

-----------------------------------------------------------------------------
Create == CreateServerFails \/ \E n \in Numbers : CreateServerSocket(n)

Facade ==
    \/ \E n \in Numbers : OpenSocket(n)
    \/ OpenFails \/ Connect \/ ConnectFails
    \/ StartSend \/ Send \/ SendFails
    \/ CloseClient
    \/ Destroy

Server ==
    /\ AcceptThread \/ Create \/ CloseServer \/ \E p \in Peers : ReceiveThread(p)
    /\ UNCHANGED <<clientVars, i>>

Next ==
    \/ aborted = "no" /\ (Server \/ Facade)
    \/ (aborted # "no" \/ pc = "gone") /\ UNCHANGED vars

(* Threads run.  A call that waits for the network returns when its socket *)
(* is closed under it; nobody has to connect, to send or to close.         *)
Closing == pc \in {"unlisten", "join", "sweep", "threads", "close"}

Prompt(A) == aborted = "no" /\ A /\ UNCHANGED <<clientVars, i>>

Fairness ==
    /\ WF_vars(Prompt(Store))
    /\ WF_vars(Prompt(~Holds(m_ServerSocket, Listener) /\ AcceptFails))
    /\ \A p \in Peers :
         /\ WF_vars(Prompt(TestClose(p)))
         /\ WF_vars(Prompt(~Talks(num[p]) /\ ReceiveFails(p)))
    /\ WF_vars(Prompt(CloseListener \/ JoinMain \/ CloseNumber \/ JoinThreads))
    /\ WF_vars(aborted = "no" /\ CloseClient)

Safety == Init /\ [][Next]_vars
Spec == Safety /\ Fairness

-----------------------------------------------------------------------------
(* Properties.                                                             *)

(* Every variable stays in its range.                                      *)
TypeOK ==
    /\ holder \in [Numbers -> Peers \cup Clients \cup {Listener, Free}]
    /\ linked \subseteq Peers \cup Clients
    /\ loads \in Nat
    /\ m_IsCloseServer \in BOOLEAN
    /\ m_ServerSocket \in Numbers \cup {Invalid}
    /\ m_SingleSocketRecvThreadMap \in [Numbers -> Peers \cup {NoPeer}]
    /\ main \in {"null", "accept", "store", "ended", "joined"}
    /\ accepted \in Peers \cup {NoPeer}
    /\ tpc \in [Peers -> Running \cup {"none", "ended"}]
    /\ num \in [Peers -> Numbers \cup {Invalid}]
    /\ pc \in {"create", "socket", "connect", "ready", "send", "unlisten", "join",
               "sweep", "threads", "close", "closed", "gone"}
    /\ todo \subseteq Numbers
    /\ aborted \in {"no", "reuse", "null", "twice", "destroyed"}
    /\ left \in BOOLEAN /\ midway \in BOOLEAN
    /\ m_Socket \in [Clients -> Numbers \cup {Invalid}]
    /\ i \in Clients
    /\ fails \in [Clients -> 0 .. 2]

(* Until somebody closes, every socket of the process is still the one its *)
(* user opened: the numbers of the accept thread, of the receive threads   *)
(* and of the connected clients mean what they meant.  Two lines of the    *)
(* code can end that, and only those: a client that failed keeps its       *)
(* number, and a receive thread whose peer leaves within a message goes on *)
(* with the number it has closed.                                          *)
Mixed == midway \/ \E c \in Clients : fails[c] > 0

SocketsKeptApart ==
    aborted = "no" /\ ~m_IsCloseServer /\ ~Mixed =>
      /\ main # "null" => Holds(m_ServerSocket, Listener)
      /\ \A p \in Peers : tpc[p] \in Running => Holds(num[p], p)
      /\ \A c \in Clients \cap linked : Holds(m_Socket[c], c)

(* Winsock stays loaded under a server that runs, although every failure   *)
(* of a client undoes a WSAStartup: it takes a client that failed twice,   *)
(* which has then undone somebody else's.                                  *)
WinsockLoaded ==
    aborted = "no" /\ ~m_IsCloseServer /\ main # "null" /\ loads = 0
    => \E c \in Clients : fails[c] = 2

(* When CloseServer has returned, what its comments of lines 151 to 161    *)
(* wait for is true: no thread of the server runs, none of its sockets is  *)
(* open.                                                                   *)
Returned == pc \in {"close", "closed"} \/ (pc = "send" /\ m_IsCloseServer)
ThreadsEnded == ~MainAlive /\ \A p \in Peers : tpc[p] \in {"none", "ended"}
SocketsClosed == \A n \in Numbers : holder[n] \notin Peers \cup {Listener}
CloseIsComplete == Returned => ThreadsEnded /\ SocketsClosed

(* The process ends at line 222 only when a number could come back: a peer *)
(* left, or CloseServer had begun, or a client that failed twice closed a  *)
(* number that was not its own.  A facade that was closed can be destroyed.*)
AbortExplained ==
    /\ aborted = "reuse" =>
         left \/ m_IsCloseServer \/ \E c \in Clients : fails[c] = 2
    /\ aborted = "destroyed" => ~m_IsCloseServer

(* Close returns, unless the process ends: closing a number wakes up the   *)
(* thread that waits on it, and no join waits for a thread that nobody     *)
(* woke.                                                                   *)
CloseReturns == Closing ~> (pc = "closed" \/ aborted # "no")
=============================================================================
