------------------------- MODULE TwowaySocket_proofs -------------------------
(***************************************************************************)
(* The invariants of TwowaySocket, for any numbers, peers and clients.     *)
(* Structure says how threads, map and sockets belong together whatever    *)
(* has happened; Apart and Clean add what holds until the first, and until *)
(* the second, failure of a client.  What CloseServer waits for returns.   *)
(***************************************************************************)
EXTENDS TwowaySocket, FiniteSetTheorems, TLAPS

Started(p) == tpc[p] # "none"
Cleared == main = "joined" /\ pc \notin {"sweep", "threads"}
InInit == pc \in {"create", "socket", "connect"}

(* TypeOK in two parts, the Boolean variables and the others.              *)
Flags == m_IsCloseServer \in BOOLEAN /\ left \in BOOLEAN /\ midway \in BOOLEAN
Types ==
    /\ holder \in [Numbers -> Peers \cup Clients \cup {Listener, Free}]
    /\ linked \subseteq Peers \cup Clients
    /\ loads \in Nat
    /\ m_ServerSocket \in Numbers \cup {Invalid}
    /\ m_SingleSocketRecvThreadMap \in [Numbers -> Peers \cup {NoPeer}]
    /\ main \in {"null", "accept", "store", "ended", "joined"}
    /\ accepted \in Peers \cup {NoPeer}
    /\ tpc \in [Peers -> Running \cup {"none", "ended"}]
    /\ num \in [Peers -> Numbers \cup {Invalid}]
    /\ pc \in {"create", "socket", "connect", "ready", "send", "unlisten", "join",
               "sweep", "threads", "close", "closed", "gone"}
    /\ todo \subseteq Numbers
    /\ aborted \in {"no", "reuse", "null", "twice", "destroyed"}
    /\ m_Socket \in [Clients -> Numbers \cup {Invalid}]
    /\ i \in Clients
    /\ fails \in [Clients -> 0 .. 2]

(* Init takes the clients one by one.                                      *)
Setup ==
    /\ pc = "create" => i = 1 /\ main = "null"
    /\ InInit => \A c \in Clients : c >= i =>
         /\ c \notin linked
         /\ fails[c] = 0
         /\ c > i \/ pc # "connect" => m_Socket[c] = Invalid

(* The owner, the flag and the accept thread.                              *)
Phases ==
    /\ pc \in {"unlisten", "join", "sweep", "threads", "close", "closed"} => m_IsCloseServer
    /\ m_IsCloseServer =>
         pc \in {"unlisten", "join", "sweep", "threads", "close", "closed", "send", "gone"}
    /\ main \in {"ended", "joined"} => m_IsCloseServer
    /\ pc \in {"sweep", "threads"} \/ Returned => main = "joined"
    /\ IF main = "store" THEN accepted \in Peers /\ Started(accepted) ELSE accepted = NoPeer
    /\ main = "null" => \A p \in Peers : ~Started(p)

(* The map: each entry is the thread of that number, and until it is       *)
(* cleared each thread is in it or about to be.                            *)
FiledRight ==
    /\ \A n \in Filed : /\ num[m_SingleSocketRecvThreadMap[n]] = n
                        /\ Started(m_SingleSocketRecvThreadMap[n])
    /\ ~Cleared => \A p \in Peers : Started(p) =>
         /\ num[p] \in Numbers
         /\ m_SingleSocketRecvThreadMap[num[p]] = p \/ (main = "store" /\ accepted = p)
    /\ Cleared => Filed = {} /\ \A p \in Peers : tpc[p] \in {"none", "ended"}

(* The sockets of the server have the numbers their threads know, and      *)
(* CloseServer leaves none of them behind.                                 *)
HolderRight ==
    /\ \A n \in Numbers : holder[n] \in Peers => num[holder[n]] = n /\ Started(holder[n])
    /\ \A n \in Numbers : holder[n] = Listener =>
         /\ n = m_ServerSocket /\ main # "null"
         /\ pc \notin {"join", "sweep", "threads", "gone"} /\ ~Returned
    /\ Cleared \/ pc = "threads" => \A n \in Numbers : holder[n] \notin Peers
    /\ pc = "sweep" => \A n \in Numbers \ todo : holder[n] \notin Peers

Structure == Flags /\ Types /\ Setup /\ Phases /\ FiledRight /\ HolderRight

-----------------------------------------------------------------------------
LEMMA TypeParts == TypeOK <=> Flags /\ Types
  BY DEF TypeOK, Flags, Types

LEMMA InitStructure == Init => Structure
<1> USE TwowayAssumption, NumbersAssumption DEF Init, ServerInit, Started, Cleared, Returned, InInit, Filed,
      Clients, Invalid, Running
<1> SUFFICES ASSUME Init PROVE Structure
  OBVIOUS
<1>0. Flags
  BY DEF Flags
<1>1. Types
  BY DEF Types
<1>2. Setup
  BY DEF Setup
<1>3. Phases
  BY DEF Phases
<1>4. FiledRight
  BY DEF FiledRight
<1>5. HolderRight
  BY DEF HolderRight
<1> QED
  BY <1>0, <1>1, <1>2, <1>3, <1>4, <1>5 DEF Structure

(* The steps of the accept thread.                                         *)
LEMMA AcceptStructure ==
  ASSUME Structure, AcceptThread, UNCHANGED <<clientVars, i>>
  PROVE  Structure'
<1> USE TwowayAssumption, NumbersAssumption DEF Structure, Flags, Types, Setup, Phases, FiledRight,
      HolderRight, Started, Cleared, Returned, InInit, Filed, Clients, Invalid, Running, winsock,
      clientVars, acceptFrame
<1>1. CASE AcceptFails
  BY <1>1, SMT DEF AcceptFails, NextAccept
<1>2. CASE Store
  <2> USE <1>2 DEF Store, NextAccept
  <2>0. Flags'
    BY DEF Flags
  <2>1. Types'
    BY DEF Types
  <2>2. Setup'
    BY DEF Setup
  <2>3. Phases'
    BY DEF Phases
  <2>4. FiledRight'
    <3>1. CASE num[accepted] \in Filed
      BY <3>1 DEF FiledRight
    <3>2. CASE num[accepted] \notin Filed
      <4>1. \A n \in Numbers : m_SingleSocketRecvThreadMap'[n] =
              IF n = num[accepted] THEN accepted ELSE m_SingleSocketRecvThreadMap[n]
        BY <3>2
      <4>2. /\ main = "store" /\ main' \in {"ended", "accept"}
            /\ accepted \in Peers /\ Started(accepted)
            /\ UNCHANGED <<num, tpc, pc>>
        BY <3>2
      <4>3. /\ \A n \in Numbers : n \in Filed => num[m_SingleSocketRecvThreadMap[n]] = n
                                   /\ Started(m_SingleSocketRecvThreadMap[n])
            /\ \A p \in Peers : Started(p) =>
                 /\ num[p] \in Numbers
                 /\ m_SingleSocketRecvThreadMap[num[p]] = p \/ accepted = p
        BY <4>2 DEF FiledRight
      <4>4. \A n \in Filed' : /\ num'[m_SingleSocketRecvThreadMap'[n]] = n
                               /\ tpc'[m_SingleSocketRecvThreadMap'[n]] # "none"
        BY <4>1, <4>2, <4>3
      <4>5. \A p \in Peers : tpc'[p] # "none" =>
              num'[p] \in Numbers /\ m_SingleSocketRecvThreadMap'[num'[p]] = p
        <5> SUFFICES ASSUME NEW p \in Peers, tpc[p] # "none"
                     PROVE  num[p] \in Numbers /\ m_SingleSocketRecvThreadMap'[num[p]] = p
          BY <4>2
        <5>1. CASE p = accepted
          BY <4>1, <4>3, <5>1
        <5>2. CASE p # accepted
          <6>1. num[p] \in Numbers /\ m_SingleSocketRecvThreadMap[num[p]] = p
            BY <4>3, <5>2
          <6>2. num[p] # num[accepted]
            BY <3>2, <6>1, p # NoPeer
          <6> QED
            BY <4>1, <6>1, <6>2
        <5> QED
          BY <5>1, <5>2
      <4> QED
        BY <4>2, <4>4, <4>5 DEF FiledRight
    <3> QED
      BY <3>1, <3>2
  <2>5. HolderRight'
    BY DEF HolderRight
  <2> QED
    BY <2>0, <2>1, <2>2, <2>3, <2>4, <2>5 DEF Structure
<1>3. CASE \E p \in Peers, n \in Numbers : Accept(p, n)
  <2> PICK p \in Peers, n \in Numbers : Accept(p, n)
    BY <1>3
  <2> QED
    BY SMT DEF Accept, Vacant, Holds
<1> QED
  BY <1>1, <1>2, <1>3 DEF AcceptThread

(* What every step of a receive thread does: it moves that thread only and *)
(* closes nothing but the thread's own number.                             *)
Moves(p) ==
    /\ tpc[p] \in Running
    /\ \E x \in Running \cup {"ended"} : tpc' = [tpc EXCEPT ![p] = x]
    /\ \/ UNCHANGED holder
       \/ holder' = [m \in Numbers |-> IF m = num[p] THEN Free ELSE holder[m]]
    /\ UNCHANGED <<linked, loads, recvFrame>>

LEMMA ReceiveMoves ==
  ASSUME NEW p \in Peers, ReceiveThread(p)
  PROVE  Moves(p)
<1> USE DEF Moves, Goto, closesocket, winsock, Running
<1>1. CASE TestClose(p)
  <2>1. CASE m_IsCloseServer
    BY <1>1, <2>1 DEF TestClose
  <2>2. CASE ~m_IsCloseServer
    BY <1>1, <2>2 DEF TestClose
  <2> QED
    BY <2>1, <2>2
<1>2. CASE Complete(p)
  BY <1>2 DEF Complete
<1>3. CASE Partial(p)
  BY <1>3 DEF Partial
<1>4. CASE PeerLeft(p)
  BY <1>4 DEF PeerLeft
<1>5. CASE PeerLeftMidway(p)
  BY <1>5 DEF PeerLeftMidway
<1>6. CASE ReceiveFails(p)
  <2>1. CASE Goto(p, {"recv"}, "ended")
    BY <1>6, <2>1 DEF ReceiveFails
  <2>2. CASE Goto(p, {"inner"}, "test")
    BY <1>6, <2>2 DEF ReceiveFails
  <2> QED
    BY <1>6, <2>1, <2>2 DEF ReceiveFails
<1> QED
  BY <1>1, <1>2, <1>3, <1>4, <1>5, <1>6 DEF ReceiveThread

LEMMA ReceiveFlags ==
  ASSUME Flags, NEW p \in Peers, ReceiveThread(p)
  PROVE  Flags'
  BY Zenon DEF Flags, ReceiveThread, TestClose, Complete, Partial, PeerLeft, PeerLeftMidway,
     ReceiveFails, recvFrame

LEMMA ReceiveStructure ==
  ASSUME Structure, NEW p \in Peers, ReceiveThread(p), UNCHANGED <<clientVars, i>>
  PROVE  Structure'
<1> USE TwowayAssumption, NumbersAssumption DEF Structure, Started, Cleared, Returned, InInit, Filed,
      Clients, Invalid, Running, clientVars, recvFrame
<1>1. Moves(p)
  BY ReceiveMoves
<1>2. PICK x \in Running \cup {"ended"} : tpc' = [tpc EXCEPT ![p] = x]
  BY <1>1 DEF Moves
<1>3. UNCHANGED recvFrame /\ UNCHANGED <<linked, loads>> /\ tpc[p] \in Running
  BY <1>1 DEF Moves
<1>4. /\ holder' \in [Numbers -> Peers \cup Clients \cup {Listener, Free}]
      /\ \A n \in Numbers : holder'[n] \in {holder[n], Free}
  BY <1>1 DEF Moves, Types
<1>5. Flags'
  BY ReceiveFlags
<1>6. Types'
  BY <1>2, <1>3, <1>4 DEF Types
<1>7. Setup'
  BY <1>3 DEF Setup
<1>8. Phases'
  BY <1>2, <1>3, <1>4 DEF Phases, Types
<1>9. FiledRight'
  BY <1>2, <1>3, <1>4 DEF FiledRight, Types
<1>10. HolderRight'
  BY <1>2, <1>3, <1>4 DEF HolderRight, Types
<1> QED
  BY <1>5, <1>6, <1>7, <1>8, <1>9, <1>10

(* The steps of CreateServerSocket and CloseServer.                        *)
LEMMA OwnerStructure ==
  ASSUME Structure, Create \/ CloseServer, UNCHANGED <<clientVars, i>>
  PROVE  Structure'
<1> USE TwowayAssumption, NumbersAssumption DEF Structure, Started, Cleared, Returned, InInit, Filed,
      Clients, Invalid, Running, clientVars, ownerFrame, winsock
<1>1. CASE CreateServerFails
  <2> USE <1>1 DEF CreateServerFails
  <2>0. Flags'
    BY DEF Flags
  <2>1. Types'
    BY DEF Types
  <2>2. Setup'
    BY DEF Setup
  <2>3. Phases'
    BY DEF Phases, Types
  <2>4. FiledRight'
    BY DEF FiledRight
  <2>5. HolderRight'
    BY DEF HolderRight
  <2> QED
    BY <2>0, <2>1, <2>2, <2>3, <2>4, <2>5
<1>2. ASSUME NEW n \in Numbers, CreateServerSocket(n) PROVE Structure'
  <2> USE <1>2 DEF CreateServerSocket, Vacant
  <2>0. Flags'
    BY DEF Flags
  <2>1. Types'
    BY DEF Types
  <2>2. Setup'
    BY DEF Setup
  <2>3. Phases'
    BY DEF Phases, Types, Setup
  <2>4. FiledRight'
    BY DEF FiledRight, Setup
  <2>5. HolderRight'
    BY DEF HolderRight, Types, Setup
  <2> QED
    BY <2>0, <2>1, <2>2, <2>3, <2>4, <2>5
<1>3. CASE SetFlag
  <2> USE <1>3 DEF SetFlag
  <2>0. Flags'
    BY DEF Flags
  <2>1. Types'
    BY DEF Types
  <2>2. Setup'
    BY DEF Setup
  <2>3. Phases'
    BY DEF Phases, Types
  <2>4. FiledRight'
    BY DEF FiledRight
  <2>5. HolderRight'
    BY DEF HolderRight
  <2> QED
    BY <2>0, <2>1, <2>2, <2>3, <2>4, <2>5
<1>4. CASE CloseListener
  <2>1. PICK n \in Numbers \cup {Invalid} : (main # "null" => n = m_ServerSocket) /\ Release(n)
    BY <1>4 DEF CloseListener
  <2> USE <1>4, <2>1 DEF CloseListener, Release
  <2>2. Flags'
    BY DEF Flags
  <2>3. Types'
    BY DEF Types
  <2>4. Setup'
    BY DEF Setup
  <2>5. Phases'
    BY DEF Phases, Types
  <2>6. FiledRight'
    BY DEF FiledRight
  <2>7. HolderRight'
    BY DEF HolderRight, Types
  <2> QED
    BY <2>2, <2>3, <2>4, <2>5, <2>6, <2>7
<1>5. CASE JoinMain
  <2> USE <1>5 DEF JoinMain
  <2>0. Flags'
    BY DEF Flags
  <2>1. Types'
    BY DEF Types
  <2>2. Setup'
    BY DEF Setup
  <2>3. Phases'
    BY DEF Phases, Types
  <2>4. FiledRight'
    BY DEF FiledRight
  <2>5. HolderRight'
    BY DEF HolderRight, FiledRight, Types
  <2> QED
    BY <2>0, <2>1, <2>2, <2>3, <2>4, <2>5
<1>6. CASE CloseNumber
  <2> USE <1>6 DEF CloseNumber, closesocket
  <2>0. Flags'
    BY DEF Flags
  <2>1. Types'
    BY DEF Types
  <2>2. Setup'
    BY DEF Setup
  <2>3. Phases'
    BY DEF Phases, Types
  <2>4. FiledRight'
    BY DEF FiledRight
  <2>5. HolderRight'
    BY DEF HolderRight, Types
  <2> QED
    BY <2>0, <2>1, <2>2, <2>3, <2>4, <2>5
<1>7. CASE JoinThreads
  <2> USE <1>7 DEF JoinThreads
  <2>0. Flags'
    BY DEF Flags
  <2>1. Types'
    BY DEF Types
  <2>2. Setup'
    BY DEF Setup
  <2>3. Phases'
    BY DEF Phases, Types
  <2>4. FiledRight'
    <3>1. main = "joined" /\ pc = "threads"
      BY DEF Phases
    <3>2. \A p \in Peers : tpc[p] \in {"none", "ended"}
      <4> SUFFICES ASSUME NEW p \in Peers, Started(p) PROVE tpc[p] = "ended"
        OBVIOUS
      <4>1. num[p] \in Numbers /\ m_SingleSocketRecvThreadMap[num[p]] = p
        BY <3>1 DEF FiledRight
      <4> QED
        BY <4>1
    <3> QED
      BY <3>1, <3>2 DEF FiledRight
  <2>5. HolderRight'
    BY DEF HolderRight, Types
  <2> QED
    BY <2>0, <2>1, <2>2, <2>3, <2>4, <2>5
<1> QED
  BY <1>1, <1>2, <1>3, <1>4, <1>5, <1>6, <1>7 DEF Create, CloseServer

(* The steps of the facade leave the server alone.  A client's step gives  *)
(* its client a vacant number, or closes numbers; Destroy needs neither.   *)
Closes ==
    /\ holder' \in [Numbers -> Peers \cup Clients \cup {Listener, Free}]
    /\ \A n \in Numbers : holder'[n] \in {holder[n], Free}
    /\ loads' \in Nat

LEMMA ReleaseCloses ==
  ASSUME Types, NEW n, Release(n)
  PROVE  Closes
  BY DEF Types, Release, Closes

LEMMA StepForward ==
  ASSUME Types, NEW next, NEW done, Step(next, done)
  PROVE  /\ i' \in Clients
         /\ \/ pc' = next /\ i' = i + 1
            \/ pc' = done /\ i' = 1
  BY TwowayAssumption DEF Types, Step, Clients

LEMMA FailedType ==
  ASSUME Types, Failed(i)
  PROVE  /\ fails' \in [Clients -> 0 .. 2]
         /\ \A c \in Clients : c # i => fails'[c] = fails[c]
  BY DEF Types, Failed

(* Init and Send: the server is not touched, sockets are closed at most,   *)
(* and the phase is not one of CloseServer's.                              *)
LEMMA ClientStructure ==
  ASSUME Structure, OpenFails \/ Connect \/ ConnectFails \/ StartSend \/ Send \/ SendFails
  PROVE  Structure'
<1> USE TwowayAssumption, NumbersAssumption DEF Structure, Started, Cleared, Returned, InInit, Filed,
      Invalid, Running, facadeFrame, winsock, clientVars
<1>1. /\ pc \in {"socket", "connect", "ready", "closed", "send"}
      /\ pc' \in {"socket", "ready", "closed", "send"}
      /\ pc' \in {"closed", "send"} /\ m_IsCloseServer => Returned
      /\ pc' = "closed" => m_IsCloseServer
      /\ m_IsCloseServer => pc \in {"closed", "send"} /\ pc' \in {"closed", "send"}
  BY DEF OpenFails, Connect, ConnectFails, StartSend, Send, SendFails, Step, Idle, Phases
<1>2. UNCHANGED facadeFrame
  BY DEF OpenFails, Connect, ConnectFails, StartSend, Send, SendFails
<1>3. Closes
  <2>1. CASE ConnectFails \/ SendFails
    BY <2>1, ReleaseCloses DEF ConnectFails, SendFails
  <2>2. CASE OpenFails \/ Connect \/ StartSend \/ Send
    BY <2>2 DEF OpenFails, Connect, StartSend, Send, Closes, Types
  <2> QED
    BY <2>1, <2>2
<1>4. i' \in Clients /\ (pc' = "socket" => pc \in {"socket", "connect"} /\ i' = i + 1)
  <2>1. CASE OpenFails \/ Connect \/ ConnectFails
    BY <2>1, StepForward DEF OpenFails, Connect, ConnectFails
  <2>2. CASE Send \/ SendFails
    BY <2>2, StepForward DEF Send, SendFails, Idle
  <2>3. CASE StartSend
    BY <2>3 DEF StartSend, Types
  <2> QED
    BY <2>1, <2>2, <2>3
<1>5. /\ linked' \subseteq Peers \cup Clients
      /\ \A c \in Clients : c # i /\ c \in linked' => c \in linked
  BY DEF OpenFails, Connect, ConnectFails, StartSend, Send, SendFails, Release, Types
<1>6. /\ fails' \in [Clients -> 0 .. 2]
      /\ \A c \in Clients : c # i => fails'[c] = fails[c]
  <2>1. CASE OpenFails \/ ConnectFails \/ SendFails
    BY <2>1, FailedType DEF OpenFails, ConnectFails, SendFails
  <2>2. CASE Connect \/ StartSend \/ Send
    BY <2>2 DEF Connect, StartSend, Send, Types
  <2> QED
    BY <2>1, <2>2
<1>7. UNCHANGED m_Socket
  BY DEF OpenFails, Connect, ConnectFails, StartSend, Send, SendFails
<1>8. Flags'
  BY <1>2 DEF Flags
<1>9. Types'
  BY <1>1, <1>2, <1>3, <1>4, <1>5, <1>6, <1>7 DEF Types, Closes
<1>10. Setup'
  <2> SUFFICES ASSUME pc' = "socket", NEW c \in Clients, c >= i'
               PROVE  c \notin linked' /\ fails'[c] = 0 /\ m_Socket'[c] = Invalid
    BY <1>1 DEF Setup
  <2>1. c > i /\ c # i
    BY <1>4 DEF Types, Clients
  <2> QED
    BY <1>4, <1>5, <1>6, <1>7, <2>1 DEF Setup, Types, Clients
<1>11. Phases'
  BY <1>1, <1>2 DEF Phases
<1>12. FiledRight'
  BY <1>1, <1>2 DEF FiledRight, Phases
<1>13. HolderRight'
  BY <1>1, <1>2, <1>3 DEF HolderRight, Closes, Phases
<1> QED
  BY <1>8, <1>9, <1>10, <1>11, <1>12, <1>13

LEMMA OpenStructure ==
  ASSUME Structure, NEW n \in Numbers, OpenSocket(n)
  PROVE  Structure'
<1> USE TwowayAssumption, NumbersAssumption DEF Structure, Started, Cleared, Returned, InInit, Filed,
      Invalid, Running, facadeFrame, OpenSocket, Vacant
<1>1. Flags'
  BY DEF Flags
<1>2. Types'
  BY DEF Types
<1>3. Setup'
  BY DEF Setup, Types, Clients
<1>4. Phases'
  BY DEF Phases
<1>5. FiledRight'
  BY DEF FiledRight, Phases
<1>6. HolderRight'
  BY DEF HolderRight, Types
<1> QED
  BY <1>1, <1>2, <1>3, <1>4, <1>5, <1>6

LEMMA EndStructure ==
  ASSUME Structure, CloseClient \/ Destroy
  PROVE  Structure'
<1> USE TwowayAssumption, NumbersAssumption DEF Structure, Started, Cleared, Returned, InInit, Filed,
      Invalid, Running, facadeFrame, winsock, clientVars
<1>1. CASE CloseClient
  <2>1. Closes /\ linked' = linked
    BY <1>1, ReleaseCloses DEF CloseClient, Release
  <2>2. i' \in Clients /\ pc = "close" /\ pc' \in {"close", "closed"}
    BY <1>1, StepForward DEF CloseClient
  <2>3. UNCHANGED <<facadeFrame, clientVars>>
    BY <1>1 DEF CloseClient
  <2>4. Flags'
    BY <2>3 DEF Flags
  <2>5. Types'
    BY <2>1, <2>2, <2>3 DEF Types, Closes
  <2>6. Setup'
    BY <2>2 DEF Setup
  <2>7. Phases'
    BY <2>2, <2>3 DEF Phases
  <2>8. FiledRight'
    BY <2>2, <2>3 DEF FiledRight, Phases
  <2>9. HolderRight'
    BY <2>1, <2>2, <2>3 DEF HolderRight, Closes, Phases
  <2> QED
    BY <2>4, <2>5, <2>6, <2>7, <2>8, <2>9
<1>2. CASE Destroy
  <2> USE <1>2 DEF Destroy
  <2>1. Flags'
    BY DEF Flags
  <2>2. Types'
    BY DEF Types
  <2>3. Setup'
    BY DEF Setup
  <2>4. Phases'
    BY DEF Phases
  <2>5. FiledRight'
    BY DEF FiledRight, Phases
  <2>6. HolderRight'
    BY DEF HolderRight, Phases
  <2> QED
    BY <2>1, <2>2, <2>3, <2>4, <2>5, <2>6
<1> QED
  BY <1>1, <1>2

LEMMA StutterStructure == Structure /\ UNCHANGED vars => Structure'
  BY DEF Structure, Flags, Types, Setup, Phases, FiledRight, HolderRight, Started, Cleared, Returned,
     InInit, Filed, vars, winsock, serverVars, clientVars

LEMMA NextStructure == Structure /\ [Next]_vars => Structure'
<1> SUFFICES ASSUME Structure, [Next]_vars PROVE Structure'
  OBVIOUS
<1>1. CASE Server
  <2>1. CASE AcceptThread
    BY <1>1, <2>1, AcceptStructure DEF Server
  <2>2. CASE Create \/ CloseServer
    BY <1>1, <2>2, OwnerStructure DEF Server
  <2>3. CASE \E p \in Peers : ReceiveThread(p)
    BY <1>1, <2>3, ReceiveStructure DEF Server
  <2> QED
    BY <1>1, <2>1, <2>2, <2>3 DEF Server
<1>2. CASE Facade
  BY <1>2, OpenStructure, ClientStructure, EndStructure DEF Facade
<1>3. CASE UNCHANGED vars
  BY <1>3, StutterStructure
<1> QED
  BY <1>1, <1>2, <1>3 DEF Next

(* The types of every variable.                                            *)
THEOREM TwowayTypeCorrect == Spec => []TypeOK
<1>1. Structure => TypeOK
  BY TypeParts DEF Structure
<1> QED
  BY InitStructure, NextStructure, <1>1, PTL DEF Spec, Safety

(* Once CloseServer has returned no thread of the server runs and none of  *)
(* its sockets is open.                                                    *)
THEOREM CloseServerComplete == Spec => []CloseIsComplete
<1>1. Structure => CloseIsComplete
  <2> SUFFICES ASSUME Structure, Returned PROVE ThreadsEnded /\ SocketsClosed
    BY DEF CloseIsComplete
  <2>1. main = "joined" /\ Cleared
    BY DEF Structure, Phases, Returned, Cleared
  <2> QED
    BY <2>1 DEF Structure, FiledRight, HolderRight, Returned, ThreadsEnded, SocketsClosed, MainAlive
<1> QED
  BY InitStructure, NextStructure, <1>1, PTL DEF Spec, Safety

-----------------------------------------------------------------------------
(* What holds until a client has failed twice, and more until one has      *)
(* failed once.                                                            *)

(* A client whose turn has come has a number or a failure.                 *)
Opened ==
    /\ pc = "connect" => m_Socket[i] \in Numbers
    /\ \A c \in Clients : (~InInit \/ c < i) /\ m_Socket[c] = Invalid => fails[c] >= 1

(* The WSAStartup calls not undone are the server's and the good clients'. *)
Good == {c \in Clients : m_Socket[c] # Invalid /\ fails[c] = 0}
Bearable == ~m_IsCloseServer /\ \A c \in Clients : fails[c] < 2
Counted == Bearable => loads = (IF main = "null" THEN 0 ELSE 1) + Cardinality(Good)

LEMMA GoodFinite == IsFiniteSet(Good) /\ Cardinality(Good) \in Nat
<1>1. IsFiniteSet(Clients)
  BY TwowayAssumption, FS_Interval DEF Clients
<1>2. IsFiniteSet(Good)
  BY <1>1, FS_Subset DEF Good
<1> QED
  BY <1>2, FS_CardinalityType

LEMMA InitCounted == Init => Opened /\ Counted
<1> SUFFICES ASSUME Init PROVE Opened /\ Counted
  OBVIOUS
<1>1. Good = {}
  BY DEF Init, Good
<1>2. Cardinality(Good) = 0
  BY <1>1, FS_EmptySet
<1> QED
  BY <1>2, TwowayAssumption DEF Init, ServerInit, Opened, Counted, InInit, Clients

LEMMA ServerCounted ==
  ASSUME Structure, Opened, Counted, Server
  PROVE  Opened' /\ Counted'
<1> USE DEF Server, clientVars
<1>1. Good' = Good
  BY DEF Good, Server, clientVars
<1>2. Cardinality(Good) \in Nat
  BY GoodFinite
<1>3. CASE AcceptThread
  <2>1. UNCHANGED <<pc, loads, m_IsCloseServer, clientVars, i>> /\ main # "null" /\ main' # "null"
    BY <1>3 DEF AcceptThread, AcceptFails, Store, Accept, NextAccept, acceptFrame, winsock
  <2> QED
    BY <1>1, <2>1 DEF Opened, Counted, Bearable, InInit
<1>4. ASSUME NEW p \in Peers, ReceiveThread(p) PROVE Opened' /\ Counted'
  <2>1. UNCHANGED <<pc, main, loads, m_IsCloseServer, clientVars, i>>
    BY <1>4, ReceiveMoves DEF Moves, recvFrame
  <2> QED
    BY <1>1, <2>1 DEF Opened, Counted, Bearable, InInit
<1>5. CASE CreateServerFails
  BY <1>1, <1>5, TwowayAssumption
  DEF CreateServerFails, winsock, Opened, Counted, Bearable, InInit, Structure, Setup, Clients
<1>6. ASSUME NEW n \in Numbers, CreateServerSocket(n) PROVE Opened' /\ Counted'
  BY <1>1, <1>2, <1>6, TwowayAssumption
  DEF CreateServerSocket, Opened, Counted, Bearable, InInit, Structure, Setup, Clients
<1>7. CASE CloseServer
  <2>1. UNCHANGED <<clientVars, i>>
    OBVIOUS
  <2>2. /\ m_IsCloseServer' /\ pc' \notin {"create", "socket", "connect"}
        /\ pc \notin {"create", "socket", "connect"}
    BY <1>7 DEF CloseServer, SetFlag, CloseListener, JoinMain, CloseNumber, JoinThreads,
       Structure, Phases
  <2> QED
    BY <2>1, <2>2 DEF Opened, Counted, Bearable, InInit
<1> QED
  BY <1>3, <1>4, <1>5, <1>6, <1>7 DEF Create

(* One failure of a client that had none, and has a number: the count      *)
(* loses one, and there is one to lose.                                    *)
LEMMA FailureCounted ==
  ASSUME Structure, Counted, Bearable, fails[i] = 0, m_Socket[i] # Invalid, Failed(i),
         UNCHANGED <<m_Socket, main>>
  PROVE  /\ Cardinality(Good') = Cardinality(Good) - 1
         /\ loads \in Nat /\ loads >= 1
         /\ loads - 1 = (IF main' = "null" THEN 0 ELSE 1) + Cardinality(Good')
<1>0. i \in Clients /\ fails \in [Clients -> 0 .. 2] /\ loads \in Nat
  BY DEF Structure, Types
<1>1. i \in Good
  BY <1>0 DEF Good
<1>2. Good' = Good \ {i}
  BY <1>0 DEF Good, Failed
<1>3. Cardinality(Good') = Cardinality(Good) - 1
  BY <1>1, <1>2, GoodFinite, FS_RemoveElement
<1>4. Cardinality(Good) \in Nat /\ Cardinality(Good') \in Nat
  <2>1. IsFiniteSet(Good')
    BY <1>2, GoodFinite, FS_Subset
  <2> QED
    BY <2>1, GoodFinite, FS_CardinalityType
<1> QED
  BY <1>0, <1>3, <1>4 DEF Counted

LEMMA FailedMore ==
  ASSUME Types, Failed(i)
  PROVE  /\ fails' = [fails EXCEPT ![i] = IF fails[i] < 2 THEN fails[i] + 1 ELSE fails[i]]
         /\ i \in Clients /\ fails'[i] \in 1 .. 2
         /\ fails[i] > 0 => fails'[i] = 2
         /\ fails[i] = 0 => fails'[i] = 1
  BY DEF Types, Failed

LEMMA ClientOpened ==
  ASSUME Structure, Opened, Facade
  PROVE  Opened'
<1> USE TwowayAssumption, NumbersAssumption DEF Opened, InInit, Structure, Types
<1>0. /\ i \in Clients /\ fails \in [Clients -> 0 .. 2]
      /\ m_Socket \in [Clients -> Numbers \cup {Invalid}]
  OBVIOUS
<1>1. ASSUME NEW n \in Numbers, OpenSocket(n) PROVE Opened'
  BY <1>0, <1>1 DEF OpenSocket, Clients, Invalid
<1>2. CASE OpenFails
  BY <1>0, <1>2, FailedMore DEF OpenFails, Step, Clients
<1>3. CASE Connect
  BY <1>0, <1>3 DEF Connect, Step, Clients, clientVars, Invalid
<1>4. CASE ConnectFails
  BY <1>0, <1>4, FailedMore DEF ConnectFails, Step, Clients
<1>5. CASE StartSend
  BY <1>5 DEF StartSend, clientVars
<1>6. CASE Send
  BY <1>6 DEF Send, Step, Idle, clientVars
<1>7. CASE SendFails
  BY <1>0, <1>7, FailedMore DEF SendFails, Step, Idle, Clients
<1>8. CASE CloseClient
  BY <1>8 DEF CloseClient, Step, clientVars
<1>9. CASE Destroy
  BY <1>9 DEF Destroy, clientVars
<1> QED
  BY <1>1, <1>2, <1>3, <1>4, <1>5, <1>6, <1>7, <1>8, <1>9 DEF Facade

LEMMA ClientCounted ==
  ASSUME Structure, Opened, Counted, Facade
  PROVE  Counted'
<1> USE TwowayAssumption, NumbersAssumption DEF Structure
<1>0. /\ i \in Clients /\ fails \in [Clients -> 0 .. 2] /\ loads \in Nat
      /\ m_Socket \in [Clients -> Numbers \cup {Invalid}]
      /\ Cardinality(Good) \in Nat /\ IsFiniteSet(Good)
  BY GoodFinite DEF Types
<1> SUFFICES ASSUME Bearable'
             PROVE  loads' = (IF main' = "null" THEN 0 ELSE 1) + Cardinality(Good')
  BY DEF Counted
<1>1. ASSUME NEW n \in Numbers, OpenSocket(n)
      PROVE  loads' = (IF main' = "null" THEN 0 ELSE 1) + Cardinality(Good')
  <2>1. m_Socket[i] = Invalid /\ fails[i] = 0
    BY <1>0, <1>1 DEF OpenSocket, Setup, InInit, Clients
  <2>2. i \notin Good /\ Good' = Good \cup {i}
    BY <1>0, <1>1, <2>1 DEF OpenSocket, Good, Invalid
  <2>3. Cardinality(Good') = Cardinality(Good) + 1
    BY <1>0, <2>2, FS_AddElement
  <2> QED
    BY <1>0, <1>1, <2>3 DEF OpenSocket, facadeFrame, Counted, Bearable
<1>2. CASE OpenFails
  <2>1. m_Socket[i] = Invalid /\ fails[i] = 0
    BY <1>0, <1>2 DEF OpenFails, Setup, InInit, Clients
  <2>2. Good' = Good
    BY <1>0, <1>2, <2>1, FailedMore DEF OpenFails, Good
  <2> QED
    BY <1>0, <1>2, <2>1, <2>2, FailedMore DEF OpenFails, facadeFrame, winsock, Counted, Bearable
<1>3. CASE Connect \/ StartSend \/ Send \/ Destroy
  <2>1. Good' = Good /\ UNCHANGED <<fails, main, loads, m_IsCloseServer>>
    BY <1>3 DEF Connect, StartSend, Send, Destroy, facadeFrame, clientVars, winsock, Good
  <2> QED
    BY <2>1 DEF Counted, Bearable
<1>4. CASE ConnectFails \/ SendFails
  <2>1. Failed(i) /\ Release(m_Socket[i]) /\ UNCHANGED <<facadeFrame, m_Socket>>
    BY <1>4 DEF ConnectFails, SendFails
  <2>2. fails[i] = 0
    BY <1>0, <2>1, FailedMore DEF Bearable
  <2>3. m_Socket[i] # Invalid
    BY <1>0, <1>4, <2>2 DEF ConnectFails, SendFails, Opened, InInit, Invalid
  <2>4. Bearable
    BY <1>0, <2>1, <2>2, FailedMore DEF Bearable, facadeFrame
  <2>5. loads >= 1 /\ loads - 1 = (IF main' = "null" THEN 0 ELSE 1) + Cardinality(Good')
    BY <2>1, <2>2, <2>3, <2>4, FailureCounted DEF facadeFrame
  <2> QED
    BY <1>0, <2>1, <2>5 DEF Release
<1>5. CASE CloseClient
  BY <1>5 DEF CloseClient, facadeFrame, Phases, Bearable
<1> QED
  BY <1>1, <1>2, <1>3, <1>4, <1>5 DEF Facade

(* While no peer has left, every thread that was started, ended or not,    *)
(* every good client and the server have their sockets.                    *)
Untouched ==
    /\ main # "null" => Holds(m_ServerSocket, Listener)
    /\ \A p \in Peers : Started(p) => Holds(num[p], p)
    /\ \A c \in Good : Holds(m_Socket[c], c)
Clean == Bearable /\ ~left => Untouched

(* The thread that is to be filed is not in the map.                       *)
Unfiled == main = "store" => \A n \in Numbers : m_SingleSocketRecvThreadMap[n] # accepted

(* What SocketsKeptApart says, also when the process is about to end.      *)
Kept ==
    /\ main # "null" => Holds(m_ServerSocket, Listener)
    /\ \A p \in Peers : tpc[p] \in Running => Holds(num[p], p)
    /\ \A c \in Clients \cap linked : Holds(m_Socket[c], c)
Apart == ~m_IsCloseServer /\ ~Mixed => Kept

Reasons ==
    /\ aborted = "reuse" => left \/ ~Bearable
    /\ aborted = "destroyed" => ~m_IsCloseServer

LEMMA InitApart == Init => Clean /\ Unfiled /\ Apart /\ Reasons
  BY DEF Init, ServerInit, Clean, Untouched, Started, Good, Unfiled, Apart, Kept, Running, Reasons

LEMMA UnfiledStep ==
  ASSUME Structure, Unfiled, Next
  PROVE  Unfiled'
<1> USE DEF Unfiled
<1>1. ASSUME NEW p \in Peers, NEW n \in Numbers, Accept(p, n) PROVE Unfiled'
  BY <1>1, TwowayAssumption DEF Accept, Structure, FiledRight, Filed, Started, Types
<1>2. CASE AcceptFails
  BY <1>2 DEF AcceptFails, NextAccept
<1>3. CASE Store
  BY <1>3 DEF Store, NextAccept
<1>4. ASSUME NEW p \in Peers, ReceiveThread(p) PROVE Unfiled'
  BY <1>4, ReceiveMoves DEF Moves, recvFrame
<1>5. CASE Create
  BY <1>5 DEF Create, CreateServerSocket, CreateServerFails, ownerFrame
<1>6. CASE CloseServer
  <2>1. CASE JoinThreads
    BY <2>1 DEF JoinThreads, Structure, Phases
  <2>2. CASE SetFlag \/ CloseListener \/ JoinMain \/ CloseNumber
    BY <2>2 DEF SetFlag, CloseListener, JoinMain, CloseNumber, ownerFrame
  <2> QED
    BY <1>6, <2>1, <2>2 DEF CloseServer
<1>7. CASE Facade
  <2>1. UNCHANGED <<main, accepted, m_SingleSocketRecvThreadMap>>
    BY <1>7 DEF Facade, OpenSocket, OpenFails, Connect, ConnectFails, StartSend, Send, SendFails,
       CloseClient, Destroy, facadeFrame
  <2> QED
    BY <2>1
<1>8. CASE UNCHANGED vars
  BY <1>8 DEF vars, serverVars
<1> QED
  BY <1>1, <1>2, <1>3, <1>4, <1>5, <1>6, <1>7, <1>8 DEF Next, Server, AcceptThread

(* Until CloseServer begins or a peer leaves, a receive thread closes      *)
(* nothing.                                                                *)
LEMMA ReceiveKeeps ==
  ASSUME NEW p \in Peers, ReceiveThread(p), ~m_IsCloseServer, ~left'
  PROVE  holder' = holder
  BY DEF ReceiveThread, TestClose, Complete, Partial, PeerLeft, PeerLeftMidway, ReceiveFails, winsock

LEMMA ReceiveHistory ==
  ASSUME NEW p \in Peers, ReceiveThread(p), Flags
  PROVE  (left => left') /\ (midway => midway')
  BY DEF Flags, ReceiveThread, TestClose, Complete, Partial, PeerLeft, PeerLeftMidway, ReceiveFails,
     recvFrame

LEMMA ServerClean ==
  ASSUME Structure, Clean, Server
  PROVE  Clean'
<1> USE TwowayAssumption, NumbersAssumption DEF Structure, Started, Holds
<1>0. UNCHANGED <<clientVars, i, Good>>
  BY DEF Server, Good, clientVars
<1> SUFFICES ASSUME Bearable', ~left' PROVE Untouched'
  BY DEF Clean
<1>1. ASSUME NEW p \in Peers, NEW n \in Numbers, Accept(p, n) PROVE Untouched'
  <2>1. Untouched
    BY <1>0, <1>1 DEF Clean, Bearable, Accept, acceptFrame, clientVars
  <2>2. /\ holder[n] = Free /\ holder' = [holder EXCEPT ![n] = p]
        /\ tpc' = [tpc EXCEPT ![p] = "test"] /\ num' = [num EXCEPT ![p] = n]
        /\ UNCHANGED m_ServerSocket /\ main # "null"
    BY <1>1 DEF Accept, Vacant, acceptFrame
  <2>3. /\ holder \in [Numbers -> Peers \cup Clients \cup {Listener, Free}]
        /\ tpc \in [Peers -> Running \cup {"none", "ended"}]
        /\ num \in [Peers -> Numbers \cup {Invalid}]
    BY DEF Types
  <2>4. main' # "null" => Holds(m_ServerSocket, Listener)'
    BY <2>1, <2>2, <2>3 DEF Untouched
  <2>5. ASSUME NEW q \in Peers, Started(q)' PROVE Holds(num[q], q)'
    BY <2>1, <2>2, <2>3, <2>5 DEF Untouched
  <2>6. ASSUME NEW c \in Good PROVE Holds(m_Socket[c], c)'
    BY <1>0, <2>1, <2>2, <2>3 DEF Untouched, Good, clientVars
  <2> QED
    BY <1>0, <2>4, <2>5, <2>6 DEF Untouched, clientVars
<1>2. CASE AcceptFails \/ Store
  <2>1. UNCHANGED <<holder, m_IsCloseServer, m_ServerSocket, tpc, num, left>> /\ main # "null"
    BY <1>2 DEF AcceptFails, Store, acceptFrame, winsock
  <2> QED
    BY <1>0, <2>1 DEF Clean, Bearable, Untouched, clientVars, Good
<1>3. ASSUME NEW p \in Peers, ReceiveThread(p) PROVE Untouched'
  <2>1. /\ UNCHANGED <<m_IsCloseServer, m_ServerSocket, main, num>>
        /\ \A q \in Peers : Started(q)' => Started(q)
    BY <1>3, ReceiveMoves DEF Moves, recvFrame, Types, Running
  <2>2. ~m_IsCloseServer /\ ~left
    BY <1>3, <2>1, ReceiveHistory DEF Bearable
  <2>3. holder' = holder
    BY <1>3, <2>2, ReceiveKeeps
  <2> QED
    BY <1>0, <2>1, <2>2, <2>3 DEF Clean, Bearable, Untouched, clientVars, Good
<1>4. CASE CreateServerFails
  BY <1>0, <1>4 DEF CreateServerFails, ownerFrame, winsock, Clean, Bearable, Untouched, clientVars, Good
<1>5. ASSUME NEW n \in Numbers, CreateServerSocket(n) PROVE Untouched'
  <2>1. Good = {} /\ \A p \in Peers : ~Started(p)
    BY <1>5 DEF CreateServerSocket, Setup, Phases, InInit, Good, Clients
  <2> QED
    BY <1>0, <1>5, <2>1 DEF CreateServerSocket, ownerFrame, Untouched, Types
<1>6. CASE CloseServer
  BY <1>6 DEF CloseServer, SetFlag, CloseListener, JoinMain, CloseNumber, JoinThreads, Phases, Bearable
<1> QED
  BY <1>1, <1>2, <1>3, <1>4, <1>5, <1>6 DEF Server, Create, AcceptThread

LEMMA FacadeClean ==
  ASSUME Structure, Opened, Counted, Clean, Facade
  PROVE  Clean'
<1> USE TwowayAssumption, NumbersAssumption DEF Structure, Started, Holds
<1>0. /\ i \in Clients /\ fails \in [Clients -> 0 .. 2] /\ loads \in Nat
      /\ m_Socket \in [Clients -> Numbers \cup {Invalid}]
      /\ holder \in [Numbers -> Peers \cup Clients \cup {Listener, Free}]
  BY DEF Types
<1> SUFFICES ASSUME Bearable', ~left' PROVE Untouched'
  BY DEF Clean
<1>1. ASSUME NEW n \in Numbers, OpenSocket(n) PROVE Untouched'
  <2>1. Untouched
    BY <1>1 DEF Clean, Bearable, OpenSocket, facadeFrame
  <2>2. Good' \subseteq Good \cup {i}
    BY <1>0, <1>1 DEF OpenSocket, Good
  <2>3. holder[n] = Free /\ holder' = [holder EXCEPT ![n] = i] /\ m_Socket' = [m_Socket EXCEPT ![i] = n]
        /\ UNCHANGED facadeFrame
    BY <1>1 DEF OpenSocket, Vacant
  <2>4. main' # "null" => Holds(m_ServerSocket, Listener)'
    BY <1>0, <2>1, <2>3 DEF Untouched, facadeFrame
  <2>5. ASSUME NEW p \in Peers, Started(p)' PROVE Holds(num[p], p)'
    BY <1>0, <2>1, <2>3, <2>5 DEF Untouched, facadeFrame
  <2>6. ASSUME NEW c \in Good' PROVE Holds(m_Socket[c], c)'
    BY <1>0, <2>1, <2>2, <2>3, <2>6 DEF Untouched, Good
  <2> QED
    BY <2>3, <2>4, <2>5, <2>6 DEF Untouched, facadeFrame
<1>2. CASE OpenFails \/ Connect \/ StartSend \/ Send \/ Destroy
  <2>1. /\ UNCHANGED <<holder, m_ServerSocket, main, tpc, num, m_Socket, m_IsCloseServer, left>>
        /\ fails' = fails \/ Failed(i)
    BY <1>2 DEF OpenFails, Connect, StartSend, Send, Destroy, facadeFrame, clientVars, winsock
  <2>2. Good' \subseteq Good /\ Bearable
    BY <1>0, <2>1, FailedMore DEF Good, Bearable
  <2> QED
    BY <2>1, <2>2 DEF Clean, Untouched
<1>3. CASE ConnectFails \/ SendFails
  <2>1. Failed(i) /\ Release(m_Socket[i]) /\ UNCHANGED <<facadeFrame, m_Socket>>
    BY <1>3 DEF ConnectFails, SendFails
  <2>2. fails[i] = 0
    BY <1>0, <2>1, FailedMore DEF Bearable
  <2>3. m_Socket[i] # Invalid
    BY <1>0, <1>3, <2>2 DEF ConnectFails, SendFails, Opened, InInit, Invalid
  <2>4. Bearable
    BY <1>0, <2>1, <2>2, FailedMore DEF Bearable, facadeFrame
  <2>5. /\ loads >= 1
        /\ loads - 1 = (IF main' = "null" THEN 0 ELSE 1) + Cardinality(Good')
    BY <2>1, <2>2, <2>3, <2>4, FailureCounted DEF facadeFrame
  <2>6. Untouched
    BY <2>1, <2>4 DEF Clean, facadeFrame
  <2>7. i \in Good /\ Good' = Good \ {i}
    BY <1>0, <2>1, <2>2, <2>3 DEF Good, Failed
  <2>8. holder[m_Socket[i]] = i
    BY <2>6, <2>7 DEF Untouched
  <2>9. CASE loads = 1
    <3>1. IsFiniteSet(Good') /\ Cardinality(Good') \in Nat
      BY <2>7, GoodFinite, FS_Subset, FS_CardinalityType
    <3>2. main' = "null" /\ Cardinality(Good') = 0
      BY <2>5, <2>9, <3>1
    <3>3. Good' = {}
      BY <3>1, <3>2, FS_EmptySet
    <3>4. \A p \in Peers : ~Started(p)'
      BY <2>1, <3>2 DEF facadeFrame, Phases
    <3> QED
      BY <3>2, <3>3, <3>4 DEF Untouched
  <2>10. CASE loads > 1
    <3>1. \A n \in Numbers : n # m_Socket[i] => holder'[n] = holder[n]
      BY <1>0, <2>1, <2>10 DEF Release
    <3>2. UNCHANGED <<m_ServerSocket, main, num, tpc, m_Socket>>
      BY <2>1 DEF facadeFrame
    <3>3. main' # "null" => Holds(m_ServerSocket, Listener)'
      BY <1>0, <2>6, <2>8, <3>1, <3>2 DEF Untouched
    <3>4. ASSUME NEW p \in Peers, Started(p)' PROVE Holds(num[p], p)'
      <4>1. num[p] \in Numbers /\ holder[num[p]] = p /\ p # i
        BY <1>0, <2>6, <3>2, <3>4 DEF Untouched
      <4> QED
        BY <2>8, <3>1, <3>2, <4>1
    <3>5. ASSUME NEW c \in Good' PROVE Holds(m_Socket[c], c)'
      <4>1. m_Socket[c] \in Numbers /\ holder[m_Socket[c]] = c /\ c # i
        BY <2>6, <2>7, <3>5 DEF Untouched
      <4> QED
        BY <2>8, <3>1, <3>2, <4>1
    <3> QED
      BY <3>3, <3>4, <3>5 DEF Untouched
  <2> QED
    BY <1>0, <2>5, <2>9, <2>10
<1>4. CASE CloseClient
  BY <1>4 DEF CloseClient, facadeFrame, Phases, Bearable
<1> QED
  BY <1>1, <1>2, <1>3, <1>4 DEF Facade

(* Before the first failure no number is closed but by the thread whose    *)
(* socket it is, and that thread ends.                                     *)
LEMMA ReceiveApart ==
  ASSUME Structure, Apart, NEW p \in Peers, ReceiveThread(p), UNCHANGED <<clientVars, i>>
  PROVE  Apart'
<1> USE TwowayAssumption, NumbersAssumption DEF Structure, Holds
<1>0. /\ holder \in [Numbers -> Peers \cup Clients \cup {Listener, Free}]
      /\ tpc \in [Peers -> Running \cup {"none", "ended"}]
      /\ num \in [Peers -> Numbers \cup {Invalid}]
      /\ m_Socket \in [Clients -> Numbers \cup {Invalid}]
  BY DEF Types
<1> SUFFICES ASSUME ~m_IsCloseServer', ~Mixed' PROVE Kept'
  BY DEF Apart
<1>1. /\ UNCHANGED <<m_IsCloseServer, m_ServerSocket, main, num, linked, m_Socket, fails>>
      /\ tpc[p] \in Running
      /\ \A q \in Peers : tpc'[q] \in Running => tpc[q] \in Running
  BY <1>0, ReceiveMoves DEF Moves, recvFrame, clientVars, Running
<1>2. ~m_IsCloseServer /\ ~Mixed
  BY <1>1, ReceiveHistory DEF Mixed
<1>3. Kept
  BY <1>2 DEF Apart
<1>4. CASE TestClose(p) \/ Complete(p) \/ Partial(p) \/ ReceiveFails(p)
  <2>1. holder' = holder
    BY <1>2, <1>4 DEF TestClose, Complete, Partial, ReceiveFails, winsock
  <2> QED
    BY <1>1, <1>3, <2>1 DEF Kept
<1>5. CASE PeerLeft(p)
  <2>1. /\ tpc'[p] = "ended"
        /\ \A n \in Numbers : n # num[p] => holder'[n] = holder[n]
    BY <1>0, <1>5 DEF PeerLeft, Goto, closesocket
  <2>2. num[p] \in Numbers /\ holder[num[p]] = p
    BY <1>1, <1>3 DEF Kept
  <2>3. main' # "null" => Holds(m_ServerSocket, Listener)'
    BY <1>1, <1>3, <2>1, <2>2 DEF Kept
  <2>4. ASSUME NEW q \in Peers, tpc'[q] \in Running PROVE Holds(num[q], q)'
    <3>1. q # p
      BY <2>1, <2>4 DEF Running
    <3>2. num[q] \in Numbers /\ holder[num[q]] = q
      BY <1>1, <1>3, <2>4 DEF Kept
    <3> QED
      BY <1>1, <2>1, <2>2, <3>1, <3>2
  <2>5. ASSUME NEW c \in Clients \cap linked' PROVE Holds(m_Socket[c], c)'
    <3>1. m_Socket[c] \in Numbers /\ holder[m_Socket[c]] = c /\ c # p
      BY <1>1, <1>3, <2>5 DEF Kept
    <3>2. holder'[m_Socket[c]] = holder[m_Socket[c]]
      BY <2>1, <2>2, <3>1
    <3> QED
      BY <1>1, <3>1, <3>2
  <2> QED
    BY <2>3, <2>4, <2>5 DEF Kept, Running
<1>6. CASE PeerLeftMidway(p)
  BY <1>6 DEF PeerLeftMidway, Mixed
<1> QED
  BY <1>4, <1>5, <1>6 DEF ReceiveThread

LEMMA ServerApart ==
  ASSUME Structure, Apart, Server
  PROVE  Apart'
<1> USE TwowayAssumption, NumbersAssumption DEF Structure, Holds
<1>0. /\ holder \in [Numbers -> Peers \cup Clients \cup {Listener, Free}]
      /\ tpc \in [Peers -> Running \cup {"none", "ended"}]
      /\ num \in [Peers -> Numbers \cup {Invalid}]
      /\ linked \subseteq Peers \cup Clients
  BY DEF Types
<1>1. UNCHANGED <<m_Socket, fails, i>>
  BY DEF Server, clientVars
<1>2. ASSUME NEW p \in Peers, ReceiveThread(p) PROVE Apart'
  BY <1>1, <1>2, ReceiveApart DEF clientVars
<1> SUFFICES ASSUME ~m_IsCloseServer', ~Mixed', AcceptThread \/ Create \/ CloseServer PROVE Kept'
  BY <1>2 DEF Apart, Server
<1>3. ASSUME NEW p \in Peers, NEW n \in Numbers, Accept(p, n) PROVE Kept'
  <2>1. Kept
    BY <1>1, <1>3 DEF Apart, Mixed, Accept, acceptFrame
  <2>2. /\ holder[n] = Free /\ holder' = [holder EXCEPT ![n] = p]
        /\ tpc' = [tpc EXCEPT ![p] = "test"] /\ num' = [num EXCEPT ![p] = n]
        /\ UNCHANGED m_ServerSocket /\ main # "null"
        /\ linked' = linked \cup {p}
    BY <1>3 DEF Accept, Vacant, acceptFrame
  <2>3. main' # "null" => Holds(m_ServerSocket, Listener)'
    BY <1>0, <2>1, <2>2 DEF Kept
  <2>4. ASSUME NEW q \in Peers, tpc'[q] \in Running PROVE Holds(num[q], q)'
    BY <1>0, <2>1, <2>2, <2>4 DEF Kept
  <2>5. ASSUME NEW c \in Clients \cap linked' PROVE Holds(m_Socket[c], c)'
    BY <1>0, <1>1, <2>1, <2>2 DEF Kept
  <2> QED
    BY <2>3, <2>4, <2>5 DEF Kept, Running
<1>4. CASE AcceptFails \/ Store
  <2>1. /\ UNCHANGED <<holder, linked, m_IsCloseServer, m_ServerSocket, tpc, num, midway>>
        /\ main # "null"
    BY <1>4 DEF AcceptFails, Store, acceptFrame, winsock
  <2> QED
    BY <1>1, <2>1 DEF Apart, Mixed, Kept
<1>5. CASE CreateServerFails
  BY <1>1, <1>5 DEF CreateServerFails, ownerFrame, winsock, Apart, Mixed, Kept
<1>6. ASSUME NEW n \in Numbers, CreateServerSocket(n) PROVE Kept'
  <2>1. Clients \cap linked = {} /\ \A p \in Peers : tpc[p] = "none"
    BY <1>6 DEF CreateServerSocket, Setup, Phases, InInit, Clients, Started
  <2> QED
    BY <1>0, <1>6, <2>1 DEF CreateServerSocket, ownerFrame, Kept, Running
<1>7. CASE CloseServer
  BY <1>7 DEF CloseServer, SetFlag, CloseListener, JoinMain, CloseNumber, JoinThreads, Phases
<1> QED
  BY <1>3, <1>4, <1>5, <1>6, <1>7 DEF Create, AcceptThread

LEMMA FacadeApart ==
  ASSUME Structure, Apart, Facade
  PROVE  Apart'
<1> USE TwowayAssumption, NumbersAssumption DEF Structure, Holds
<1>0. /\ i \in Clients
      /\ fails \in [Clients -> 0 .. 2]
      /\ m_Socket \in [Clients -> Numbers \cup {Invalid}]
      /\ holder \in [Numbers -> Peers \cup Clients \cup {Listener, Free}]
  BY DEF Types
<1> SUFFICES ASSUME ~m_IsCloseServer', ~Mixed' PROVE Kept'
  BY DEF Apart
<1>1. ASSUME NEW n \in Numbers, OpenSocket(n) PROVE Kept'
  <2>1. Kept
    BY <1>1 DEF Apart, Mixed, OpenSocket, facadeFrame
  <2>2. i \notin linked
    BY <1>0, <1>1 DEF OpenSocket, Setup, InInit, Clients
  <2>3. holder[n] = Free /\ holder' = [holder EXCEPT ![n] = i] /\ m_Socket' = [m_Socket EXCEPT ![i] = n]
        /\ UNCHANGED <<m_ServerSocket, main, tpc, num, linked>>
    BY <1>1 DEF OpenSocket, Vacant, facadeFrame
  <2>4. main' # "null" => Holds(m_ServerSocket, Listener)'
    BY <1>0, <2>1, <2>3 DEF Kept
  <2>5. ASSUME NEW q \in Peers, tpc'[q] \in Running PROVE Holds(num[q], q)'
    BY <1>0, <2>1, <2>3, <2>5 DEF Kept
  <2>6. ASSUME NEW c \in Clients \cap linked' PROVE Holds(m_Socket[c], c)'
    BY <1>0, <2>1, <2>2, <2>3 DEF Kept
  <2> QED
    BY <2>4, <2>5, <2>6 DEF Kept, Running
<1>2. CASE Connect
  <2>1. UNCHANGED <<m_IsCloseServer, midway, m_ServerSocket, main, tpc, num, m_Socket, fails, holder>>
    BY <1>2 DEF Connect, facadeFrame, clientVars
  <2>2. Kept
    BY <2>1 DEF Apart, Mixed
  <2>3. \A c \in Clients \cap linked' : c \in linked \/ Holds(m_Socket[c], c)
    BY <1>0, <1>2 DEF Connect
  <2> QED
    BY <2>1, <2>2, <2>3 DEF Kept
<1>3. CASE StartSend \/ Send \/ Destroy
  <2>1. UNCHANGED <<m_IsCloseServer, midway, m_ServerSocket, main, tpc, num, clientVars, holder, linked>>
    BY <1>3 DEF StartSend, Send, Destroy, facadeFrame, clientVars, winsock
  <2> QED
    BY <2>1 DEF Apart, Mixed, Kept, clientVars
<1>4. CASE OpenFails \/ ConnectFails \/ SendFails
  <2>1. Failed(i)
    BY <1>4 DEF OpenFails, ConnectFails, SendFails
  <2> QED
    BY <1>0, <2>1, FailedMore DEF Mixed
<1>5. CASE CloseClient
  BY <1>5 DEF CloseClient, facadeFrame, Phases
<1> QED
  BY <1>1, <1>2, <1>3, <1>4, <1>5 DEF Facade

(* The process ends in line 222 only when Untouched does not hold: the     *)
(* thread in the map and the one to be filed would hold the same number.   *)
LEMMA ReasonsStep ==
  ASSUME Structure, Unfiled, Clean, Reasons, aborted = "no", Server \/ Facade
  PROVE  Reasons'
<1> USE TwowayAssumption, NumbersAssumption DEF Structure, Reasons
<1>1. CASE Server /\ Store
  <2>1. /\ UNCHANGED <<m_IsCloseServer, left, fails>>
        /\ main = "store"
        /\ aborted' = IF num[accepted] \in Filed THEN "reuse" ELSE "no"
    BY <1>1 DEF Store, acceptFrame, Server, clientVars
  <2>2. ASSUME num[accepted] \in Filed, Bearable, ~left PROVE FALSE
    <3> DEFINE n == num[accepted]
               q == m_SingleSocketRecvThreadMap[n]
    <3>1. n \in Numbers /\ q # NoPeer
      BY <2>2 DEF Filed
    <3>2. q \in Peers
      BY <3>1 DEF Types
    <3>3. num[q] = n /\ Started(q)
      BY <2>2 DEF FiledRight
    <3>4. accepted \in Peers /\ Started(accepted)
      BY <2>1 DEF Phases
    <3>5. q # accepted
      BY <2>1, <3>1 DEF Unfiled
    <3>6. Untouched
      BY <2>2 DEF Clean
    <3>7. Holds(num[q], q) /\ Holds(num[accepted], accepted)
      BY <3>2, <3>3, <3>4, <3>6 DEF Untouched
    <3> QED
      BY <3>3, <3>5, <3>7 DEF Holds
  <2>3. CASE num[accepted] \in Filed
    <3>1. left \/ ~Bearable
      BY <2>2, <2>3
    <3>2. left' \/ ~Bearable'
      BY <2>1, <3>1 DEF Bearable
    <3> QED
      BY <2>1, <2>3, <3>2
  <2>4. CASE num[accepted] \notin Filed
    BY <2>1, <2>4
  <2> QED
    BY <2>3, <2>4
<1>2. CASE Destroy
  <2>1. m_IsCloseServer => main = "joined" /\ Cleared /\ Filed = {}
    BY <1>2 DEF Destroy, Phases, FiledRight, Cleared, Returned
  <2> QED
    BY <1>2, <2>1 DEF Destroy
<1>3. CASE JoinMain
  BY <1>3 DEF JoinMain
<1>4. CASE aborted' = "no"
  BY <1>4
<1>5. aborted' = "no" \/ (Server /\ Store) \/ Destroy \/ JoinMain
  <2>1. CASE Server /\ AcceptThread
    BY <2>1 DEF AcceptThread, AcceptFails, Accept
  <2>2. CASE \E p \in Peers : ReceiveThread(p)
    BY <2>2, ReceiveMoves DEF Moves, recvFrame
  <2>3. CASE Create \/ CloseServer
    BY <2>3 DEF Create, CreateServerFails, CreateServerSocket, CloseServer, SetFlag, CloseListener,
       JoinMain, CloseNumber, JoinThreads, ownerFrame
  <2>4. CASE Facade
    BY <2>4 DEF Facade, OpenSocket, OpenFails, Connect, ConnectFails, StartSend, Send, SendFails,
       CloseClient, facadeFrame
  <2> QED
    BY <2>1, <2>2, <2>3, <2>4 DEF Server
<1> QED
  BY <1>1, <1>2, <1>3, <1>4, <1>5

IInv == Structure /\ Opened /\ Counted /\ Unfiled /\ Clean /\ Apart /\ Reasons

LEMMA Invariance == Spec => []IInv
<1>1. Init => IInv
  BY InitStructure, InitCounted, InitApart DEF IInv
<1>2. IInv /\ [Next]_vars => IInv'
  <2> SUFFICES ASSUME IInv, [Next]_vars PROVE IInv'
    OBVIOUS
  <2>1. Structure'
    BY NextStructure DEF IInv
  <2>2. CASE aborted = "no" /\ Server
    BY <2>1, <2>2, ServerCounted, ServerClean, ServerApart, UnfiledStep, ReasonsStep DEF IInv, Next
  <2>3. CASE aborted = "no" /\ Facade
    BY <2>1, <2>3, ClientOpened, ClientCounted, FacadeClean, FacadeApart, UnfiledStep, ReasonsStep
    DEF IInv, Next
  <2>4. CASE UNCHANGED vars
    <3>1. (Opened /\ Counted)'
      BY <2>4 DEF IInv, vars, winsock, serverVars, clientVars, Opened, Counted, Good, Bearable, InInit
    <3>2. (Unfiled /\ Clean)'
      BY <2>4 DEF IInv, vars, winsock, serverVars, clientVars, Unfiled, Clean, Untouched, Started,
         Good, Bearable, Holds
    <3>3. (Apart /\ Reasons)'
      BY <2>4 DEF IInv, vars, winsock, serverVars, clientVars, Apart, Kept, Mixed, Holds, Reasons,
         Bearable
    <3> QED
      BY <2>1, <3>1, <3>2, <3>3 DEF IInv
  <2> QED
    BY <2>2, <2>3, <2>4 DEF Next
<1> QED
  BY <1>1, <1>2, PTL DEF Spec, Safety

(* Until a client fails or a peer leaves within a message, every socket of *)
(* the running server and of its clients is the one its user opened.       *)
THEOREM SocketsStayApart == Spec => []SocketsKeptApart
<1>1. IInv => SocketsKeptApart
  BY DEF IInv, Apart, Kept, SocketsKeptApart
<1> QED
  BY Invariance, <1>1, PTL

(* A client has to fail twice to unload Winsock under a running server.    *)
THEOREM WinsockStaysLoaded == Spec => []WinsockLoaded
<1>1. IInv => WinsockLoaded
  <2> SUFFICES ASSUME IInv, ~m_IsCloseServer, main # "null", loads = 0,
                      \A c \in Clients : fails[c] # 2
               PROVE  FALSE
    BY DEF WinsockLoaded
  <2>1. Bearable
    BY DEF IInv, Structure, Types, Bearable
  <2>2. 0 = 1 + Cardinality(Good)
    BY <2>1 DEF IInv, Counted
  <2> QED
    BY <2>2, GoodFinite
<1> QED
  BY Invariance, <1>1, PTL

(* Every end of the process has one of the reasons named.                  *)
THEOREM AbortsExplained == Spec => []AbortExplained
<1>1. IInv => AbortExplained
  BY DEF IInv, Reasons, AbortExplained, Bearable, Structure, Types
<1> QED
  BY Invariance, <1>1, PTL

-----------------------------------------------------------------------------
(* What CloseReturns asks of every step: CloseServer waits for nobody that *)
(* is not awake, and whoever moves after the flag is set has less to do.   *)

(* The numbers CloseServer has closed stay closed until it has joined.     *)
Swept ==
    /\ pc \in {"sweep", "threads"} => \A n \in Filed \ todo : holder[n] = Free
    /\ pc = "threads" => todo = {}

(* The join of line 159 waits for an accept only on a socket that is       *)
(* closed, that of line 174 for a recv only on a number without a peer.    *)
WaitsAreWoken ==
    /\ pc = "join" /\ main = "accept" => ~Holds(m_ServerSocket, Listener)
    /\ pc = "threads" =>
         \A p \in Peers : tpc[p] \in {"recv", "inner"} => ~Talks(num[p])

(* How many steps a thread of the server has left once the flag is set.    *)
MainLeft == IF main = "accept" THEN 2 ELSE IF main = "store" THEN 1 ELSE 0
ThreadLeft(p) ==
    IF tpc[p] = "recv" THEN 3 ELSE IF tpc[p] = "inner" THEN 2
    ELSE IF tpc[p] = "test" THEN 1 ELSE 0

(* With the flag set the accept thread accepts one more peer at most, and  *)
(* a step of a receive thread, a completed message included, is one of at  *)
(* most three.                                                             *)
MainWindsDown ==
    /\ main' \in {main, "joined"} \/ MainLeft' < MainLeft
    /\ (\E p \in Peers : ~Started(p) /\ Started(p)') => MainLeft = 2 /\ MainLeft' = 1
ThreadWindsDown(p) == Started(p) => tpc'[p] = tpc[p] \/ ThreadLeft(p)' < ThreadLeft(p)
ThreadsWindDown ==
    [][m_IsCloseServer => MainWindsDown /\ \A p \in Peers : ThreadWindsDown(p)]_vars

LEMMA SweptStep ==
  ASSUME Structure, Swept, [Next]_vars
  PROVE  Swept'
<1> USE TwowayAssumption, NumbersAssumption DEF Swept, Filed
<1>1. CASE AcceptThread /\ UNCHANGED <<clientVars, i>>
  <2>1. main # "joined"
    BY <1>1 DEF AcceptThread, AcceptFails, Store, Accept
  <2>2. UNCHANGED pc
    BY <1>1 DEF AcceptThread, AcceptFails, Store, Accept, acceptFrame
  <2> QED
    BY <2>1, <2>2 DEF Structure, Phases
<1>2. ASSUME NEW p \in Peers, ReceiveThread(p) PROVE Swept'
  <2>1. Moves(p)
    BY <1>2, ReceiveMoves
  <2>2. UNCHANGED recvFrame /\ \A n \in Numbers : holder[n] = Free => holder'[n] = Free
    BY <2>1 DEF Moves
  <2> QED
    BY <2>2 DEF recvFrame
<1>3. CASE Create \/ SetFlag \/ CloseListener \/ JoinThreads
  <2>1. pc' \notin {"sweep", "threads"}
    BY <1>3 DEF Create, CreateServerFails, CreateServerSocket, SetFlag, CloseListener, JoinThreads
  <2> QED
    BY <2>1
<1>4. CASE JoinMain
  BY <1>4 DEF JoinMain, Structure, Phases
<1>5. CASE CloseNumber
  <2>1. pc = "sweep" /\ UNCHANGED m_SingleSocketRecvThreadMap
    BY <1>5 DEF CloseNumber
  <2>2. CASE todo = {}
    BY <1>5, <2>1, <2>2 DEF CloseNumber, winsock
  <2>3. CASE todo # {}
    <3>1. PICK n \in todo : closesocket(n) /\ todo' = todo \ {n} /\ UNCHANGED pc
      BY <1>5, <2>3 DEF CloseNumber
    <3>2. \A m \in Numbers : holder'[m] = IF m = n THEN Free ELSE holder[m]
      BY <3>1 DEF closesocket
    <3> QED
      BY <2>1, <3>1, <3>2
  <2> QED
    BY <2>2, <2>3
<1>6. CASE Facade
  <2>1. CASE Destroy
    BY <2>1 DEF Destroy, winsock
  <2>2. CASE ~Destroy
    <3>1. pc' \notin {"sweep", "threads"}
      BY <1>6, <2>2 DEF Facade, OpenSocket, OpenFails, Connect, ConnectFails, StartSend, Send,
         SendFails, CloseClient, Step, Idle
    <3> QED
      BY <3>1
  <2> QED
    BY <2>1, <2>2
<1>7. CASE UNCHANGED vars
  BY <1>7 DEF vars, winsock, serverVars
<1> QED
  BY <1>1, <1>2, <1>3, <1>4, <1>5, <1>6, <1>7 DEF Next, Server, CloseServer

(* While CloseServer joins, whoever it waits for is awake: an accept on    *)
(* the closed listening socket fails, and so does a recv on a number that  *)
(* the loop of line 164 has closed and that nobody has been given since.   *)
THEOREM CloseServerWaitsAreWoken == Spec => []WaitsAreWoken
<1>1. Init => Swept
  BY DEF Init, ServerInit, Swept
<1>2. IInv /\ Swept /\ [Next]_vars => Swept'
  BY SweptStep DEF IInv
<1>3. IInv /\ Swept => WaitsAreWoken
  <2> SUFFICES ASSUME IInv, Swept PROVE WaitsAreWoken
    OBVIOUS
  <2>1. pc = "join" => ~Holds(m_ServerSocket, Listener)
    BY DEF IInv, Structure, HolderRight, Holds
  <2>2. ASSUME pc = "threads", NEW p \in Peers, tpc[p] \in {"recv", "inner"}
        PROVE  ~Talks(num[p])
    <3>1. main = "joined" /\ ~Cleared /\ Started(p)
      BY <2>2 DEF IInv, Structure, Phases, Cleared, Started
    <3>2. num[p] \in Numbers /\ m_SingleSocketRecvThreadMap[num[p]] = p
      BY <3>1 DEF IInv, Structure, FiledRight
    <3>3. num[p] \in Filed \ todo
      BY <2>2, <3>2, TwowayAssumption DEF Filed, Swept
    <3>4. holder[num[p]] = Free /\ Free \notin linked
      BY <2>2, <3>3, TwowayAssumption DEF Swept, IInv, Structure, Types
    <3> QED
      BY <3>4 DEF Talks
  <2> QED
    BY <2>1, <2>2 DEF WaitsAreWoken
<1> QED
  BY Invariance, <1>1, <1>2, <1>3, PTL DEF Spec, Safety

LEMMA ReceiveWindsDown ==
  ASSUME Structure, m_IsCloseServer, NEW p \in Peers, ReceiveThread(p)
  PROVE  /\ ThreadLeft(p)' < ThreadLeft(p)
         /\ UNCHANGED main
         /\ \A q \in Peers : q # p => tpc'[q] = tpc[q]
         /\ Started(p)
<1> USE DEF ThreadLeft, Goto, Structure, Types, Started, recvFrame
<1>1. CASE TestClose(p)
  BY <1>1 DEF TestClose
<1>2. CASE Complete(p)
  BY <1>2 DEF Complete
<1>3. CASE Partial(p)
  BY <1>3 DEF Partial
<1>4. CASE PeerLeft(p)
  BY <1>4 DEF PeerLeft
<1>5. CASE PeerLeftMidway(p)
  BY <1>5 DEF PeerLeftMidway
<1>6. CASE ReceiveFails(p)
  BY <1>6 DEF ReceiveFails
<1> QED
  BY <1>1, <1>2, <1>3, <1>4, <1>5, <1>6 DEF ReceiveThread

LEMMA AcceptWindsDown ==
  ASSUME Structure, m_IsCloseServer, AcceptThread, UNCHANGED <<clientVars, i>>
  PROVE  MainWindsDown /\ \A p \in Peers : ThreadWindsDown(p)
<1> USE DEF MainWindsDown, ThreadWindsDown, MainLeft, Started, Structure, Types, NextAccept
<1>1. CASE AcceptFails
  BY <1>1 DEF AcceptFails
<1>2. CASE Store
  BY <1>2 DEF Store
<1>3. ASSUME NEW p \in Peers, NEW n \in Numbers, Accept(p, n)
      PROVE  MainWindsDown /\ \A q \in Peers : ThreadWindsDown(q)
  BY <1>3 DEF Accept
<1> QED
  BY <1>1, <1>2, <1>3 DEF AcceptThread

(* Once the flag is set nothing goes round any more: the accept thread     *)
(* accepts one more peer at most, and a receive thread takes at most three *)
(* steps until it has ended, whatever its peer still sends.                *)
THEOREM ServerThreadsWindDown == Spec => ThreadsWindDown
<1>1. ASSUME Structure, m_IsCloseServer, [Next]_vars
      PROVE  MainWindsDown /\ \A p \in Peers : ThreadWindsDown(p)
  <2> USE <1>1
  <2>1. CASE AcceptThread /\ UNCHANGED <<clientVars, i>>
    BY <2>1, AcceptWindsDown
  <2>2. ASSUME NEW p \in Peers, ReceiveThread(p)
        PROVE  MainWindsDown /\ \A q \in Peers : ThreadWindsDown(q)
    BY <2>2, ReceiveWindsDown DEF MainWindsDown, ThreadWindsDown, Started
  <2>3. CASE UNCHANGED tpc /\ main' \in {main, "joined"}
    BY <2>3 DEF MainWindsDown, ThreadWindsDown, Started
  <2>4. CASE Create
    BY <2>4 DEF Create, CreateServerFails, CreateServerSocket, Structure, Phases
  <2>5. CASE CloseServer
    <3>1. UNCHANGED tpc /\ main' \in {main, "joined"}
      BY <2>5 DEF CloseServer, SetFlag, CloseListener, JoinMain, CloseNumber, JoinThreads, ownerFrame
    <3> QED
      BY <2>3, <3>1
  <2>6. CASE Facade
    <3>1. UNCHANGED tpc /\ main' = main
      BY <2>6 DEF Facade, OpenSocket, OpenFails, Connect, ConnectFails, StartSend, Send,
         SendFails, CloseClient, Destroy, facadeFrame
    <3> QED
      BY <2>3, <3>1
  <2>7. CASE UNCHANGED vars
    BY <2>3, <2>7 DEF vars, serverVars
  <2> QED
    BY <2>1, <2>2, <2>4, <2>5, <2>6, <2>7 DEF Next, Server
<1>2. IInv /\ [Next]_vars =>
        [m_IsCloseServer => MainWindsDown /\ \A p \in Peers : ThreadWindsDown(p)]_vars
  BY <1>1 DEF IInv
<1> QED
  BY Invariance, <1>2, PTL DEF Spec, Safety, ThreadsWindDown
=============================================================================
