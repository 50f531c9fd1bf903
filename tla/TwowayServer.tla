---------------------------- MODULE TwowayServer ----------------------------
(***************************************************************************)
(* src/TwowaySocket/AsynServerSocket.cpp: a server whose accept thread     *)
(* starts one receive thread for each client and files it under the        *)
(* client's socket number.  The owner creates the server and closes it;    *)
(* CloseServer joins the accept thread, closes every number in the map and *)
(* joins every thread in it.                                               *)
(*                                                                         *)
(* A peer that connects is one socket and one receive thread, named alike. *)
(* What a message says is left out: a recv completes one or does not.  The *)
(* module has the steps of the server; TwowaySocket adds its own clients,  *)
(* which draw their numbers from the same table, and the specification.    *)
(***************************************************************************)
EXTENDS Winsock

CONSTANTS Peers,     (* remote clients; each connects at most once         *)
          NoPeer,
          Listener   (* the socket the server listens on                   *)

VARIABLES
    (* the object *)
    m_IsCloseServer, m_ServerSocket, m_SingleSocketRecvThreadMap,
    (* the accept thread *)
    main,      (* where it is; "null" is a null m_ServerMainThreadPtr      *)
    accepted,  (* the client it has not filed yet                          *)
    (* the receive threads *)
    tpc,       (* tpc[p]: where the thread of p is                         *)
    num,       (* num[p]: its argument, the number of p's socket           *)
    (* the owner *)
    pc,        (* where it is                                              *)
    todo,      (* the numbers CloseServer has still to close               *)
    aborted,   (* why the process has ended, or "no"                       *)
    (* history *)
    left,      (* a peer has left (recv returned 0)                        *)
    midway     (* ... in the middle of a message                           *)

serverVars == <<m_IsCloseServer, m_ServerSocket, m_SingleSocketRecvThreadMap, main,
                accepted, tpc, num, pc, todo, aborted, left, midway>>

ServerInit ==
    /\ holder = [n \in Numbers |-> Free] /\ linked = {} /\ loads = 0
    /\ m_IsCloseServer = FALSE
    /\ m_ServerSocket = Invalid
    /\ m_SingleSocketRecvThreadMap = [n \in Numbers |-> NoPeer]
    /\ main = "null" /\ accepted = NoPeer
    /\ tpc = [p \in Peers |-> "none"]
    /\ num = [p \in Peers |-> Invalid]
    /\ pc = "create" /\ todo = {} /\ aborted = "no"
    /\ left = FALSE /\ midway = FALSE

Running == {"test", "recv", "inner"}
MainAlive == main \in {"accept", "store"}
Filed == {n \in Numbers : m_SingleSocketRecvThreadMap[n] # NoPeer}

-----------------------------------------------------------------------------
(* The accept thread.                                                      *)

acceptFrame == <<m_IsCloseServer, m_ServerSocket, pc, todo, left, midway>>

(* The test of line 202 before the next accept.                            *)
NextAccept == IF m_IsCloseServer THEN "ended" ELSE "accept"

(* A peer has connected: its socket gets a number and a thread.            *)
Accept(p, n) ==
    /\ main = "accept"
    /\ Holds(m_ServerSocket, Listener)
    /\ tpc[p] = "none"
    /\ n \in Vacant
    /\ holder' = [holder EXCEPT ![n] = p]
    /\ linked' = linked \cup {p}
    /\ main' = "store" /\ accepted' = p
    /\ tpc' = [tpc EXCEPT ![p] = "test"]
    /\ num' = [num EXCEPT ![p] = n]
    /\ UNCHANGED <<acceptFrame, loads, m_SingleSocketRecvThreadMap, aborted>>

AcceptFails ==
    /\ main = "accept"
    /\ main' = NextAccept
    /\ UNCHANGED <<acceptFrame, winsock, m_SingleSocketRecvThreadMap, accepted,
                   tpc, num, aborted>>

(* A plausible slip, for comparison: the thread of the last client only.   *)
StoreLast ==
    /\ main = "store"
    /\ m_SingleSocketRecvThreadMap' =
         [n \in Numbers |-> IF n = num[accepted] THEN accepted ELSE NoPeer]
    /\ main' = NextAccept /\ accepted' = NoPeer
    /\ UNCHANGED <<acceptFrame, winsock, tpc, num, aborted>>

(* A plausible slip, for comparison: filed by the order of arrival (line   *)
(* 217), and the order is taken from a counter that is never advanced.     *)
StoreByIndex ==
    /\ main = "store"
    /\ LET first == CHOOSE n \in Numbers : TRUE
       IN  IF first \in Filed
           THEN aborted' = "reuse" /\ UNCHANGED <<m_SingleSocketRecvThreadMap, main, accepted>>
           ELSE /\ m_SingleSocketRecvThreadMap' =
                     [m_SingleSocketRecvThreadMap EXCEPT ![first] = accepted]
                /\ main' = NextAccept /\ accepted' = NoPeer
                /\ UNCHANGED aborted
    /\ UNCHANGED <<acceptFrame, winsock, tpc, num>>

(* The assignment drops the pointer that was there; the thread it pointed  *)
(* to, ended or not, has not been joined, and its destructor ends the      *)
(* process.                                                                *)
Store ==
    /\ main = "store"
    /\ IF num[accepted] \in Filed
       THEN aborted' = "reuse" /\ UNCHANGED <<m_SingleSocketRecvThreadMap, main, accepted>>
       ELSE /\ m_SingleSocketRecvThreadMap' =
                 [m_SingleSocketRecvThreadMap EXCEPT ![num[accepted]] = accepted]
            /\ main' = NextAccept /\ accepted' = NoPeer
            /\ UNCHANGED aborted
    /\ UNCHANGED <<acceptFrame, winsock, tpc, num>>

-----------------------------------------------------------------------------
(* The receive thread of p.                                                *)

recvFrame == <<m_IsCloseServer, m_ServerSocket, m_SingleSocketRecvThreadMap, main,
               accepted, num, pc, todo, aborted>>

Goto(p, from, to) == tpc[p] \in from /\ tpc' = [tpc EXCEPT ![p] = to]

TestClose(p) ==
    /\ tpc[p] = "test"
    /\ IF m_IsCloseServer
       THEN Goto(p, {"test"}, "ended") /\ closesocket(num[p])
       ELSE Goto(p, {"test"}, "recv") /\ UNCHANGED winsock
    /\ UNCHANGED <<recvFrame, left, midway>>

(* A recv with the last of a message, which is printed unless the flag is  *)
(* set.                                                                    *)
Complete(p) ==
    /\ Talks(num[p])
    /\ Goto(p, {"recv", "inner"}, "test")
    /\ UNCHANGED <<recvFrame, winsock, left, midway>>

(* A recv with less than the length says: the inner loop goes on.          *)
Partial(p) ==
    /\ Talks(num[p])
    /\ Goto(p, {"recv"}, "inner")
    /\ UNCHANGED <<recvFrame, winsock, left, midway>>

(* A plausible slip, for comparison: no break after line 253.              *)
PeerLeftGoesOn(p) ==
    /\ Talks(num[p])
    /\ Goto(p, {"recv"}, "test")
    /\ closesocket(num[p])
    /\ left' = TRUE
    /\ UNCHANGED <<recvFrame, midway>>

(* recv returns 0.                                                         *)
PeerLeft(p) ==
    /\ Talks(num[p])
    /\ Goto(p, {"recv"}, "ended")
    /\ closesocket(num[p])
    /\ left' = TRUE
    /\ UNCHANGED <<recvFrame, midway>>

(* recv returns 0 in the inner loop: the socket is closed, but the break   *)
(* leaves that loop only and the outer one goes on with the number.        *)
PeerLeftMidway(p) ==
    /\ Talks(num[p])
    /\ Goto(p, {"inner"}, "test")
    /\ closesocket(num[p])
    /\ left' = TRUE /\ midway' = TRUE
    /\ UNCHANGED recvFrame

(* A plausible slip, for comparison: no break after line 299.              *)
ReceiveFailsGoesOn(p) ==
    /\ Goto(p, {"recv"}, "ended") \/ Goto(p, {"inner"}, "inner")
    /\ UNCHANGED <<recvFrame, winsock, left, midway>>

(* recv returns -1: the thread ends, or leaves the inner loop, and the     *)
(* socket stays open.                                                      *)
ReceiveFails(p) ==
    /\ Goto(p, {"recv"}, "ended") \/ Goto(p, {"inner"}, "test")
    /\ UNCHANGED <<recvFrame, winsock, left, midway>>

-----------------------------------------------------------------------------
(* The owner: CreateServerSocket and CloseServer.                          *)

ownerFrame == <<accepted, tpc, num, left, midway>>

CreateServerSocket(n) ==
    /\ pc = "create" /\ pc' = "socket"
    /\ n \in Vacant
    /\ holder' = [holder EXCEPT ![n] = Listener]
    /\ loads' = loads + 1
    /\ m_ServerSocket' = n
    /\ main' = "accept"
    /\ UNCHANGED <<ownerFrame, linked, m_IsCloseServer, m_SingleSocketRecvThreadMap,
                   todo, aborted>>

(* Whatever fails is undone and the thread pointer stays null.             *)
CreateServerFails ==
    /\ pc = "create" /\ pc' = "socket"
    /\ UNCHANGED <<ownerFrame, winsock, m_IsCloseServer, m_ServerSocket,
                   m_SingleSocketRecvThreadMap, main, todo, aborted>>

SetFlag ==
    /\ pc \in {"ready", "closed"} /\ pc' = "unlisten"
    /\ m_IsCloseServer' = TRUE
    /\ UNCHANGED <<ownerFrame, winsock, m_ServerSocket, m_SingleSocketRecvThreadMap,
                   main, todo, aborted>>

(* m_ServerSocket of a server that was not created is a number already     *)
(* closed, or whatever the memory held.                                    *)
CloseListener ==
    /\ pc = "unlisten" /\ pc' = "join"
    /\ \E n \in Numbers \cup {Invalid} :
         /\ main # "null" => n = m_ServerSocket
         /\ Release(n)
    /\ UNCHANGED <<ownerFrame, m_IsCloseServer, m_ServerSocket,
                   m_SingleSocketRecvThreadMap, main, todo, aborted>>

(* A null pointer, or a thread joined before, ends the process.            *)
JoinMain ==
    /\ pc = "join"
    /\ IF main = "null" THEN aborted' = "null" /\ UNCHANGED <<pc, main, todo>>
       ELSE IF main = "joined" THEN aborted' = "twice" /\ UNCHANGED <<pc, main, todo>>
       ELSE /\ main = "ended" /\ main' = "joined"
            /\ pc' = "sweep" /\ todo' = Filed
            /\ UNCHANGED aborted
    /\ UNCHANGED <<ownerFrame, winsock, m_IsCloseServer, m_ServerSocket,
                   m_SingleSocketRecvThreadMap>>

(* The map is ordered.                                                     *)
CloseNumber ==
    /\ pc = "sweep"
    /\ IF todo = {} THEN pc' = "threads" /\ UNCHANGED <<todo, winsock>>
       ELSE \E n \in todo : /\ \A m \in todo : n <= m
                            /\ closesocket(n)
                            /\ todo' = todo \ {n}
                            /\ UNCHANGED pc
    /\ UNCHANGED <<ownerFrame, m_IsCloseServer, m_ServerSocket,
                   m_SingleSocketRecvThreadMap, main, aborted>>

(* One join after the other: past the loop all have ended.                 *)
JoinThreads ==
    /\ pc = "threads" /\ pc' = "close"
    /\ \A n \in Filed : tpc[m_SingleSocketRecvThreadMap[n]] = "ended"
    /\ m_SingleSocketRecvThreadMap' = [n \in Numbers |-> NoPeer]
    /\ UNCHANGED <<ownerFrame, winsock, m_IsCloseServer, m_ServerSocket, main,
                   todo, aborted>>

-----------------------------------------------------------------------------
AcceptThread == AcceptFails \/ Store \/ \E p \in Peers, n \in Numbers : Accept(p, n)

ReceiveThread(p) ==
    \/ TestClose(p) \/ Complete(p) \/ Partial(p) \/ PeerLeft(p) \/ PeerLeftMidway(p)
    \/ ReceiveFails(p)

CloseServer == SetFlag \/ CloseListener \/ JoinMain \/ CloseNumber \/ JoinThreads
=============================================================================
