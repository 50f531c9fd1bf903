------------------------------ MODULE Winsock ------------------------------
(***************************************************************************)
(* What the socket utilities rely on in Winsock.  A socket is used through *)
(* a number; a number whose socket has been closed is free and may be      *)
(* given out again at once, and a call on it then reaches the new holder.  *)
(* WSAStartup counts, and the WSACleanup that brings the count to zero     *)
(* closes every socket of the process.                                     *)
(***************************************************************************)
EXTENDS Integers

CONSTANTS Numbers,  (* the socket numbers the system gives out             *)
          Free      (* no socket                                           *)

Invalid == 0        (* a number that is none: INVALID_SOCKET, or never set *)

ASSUME NumbersAssumption == Numbers \subseteq Nat \ {Invalid}

VARIABLES holder,   (* holder[n]: the socket that n stands for, or Free    *)
          linked,   (* the sockets whose connection has been made          *)
          loads     (* calls of WSAStartup not yet undone                  *)

winsock == <<holder, linked, loads>>

Vacant == {n \in Numbers : holder[n] = Free}
Holds(n, s) == n \in Numbers /\ holder[n] = s
Talks(n) == n \in Numbers /\ holder[n] \in linked

closesocket(n) ==
    /\ holder' = [m \in Numbers |-> IF m = n THEN Free ELSE holder[m]]
    /\ UNCHANGED <<linked, loads>>

(* closesocket(n) and WSACleanup(), which the code always calls together.  *)
Release(n) ==
    /\ loads' = IF loads = 0 THEN 0 ELSE loads - 1
    /\ holder' = [m \in Numbers |-> IF m = n \/ loads <= 1 THEN Free ELSE holder[m]]
    /\ UNCHANGED linked
=============================================================================
