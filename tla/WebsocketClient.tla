--------------------------- MODULE WebsocketClient ---------------------------
(***************************************************************************)
(* src/Websocket/WebsocketClient.cpp: a client object that makes one       *)
(* websocketpp connection after another.  Its owner connects, closes,      *)
(* reconnects and finally destroys it; the asio thread started by the      *)
(* constructor runs the handlers OnOpen, OnFail and OnClose.  Both threads *)
(* store m_WebsocketStatus, and each handler belongs to the connection     *)
(* that caused it while the status belongs to the object.                  *)
(*                                                                         *)
(* The k-th connection made is connection k.  A connection follows         *)
(* websocketpp's m_state; terminate() only posts the last handler, which   *)
(* runs later.  The fields of the object that only the owner touches are   *)
(* written in one step with the code around them.  Messages, the callbacks *)
(* of the user and the 100 ms sleeps are left out.  Callers pass a valid   *)
(* URL when they pass credentials.                                         *)
(***************************************************************************)
EXTENDS Integers

CONSTANTS Urls,     (* valid URLs                                          *)
          NoUrl,    (* the empty string, which is not one                  *)
          MaxConn   (* bound: connections made                             *)

ASSUME ClientAssumption ==
    /\ NoUrl \notin Urls
    /\ MaxConn \in Nat

Conns == 1 .. MaxConn
None == 0   (* the null m_ConnectionMetadataPtr *)

VARIABLES
    (* the object *)
    m_ConnectionMetadataPtr, m_WebsocketStatus, m_WebsocketConnectMode,
    m_WebsocketUrl, m_bIsNeedCloseConnection,
    (* the threads *)
    pc,        (* where the owner is                                       *)
    caller,    (* the operation Close returns to                           *)
    asio,      (* "run", "open" (between m_state and OnOpen) or "ended"    *)
    perpetual, (* the asio thread stays when it has no work                *)
    (* websocketpp *)
    last,      (* connections made so far                                  *)
    url,       (* where the last connection goes                           *)
    m_state,   (* m_state[k]: the session state of connection k            *)
    told,      (* told[k]: which handler of k is owed or has stored last   *)
    (* history *)
    closed,    (* connections that Close has closed                        *)
    asked,     (* Close was called since the last connection was made      *)
    early,     (* a handler of the last connection came before line 140    *)
    foreign    (* a handler of an older one came after the last was made   *)

fields == <<m_ConnectionMetadataPtr, m_WebsocketConnectMode, m_WebsocketUrl>>
hist == <<closed, asked, early, foreign>>
vars == <<fields, m_WebsocketStatus, m_bIsNeedCloseConnection, pc, caller,
          asio, perpetual, last, url, m_state, told, hist>>

Live == {"connecting", "open", "closing"}

Init ==
    /\ m_ConnectionMetadataPtr = None
    /\ m_WebsocketStatus = "Connecting"
    /\ m_WebsocketConnectMode = "NoHttpAuthorization"
    /\ m_WebsocketUrl = NoUrl
    /\ m_bIsNeedCloseConnection = FALSE
    /\ pc = "idle" /\ caller = "user"
    /\ asio = "run" /\ perpetual = TRUE
    /\ last = 0
    /\ url = NoUrl
    /\ m_state = [k \in Conns |-> "none"]
    /\ told = [k \in Conns |-> "nothing"]
    /\ closed = {} /\ asked = FALSE /\ early = FALSE /\ foreign = FALSE

------------------------------------------------------------------------------
(* Connect.  For an invalid URL both overloads return before they change   *)
(* anything.                                                               *)

(* A plausible slip, for comparison: metadata is made only when there is   *)
(* none.                                                                   *)
MakeKeepsOldHandle(u, mode) ==
    /\ last < MaxConn
    /\ u \in Urls
    /\ pc' = "start"
    /\ last' = last + 1
    /\ m_ConnectionMetadataPtr' = IF m_ConnectionMetadataPtr = None THEN last + 1
                                   ELSE m_ConnectionMetadataPtr
    /\ m_WebsocketConnectMode' = mode
    /\ m_WebsocketUrl' = IF mode = "WithHttpAuthorization" THEN u ELSE m_WebsocketUrl
    /\ url' = u
    /\ asked' = FALSE /\ early' = FALSE /\ foreign' = FALSE
    /\ UNCHANGED <<m_WebsocketStatus, m_bIsNeedCloseConnection, caller, asio,
                   perpetual, m_state, told, closed>>

(* Up to the registration of the handlers.                                 *)
Make(u, mode) ==
    /\ last < MaxConn
    /\ u \in Urls
    /\ pc' = "start"
    /\ last' = last + 1
    /\ m_ConnectionMetadataPtr' = last + 1
    /\ m_WebsocketConnectMode' = mode
    /\ m_WebsocketUrl' = IF mode = "WithHttpAuthorization" THEN u ELSE m_WebsocketUrl
    /\ url' = u
    /\ asked' = FALSE /\ early' = FALSE /\ foreign' = FALSE
    /\ UNCHANGED <<m_WebsocketStatus, m_bIsNeedCloseConnection, caller, asio,
                   perpetual, m_state, told, closed>>

(* A plausible slip, for comparison: the members are assigned before the   *)
(* result of get_connection is tested.                                     *)
ConnectSavesFirst(u, mode) ==
    /\ pc = "idle"
    /\ \/ Make(u, mode)
       \/ /\ last < MaxConn
          /\ m_WebsocketUrl' = NoUrl
          /\ m_WebsocketConnectMode' = mode
          /\ UNCHANGED <<m_ConnectionMetadataPtr, m_WebsocketStatus,
                         m_bIsNeedCloseConnection, pc, caller, asio, perpetual,
                         last, url, m_state, told, hist>>

Connect(u, mode) == pc = "idle" /\ Make(u, mode)

(* m_WebsocketClient.connect(con)                                          *)
StartConnection ==
    /\ pc = "start"
    /\ pc' = "store"
    /\ m_state' = [m_state EXCEPT ![last] = "connecting"]
    /\ UNCHANGED <<fields, m_WebsocketStatus, m_bIsNeedCloseConnection, caller,
                   asio, perpetual, last, url, told, hist>>

(* A plausible slip, for comparison: only the flag.                        *)
StoreConnectingFlagOnly ==
    /\ pc = "store"
    /\ pc' = "idle"
    /\ m_bIsNeedCloseConnection' =
         IF m_WebsocketConnectMode = "WithHttpAuthorization"
         THEN FALSE ELSE m_bIsNeedCloseConnection
    /\ UNCHANGED <<fields, m_WebsocketStatus, caller, asio, perpetual, last, url,
                   m_state, told, hist>>

(* The status, and with credentials the flag.                              *)
StoreConnecting ==
    /\ pc = "store"
    /\ pc' = "idle"
    /\ m_WebsocketStatus' = "Connecting"
    /\ m_bIsNeedCloseConnection' =
         IF m_WebsocketConnectMode = "WithHttpAuthorization"
         THEN FALSE ELSE m_bIsNeedCloseConnection
    /\ UNCHANGED <<fields, caller, asio, perpetual, last, url, m_state, told, hist>>

------------------------------------------------------------------------------
(* Close: first the flag, then websocketpp's close, which fails unless the *)
(* connection is open.                                                     *)

(* A plausible slip, for comparison: Close leaves the flag alone.          *)
MarkCloseNoFlag(from) ==
    /\ pc = "idle"
    /\ pc' = "close"
    /\ caller' = from
    /\ asked' = TRUE
    /\ UNCHANGED <<fields, m_WebsocketStatus, m_bIsNeedCloseConnection, asio,
                   perpetual, last, url, m_state, told, closed, early, foreign>>

MarkClose(from) ==
    /\ pc = "idle"
    /\ pc' = "close"
    /\ caller' = from
    /\ m_bIsNeedCloseConnection' = TRUE
    /\ asked' = TRUE
    /\ UNCHANGED <<fields, m_WebsocketStatus, asio, perpetual, last, url, m_state,
                   told, closed, early, foreign>>

CanClose == m_ConnectionMetadataPtr # None
            /\ m_state[m_ConnectionMetadataPtr] = "open"

CloseReturns == pc' = IF caller = "ReConnect" THEN "reconnect" ELSE "idle"

(* A plausible slip, for comparison: an error of close drops the handle    *)
(* like a success.                                                         *)
SendCloseForgets ==
    /\ pc = "close"
    /\ CloseReturns
    /\ m_ConnectionMetadataPtr' = None
    /\ IF CanClose
       THEN /\ m_state' = [m_state EXCEPT ![m_ConnectionMetadataPtr] = "closing"]
            /\ closed' = closed \cup {m_ConnectionMetadataPtr}
       ELSE UNCHANGED <<m_state, closed>>
    /\ UNCHANGED <<m_WebsocketConnectMode, m_WebsocketUrl, m_WebsocketStatus,
                   m_bIsNeedCloseConnection, caller, asio, perpetual, last, url,
                   told, asked, early, foreign>>

SendClose ==
    /\ pc = "close"
    /\ CloseReturns
    /\ IF CanClose
       THEN /\ m_state' = [m_state EXCEPT ![m_ConnectionMetadataPtr] = "closing"]
            /\ closed' = closed \cup {m_ConnectionMetadataPtr}
            /\ m_ConnectionMetadataPtr' = None
       ELSE UNCHANGED <<m_ConnectionMetadataPtr, m_state, closed>>
    /\ UNCHANGED <<m_WebsocketConnectMode, m_WebsocketUrl, m_WebsocketStatus,
                   m_bIsNeedCloseConnection, caller, asio, perpetual, last, url,
                   told, asked, early, foreign>>

(* ReConnect: without credentials it connects to the saved URL, which that *)
(* mode never saves; with them it closes first, whatever Close returns.    *)
ReConnect ==
    \/ /\ m_WebsocketConnectMode = "NoHttpAuthorization"
       /\ Connect(m_WebsocketUrl, "NoHttpAuthorization")
    \/ /\ m_WebsocketConnectMode = "WithHttpAuthorization"
       /\ last < MaxConn
       /\ MarkClose("ReConnect")

ConnectAgain ==
    /\ pc = "reconnect"
    /\ Make(m_WebsocketUrl, "WithHttpAuthorization")

------------------------------------------------------------------------------
(* The destructor.  It asks the metadata for the status; the handlers that *)
(* would keep that status up to date are commented out, so that it keeps   *)
(* its first value.                                                        *)

(* A plausible slip, for comparison: the asio thread is told nothing.      *)
StopPerpetualForgotten ==
    /\ pc = "idle"
    /\ pc' = "destroy"
    /\ UNCHANGED <<fields, m_WebsocketStatus, m_bIsNeedCloseConnection, caller,
                   asio, perpetual, last, url, m_state, told, hist>>

StopPerpetual ==
    /\ pc = "idle"
    /\ pc' = "destroy"
    /\ perpetual' = FALSE
    /\ UNCHANGED <<fields, m_WebsocketStatus, m_bIsNeedCloseConnection, caller,
                   asio, last, url, m_state, told, hist>>

get_status == "Connecting"

CloseIfOpen ==
    /\ pc = "destroy"
    /\ pc' = "join"
    /\ m_state' = IF CanClose /\ get_status = "Open"
                  THEN [m_state EXCEPT ![m_ConnectionMetadataPtr] = "closing"]
                  ELSE m_state
    /\ UNCHANGED <<fields, m_WebsocketStatus, m_bIsNeedCloseConnection, caller,
                   asio, perpetual, last, url, told, hist>>

Join ==
    /\ pc = "join"
    /\ asio = "ended"
    /\ pc' = "gone"
    /\ UNCHANGED <<fields, m_WebsocketStatus, m_bIsNeedCloseConnection, caller,
                   asio, perpetual, last, url, m_state, told, hist>>

------------------------------------------------------------------------------
(* The asio thread.                                                        *)

Object == <<fields, m_bIsNeedCloseConnection, pc, caller, perpetual, last, url>>

(* A valid handshake response: the state, then OnOpen in the same call.    *)
Opened(k) ==
    /\ asio = "run"
    /\ m_state[k] = "connecting"
    /\ asio' = "open"
    /\ m_state' = [m_state EXCEPT ![k] = "open"]
    /\ told' = [told EXCEPT ![k] = "opening"]
    /\ UNCHANGED <<Object, m_WebsocketStatus, hist>>

Note(k) ==
    /\ early' = (early \/ (k = last /\ pc = "store"))
    /\ foreign' = (foreign \/ k # last)
    /\ UNCHANGED <<closed, asked>>

OnOpen(k) ==
    /\ told[k] = "opening"
    /\ told' = [told EXCEPT ![k] = "Open"]
    /\ asio' = "run"
    /\ m_WebsocketStatus' = "Open"
    /\ Note(k)
    /\ UNCHANGED <<Object, m_state>>

(* The peer closes: the state changes when the close is acknowledged.      *)
PeerCloses(k) ==
    /\ asio = "run"
    /\ m_state[k] = "open"
    /\ m_state' = [m_state EXCEPT ![k] = "closing"]
    /\ UNCHANGED <<Object, m_WebsocketStatus, asio, told, hist>>

(* An error, a timeout or the end of the stream.                           *)
Terminate(k) ==
    /\ asio = "run"
    /\ m_state[k] \in Live
    /\ m_state' = [m_state EXCEPT ![k] = "closed"]
    /\ told' = [told EXCEPT ![k] =
                  IF m_state[k] = "connecting" THEN "failing" ELSE "closing"]
    /\ UNCHANGED <<Object, m_WebsocketStatus, asio, hist>>

OnFail(k) ==
    /\ asio = "run"
    /\ told[k] = "failing"
    /\ told' = [told EXCEPT ![k] = "Failed"]
    /\ m_WebsocketStatus' = "Failed"
    /\ Note(k)
    /\ UNCHANGED <<Object, asio, m_state>>

(* A plausible slip, for comparison: OnClose only tells the user.          *)
OnCloseSilent(k) ==
    /\ asio = "run"
    /\ told[k] = "closing"
    /\ told' = [told EXCEPT ![k] = "Closed"]
    /\ Note(k)
    /\ UNCHANGED <<Object, m_WebsocketStatus, asio, m_state>>

OnClose(k) ==
    /\ asio = "run"
    /\ told[k] = "closing"
    /\ told' = [told EXCEPT ![k] = "Closed"]
    /\ m_WebsocketStatus' = "Closed"
    /\ Note(k)
    /\ UNCHANGED <<Object, asio, m_state>>

(* run() returns when it has no work left.                                 *)
RunReturns ==
    /\ asio = "run"
    /\ ~perpetual
    /\ \A k \in Conns : m_state[k] \notin Live
                        /\ told[k] \notin {"failing", "closing"}
    /\ asio' = "ended"
    /\ UNCHANGED <<Object, m_WebsocketStatus, m_state, told, hist>>

------------------------------------------------------------------------------
Calls ==
    \/ \E u \in Urls : Connect(u, "NoHttpAuthorization")
    \/ \E u \in Urls : Connect(u, "WithHttpAuthorization")
    \/ MarkClose("user")
    \/ ReConnect
    \/ StopPerpetual

Continue ==
    StartConnection \/ StoreConnecting \/ SendClose \/ ConnectAgain
    \/ CloseIfOpen \/ Join

Handler(k) == OnOpen(k) \/ OnFail(k) \/ OnClose(k)

Next ==
    \/ Calls
    \/ Continue
    \/ \E k \in Conns : Opened(k) \/ PeerCloses(k) \/ Terminate(k) \/ Handler(k)
    \/ RunReturns
    \/ pc = "gone" /\ UNCHANGED vars

(* Threads run.  websocketpp puts a timer on the opening and on the        *)
(* closing handshake, so that a connection leaves these states; an open    *)
(* connection may stay open for ever.                                      *)
Fairness ==
    /\ WF_vars(Continue)
    /\ WF_vars(RunReturns)
    /\ \A k \in Conns : /\ WF_vars(Handler(k))
                        /\ WF_vars(m_state[k] # "open" /\ (Opened(k) \/ Terminate(k)))

Safety == Init /\ [][Next]_vars
Spec == Safety /\ Fairness

------------------------------------------------------------------------------
(* Properties.                                                             *)

(* Every variable stays in its range.                                      *)
TypeOK ==
    /\ last \in 0 .. MaxConn
    /\ m_ConnectionMetadataPtr \in {None, last}
    /\ m_WebsocketStatus \in {"Connecting", "Open", "Failed", "Closed"}
    /\ m_WebsocketConnectMode \in {"NoHttpAuthorization", "WithHttpAuthorization"}
    /\ m_WebsocketUrl \in Urls \cup {NoUrl}
    /\ m_bIsNeedCloseConnection \in BOOLEAN
    /\ pc \in {"idle", "start", "store", "close", "reconnect", "destroy", "join",
               "gone"}
    /\ caller \in {"user", "ReConnect"}
    /\ asio \in {"run", "open", "ended"}
    /\ perpetual \in BOOLEAN
    /\ url \in Urls \cup {NoUrl}
    /\ m_state \in [Conns -> Live \cup {"none", "closed"}]
    /\ told \in [Conns -> {"nothing", "opening", "Open", "failing", "Failed",
                           "closing", "Closed"}]
    /\ closed \subseteq Conns
    /\ asked \in BOOLEAN /\ early \in BOOLEAN /\ foreign \in BOOLEAN

(* IsConnect does not claim a connection that nobody has: when the status  *)
(* is Open, OnOpen has run for a connection whose OnClose has not.         *)
OpenIsBacked ==
    m_WebsocketStatus = "Open" => \E k \in Conns : told[k] \in {"Open", "closing"}

(* What the status of the last connection would be.                        *)
Truth ==
    IF last = 0 \/ told[last] \in {"nothing", "opening", "failing"} THEN "Connecting"
    ELSE IF told[last] \in {"Open", "closing"} THEN "Open"
    ELSE told[last]

(* The status is the last connection's, but for two races that its one     *)
(* field cannot tell apart: a handler of that connection stored before     *)
(* Connect did, or a handler of an older connection stored after it.       *)
StatusExplained ==
    pc \notin {"start", "store"} /\ m_WebsocketStatus # Truth => early \/ foreign

(* Close gives up the handle of a connection only when that connection is  *)
(* really going down: a close that fails because the handshake is not over *)
(* can be repeated.                                                        *)
HandleKept ==
    m_ConnectionMetadataPtr = None /\ last > 0 => m_state[last] \in {"closing", "closed"}

(* OnClose can tell the user's close from the peer's: when the last        *)
(* connection goes down because of Close, the flag says so.  With          *)
(* credentials the flag says no more than that: once Connect has returned, *)
(* only a Close since then has set it.  Without credentials Connect leaves *)
(* the flag of the connection before.                                      *)
CloseFlagRight ==
    /\ last \in closed => m_bIsNeedCloseConnection
    /\ pc \in {"idle", "close"} /\ m_bIsNeedCloseConnection
       /\ m_WebsocketConnectMode = "WithHttpAuthorization"
       => asked

(* With credentials ReConnect finds the URL of the last connection, which  *)
(* is valid: a refused Connect in between has not changed it.              *)
UrlRemembered ==
    m_WebsocketConnectMode = "WithHttpAuthorization" =>
      last > 0 /\ m_WebsocketUrl \in Urls /\ url = m_WebsocketUrl

(* The destructor's join waits for nothing but connections that are open.  *)
DestructorWaitsForOpen ==
    pc = "join" ~> (pc = "gone" \/ \E k \in Conns : m_state[k] = "open")

(* What line 31 says of the destructor: a current connection that is still *)
(* open is closed.                                                         *)
DestructorCloses ==
    [][pc = "destroy" /\ pc' = "join" /\ CanClose =>
         m_state'[m_ConnectionMetadataPtr] = "closing"]_vars
==============================================================================
