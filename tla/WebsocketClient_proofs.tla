------------------------ MODULE WebsocketClient_proofs ------------------------
(***************************************************************************)
(* The status of WebsocketClient for any number of connections and any     *)
(* URLs: Open is always backed by a connection, what else it says wrongly  *)
(* is due to one of two races, and Close and ReConnect keep the handle,    *)
(* the flag and the URL they rely on.  Handlers run in order and are done  *)
(* before the object is, and the destructor's join is answered.            *)
(***************************************************************************)
EXTENDS WebsocketClient, TLAPS

(* The owner's side: while Connect is under way the handle is that of the  *)
(* last connection, later connections do not exist yet, and a connection   *)
(* that Close has closed is not the current one.                           *)
OwnerSide ==
    /\ pc \in {"start", "store"} => last > 0 /\ m_ConnectionMetadataPtr = last
    /\ pc = "start" => m_state[last] = "none"
    /\ pc = "close" => m_bIsNeedCloseConnection
    /\ \A k \in Conns : k > last => m_state[k] = "none"
    /\ closed \subseteq 1 .. last
    /\ m_ConnectionMetadataPtr \notin closed

(* The asio side: the handlers owed and run agree with the session state,  *)
(* and only one OnOpen can be between the state and its store.             *)
AsioSide ==
    /\ \A k \in Conns :
         /\ m_state[k] \in {"none", "connecting"} => told[k] = "nothing"
         /\ m_state[k] \in {"open", "closing"} => told[k] \in {"opening", "Open"}
         /\ m_state[k] = "closed" => told[k] \in {"failing", "Failed", "closing", "Closed"}
         /\ told[k] = "opening" => asio = "open"
    /\ \A j, k \in Conns : told[j] = "opening" /\ told[k] = "opening" => j = k

(* Until Connect has stored the status, a handler of the new connection    *)
(* that has stored was early.                                              *)
Told == told[last] \notin {"nothing", "opening", "failing"}
EarlyKnown == pc \in {"start", "store"} /\ Told => early

IInv ==
    /\ TypeOK /\ OwnerSide /\ AsioSide
    /\ HandleKept /\ CloseFlagRight /\ UrlRemembered
    /\ OpenIsBacked /\ EarlyKnown /\ StatusExplained

USE ClientAssumption DEF Conns, None, Live

LEMMA InitIInv == Init => IInv
<1> SUFFICES ASSUME Init PROVE IInv
  OBVIOUS
<1> USE DEF Init
<1>1. TypeOK
  <2>1. /\ m_state \in [Conns -> {"none"}]
        /\ told \in [Conns -> {"nothing"}]
    OBVIOUS
  <2>2. last \in 0 .. MaxConn
    OBVIOUS
  <2> QED
    BY <2>1, <2>2 DEF TypeOK
<1>2. OwnerSide /\ AsioSide
  BY DEF OwnerSide, AsioSide
<1>3. HandleKept /\ CloseFlagRight /\ UrlRemembered
  BY DEF HandleKept, CloseFlagRight, UrlRemembered
<1>4. OpenIsBacked /\ EarlyKnown /\ StatusExplained
  BY DEF OpenIsBacked, EarlyKnown, StatusExplained, Truth
<1> QED
  BY <1>1, <1>2, <1>3, <1>4 DEF IInv

------------------------------------------------------------------------------
(* Every action keeps the invariant.  For each, <2>1 is about the types,   *)
(* <2>2 and <2>3 about the two sides, <2>4 about the owner's fields and    *)
(* <2>5 about the status.                                                  *)
LEMMA NextIInv == IInv /\ [Next]_vars => IInv'
<1> SUFFICES ASSUME IInv, [Next]_vars PROVE IInv'
  OBVIOUS
<1> USE DEF IInv
<1>1. CASE \E u \in Urls \cup {NoUrl}, mode \in {"NoHttpAuthorization", "WithHttpAuthorization"} : Make(u, mode)
  <2> USE <1>1 DEF Make, fields, hist
  <2>1. TypeOK'
    <3>1. last + 1 \in 0 .. MaxConn /\ last' = last + 1
      BY DEF TypeOK
    <3>2. url' \in Urls \cup {NoUrl}
      BY DEF TypeOK
    <3>3. m_WebsocketUrl' \in Urls \cup {NoUrl}
      BY DEF TypeOK
    <3> QED
      BY <3>1, <3>2, <3>3 DEF TypeOK
  <2>2. OwnerSide'
    BY DEF OwnerSide, AsioSide, TypeOK
  <2>3. AsioSide'
    BY DEF OwnerSide, AsioSide, TypeOK
  <2>4. (HandleKept /\ CloseFlagRight /\ UrlRemembered)'
    BY DEF HandleKept, CloseFlagRight, UrlRemembered,
           OwnerSide, AsioSide, TypeOK
  <2>5. (OpenIsBacked /\ EarlyKnown /\ StatusExplained)'
    BY DEF OpenIsBacked, EarlyKnown, Told, StatusExplained, Truth, OwnerSide, AsioSide,
           TypeOK
  <2> QED
    BY <2>1, <2>2, <2>3, <2>4, <2>5
<1>2. CASE StartConnection
  <2> USE <1>2 DEF StartConnection, fields, hist
  <2>1. TypeOK'
    <3>1. m_state' \in [Conns -> Live \cup {"none", "closed"}]
      BY DEF TypeOK
    <3> QED
      BY <3>1 DEF TypeOK
  <2>2. OwnerSide'
    BY DEF OwnerSide, AsioSide, TypeOK
  <2>3. AsioSide'
    BY DEF OwnerSide, AsioSide, TypeOK
  <2>4. (HandleKept /\ CloseFlagRight /\ UrlRemembered)'
    BY DEF HandleKept, CloseFlagRight, UrlRemembered,
           OwnerSide, AsioSide, TypeOK
  <2>5. (OpenIsBacked /\ EarlyKnown /\ StatusExplained)'
    BY DEF OpenIsBacked, EarlyKnown, Told, StatusExplained, Truth, OwnerSide, AsioSide,
           TypeOK
  <2> QED
    BY <2>1, <2>2, <2>3, <2>4, <2>5
<1>3. CASE StoreConnecting
  <2> USE <1>3 DEF StoreConnecting, fields, hist
  <2>1. TypeOK'
    BY DEF TypeOK
  <2>2. OwnerSide'
    BY DEF OwnerSide, AsioSide, TypeOK
  <2>3. AsioSide'
    BY DEF OwnerSide, AsioSide, TypeOK
  <2>4. (HandleKept /\ CloseFlagRight /\ UrlRemembered)'
    BY DEF HandleKept, CloseFlagRight, UrlRemembered,
           OwnerSide, AsioSide, TypeOK
  <2>5. OpenIsBacked'
    BY DEF OpenIsBacked, OwnerSide, AsioSide, TypeOK
  <2>6. (EarlyKnown /\ StatusExplained)'
    BY DEF EarlyKnown, Told, StatusExplained, Truth, OwnerSide, AsioSide, TypeOK
  <2> QED
    BY <2>1, <2>2, <2>3, <2>4, <2>5, <2>6
<1>4. CASE \E from \in {"user", "ReConnect"} : MarkClose(from)
  <2> USE <1>4 DEF MarkClose, fields
  <2>1. TypeOK'
    BY DEF TypeOK
  <2>2. OwnerSide'
    BY DEF OwnerSide, AsioSide, TypeOK
  <2>3. AsioSide'
    BY DEF OwnerSide, AsioSide, TypeOK
  <2>4. (HandleKept /\ CloseFlagRight /\ UrlRemembered)'
    BY DEF HandleKept, CloseFlagRight, UrlRemembered,
           OwnerSide, AsioSide, TypeOK
  <2>5. (OpenIsBacked /\ EarlyKnown /\ StatusExplained)'
    BY DEF OpenIsBacked, EarlyKnown, Told, StatusExplained, Truth, OwnerSide, AsioSide,
           TypeOK
  <2> QED
    BY <2>1, <2>2, <2>3, <2>4, <2>5
<1>5. CASE SendClose
  <2> USE <1>5 DEF SendClose, CloseReturns, CanClose
  <2>1. TypeOK'
    <3>1. CASE CanClose
      <4>1. m_ConnectionMetadataPtr \in Conns
        BY <3>1 DEF TypeOK
      <4>2. /\ closed' \subseteq Conns
            /\ m_state' \in [Conns -> Live \cup {"none", "closed"}]
        BY <3>1, <4>1 DEF TypeOK
      <4> QED
        BY <3>1, <4>2 DEF TypeOK
    <3>2. CASE ~CanClose
      <4>1. UNCHANGED <<m_ConnectionMetadataPtr, m_state, closed>>
        BY <3>2
      <4> QED
        BY <4>1 DEF TypeOK
    <3> QED
      BY <3>1, <3>2
  <2>2. OwnerSide'
    <3>1. CASE CanClose
      <4>1. m_ConnectionMetadataPtr \in 1 .. last /\ pc = "close"
        BY <3>1 DEF TypeOK
      <4>2. closed' \subseteq 1 .. last
        BY <3>1, <4>1 DEF OwnerSide
      <4> QED
        BY <3>1, <4>1, <4>2 DEF OwnerSide, TypeOK
    <3>2. CASE ~CanClose
      <4>1. UNCHANGED <<m_ConnectionMetadataPtr, m_state, closed>>
        BY <3>2
      <4> QED
        BY <4>1 DEF OwnerSide, TypeOK
    <3> QED
      BY <3>1, <3>2
  <2>3. AsioSide'
    BY DEF OwnerSide, AsioSide, TypeOK
  <2>4. (HandleKept /\ CloseFlagRight /\ UrlRemembered)'
    BY DEF HandleKept, CloseFlagRight, UrlRemembered,
           OwnerSide, AsioSide, TypeOK
  <2>5. (OpenIsBacked /\ EarlyKnown /\ StatusExplained)'
    BY DEF OpenIsBacked, EarlyKnown, Told, StatusExplained, Truth, OwnerSide, AsioSide,
           TypeOK
  <2> QED
    BY <2>1, <2>2, <2>3, <2>4, <2>5
<1>6. CASE StopPerpetual
  <2> USE <1>6 DEF StopPerpetual, fields, hist
  <2>1. TypeOK'
    <3>1. perpetual' \in BOOLEAN /\ pc' = "destroy"
      OBVIOUS
    <3>2. UNCHANGED <<fields, m_WebsocketStatus, m_bIsNeedCloseConnection, caller,
                      asio, last, url, m_state, told, hist>>
      OBVIOUS
    <3> QED
      BY <3>1, <3>2, ZenonT(30) DEF TypeOK
  <2>2. OwnerSide'
    BY DEF OwnerSide, AsioSide, TypeOK
  <2>3. AsioSide'
    BY DEF OwnerSide, AsioSide, TypeOK
  <2>4. (HandleKept /\ CloseFlagRight /\ UrlRemembered)'
    BY DEF HandleKept, CloseFlagRight, UrlRemembered,
           OwnerSide, AsioSide, TypeOK
  <2>5. (OpenIsBacked /\ EarlyKnown /\ StatusExplained)'
    BY DEF OpenIsBacked, EarlyKnown, Told, StatusExplained, Truth, OwnerSide, AsioSide,
           TypeOK
  <2> QED
    BY <2>1, <2>2, <2>3, <2>4, <2>5
<1>7. CASE CloseIfOpen
  <2> USE <1>7 DEF CloseIfOpen, CanClose, get_status, fields, hist
  <2>1. TypeOK'
    BY DEF TypeOK
  <2>2. OwnerSide'
    BY DEF OwnerSide, AsioSide, TypeOK
  <2>3. AsioSide'
    BY DEF OwnerSide, AsioSide, TypeOK
  <2>4. (HandleKept /\ CloseFlagRight /\ UrlRemembered)'
    BY DEF HandleKept, CloseFlagRight, UrlRemembered,
           OwnerSide, AsioSide, TypeOK
  <2>5. (OpenIsBacked /\ EarlyKnown /\ StatusExplained)'
    BY DEF OpenIsBacked, EarlyKnown, Told, StatusExplained, Truth, OwnerSide, AsioSide,
           TypeOK
  <2> QED
    BY <2>1, <2>2, <2>3, <2>4, <2>5
<1>8. CASE Join
  <2> USE <1>8 DEF Join, fields, hist
  <2>1. TypeOK'
    BY DEF TypeOK
  <2>2. OwnerSide'
    BY DEF OwnerSide, AsioSide, TypeOK
  <2>3. AsioSide'
    BY DEF OwnerSide, AsioSide, TypeOK
  <2>4. (HandleKept /\ CloseFlagRight /\ UrlRemembered)'
    BY DEF HandleKept, CloseFlagRight, UrlRemembered,
           OwnerSide, AsioSide, TypeOK
  <2>5. (OpenIsBacked /\ EarlyKnown /\ StatusExplained)'
    BY DEF OpenIsBacked, EarlyKnown, Told, StatusExplained, Truth, OwnerSide, AsioSide,
           TypeOK
  <2> QED
    BY <2>1, <2>2, <2>3, <2>4, <2>5
<1>9. CASE \E k \in Conns : Opened(k)
  <2> USE <1>9 DEF Opened, Object, fields, hist
  <2>1. TypeOK'
    BY DEF TypeOK
  <2>2. OwnerSide'
    BY DEF OwnerSide, AsioSide, TypeOK
  <2>3. AsioSide'
    BY DEF OwnerSide, AsioSide, TypeOK
  <2>4. (HandleKept /\ CloseFlagRight /\ UrlRemembered)'
    BY DEF HandleKept, CloseFlagRight, UrlRemembered,
           OwnerSide, AsioSide, TypeOK
  <2>5. (OpenIsBacked /\ EarlyKnown /\ StatusExplained)'
    BY DEF OpenIsBacked, EarlyKnown, Told, StatusExplained, Truth, OwnerSide, AsioSide,
           TypeOK
  <2> QED
    BY <2>1, <2>2, <2>3, <2>4, <2>5
<1>10. CASE \E k \in Conns : PeerCloses(k)
  <2> USE <1>10 DEF PeerCloses, Object, fields, hist
  <2>1. TypeOK'
    BY DEF TypeOK
  <2>2. OwnerSide'
    BY DEF OwnerSide, AsioSide, TypeOK
  <2>3. AsioSide'
    BY DEF OwnerSide, AsioSide, TypeOK
  <2>4. (HandleKept /\ CloseFlagRight /\ UrlRemembered)'
    BY DEF HandleKept, CloseFlagRight, UrlRemembered,
           OwnerSide, AsioSide, TypeOK
  <2>5. (OpenIsBacked /\ EarlyKnown /\ StatusExplained)'
    BY DEF OpenIsBacked, EarlyKnown, Told, StatusExplained, Truth, OwnerSide, AsioSide,
           TypeOK
  <2> QED
    BY <2>1, <2>2, <2>3, <2>4, <2>5
<1>11. CASE \E k \in Conns : Terminate(k)
  <2> USE <1>11 DEF Terminate, Object, fields, hist
  <2>1. TypeOK'
    BY DEF TypeOK
  <2>2. OwnerSide'
    BY DEF OwnerSide, AsioSide, TypeOK
  <2>3. AsioSide'
    BY DEF OwnerSide, AsioSide, TypeOK
  <2>4. (HandleKept /\ CloseFlagRight /\ UrlRemembered)'
    BY DEF HandleKept, CloseFlagRight, UrlRemembered,
           OwnerSide, AsioSide, TypeOK
  <2>5. (OpenIsBacked /\ EarlyKnown /\ StatusExplained)'
    BY DEF OpenIsBacked, EarlyKnown, Told, StatusExplained, Truth, OwnerSide, AsioSide,
           TypeOK
  <2> QED
    BY <2>1, <2>2, <2>3, <2>4, <2>5
<1>12. CASE \E k \in Conns : OnOpen(k)
  <2> USE <1>12 DEF OnOpen, Note, Object, fields
  <2>1. TypeOK'
    BY DEF TypeOK
  <2>2. OwnerSide'
    BY DEF OwnerSide, AsioSide, TypeOK
  <2>3. AsioSide'
    BY DEF OwnerSide, AsioSide, TypeOK
  <2>4. (HandleKept /\ CloseFlagRight /\ UrlRemembered)'
    BY DEF HandleKept, CloseFlagRight, UrlRemembered,
           OwnerSide, AsioSide, TypeOK
  <2>5. OpenIsBacked'
    BY DEF OpenIsBacked, OwnerSide, AsioSide, TypeOK
  <2>6. (EarlyKnown /\ StatusExplained)'
    <3>1. PICK k \in Conns : OnOpen(k)
      OBVIOUS
    <3>2. /\ k = last /\ pc = "store" => early'
          /\ early => early'
          /\ k # last => foreign'
          /\ foreign => foreign'
      BY <3>1
    <3>3. last' = last /\ pc' = pc /\ (k # last => told'[last] = told[last])
      BY <3>1 DEF TypeOK
    <3>4. k = last => m_WebsocketStatus' = Truth' /\ pc # "start"
      BY <3>1 DEF Truth, OwnerSide, AsioSide, TypeOK
    <3>5. EarlyKnown'
      BY <3>2, <3>3, <3>4 DEF EarlyKnown, Told
    <3>6. StatusExplained'
      BY <3>2, <3>3, <3>4 DEF StatusExplained
    <3> QED
      BY <3>5, <3>6
  <2> QED
    BY <2>1, <2>2, <2>3, <2>4, <2>5, <2>6
<1>13. CASE \E k \in Conns : OnFail(k)
  <2> USE <1>13 DEF OnFail, Note, Object, fields
  <2>1. TypeOK'
    BY DEF TypeOK
  <2>2. OwnerSide'
    BY DEF OwnerSide, AsioSide, TypeOK
  <2>3. AsioSide'
    BY DEF OwnerSide, AsioSide, TypeOK
  <2>4. (HandleKept /\ CloseFlagRight /\ UrlRemembered)'
    BY DEF HandleKept, CloseFlagRight, UrlRemembered,
           OwnerSide, AsioSide, TypeOK
  <2>5. OpenIsBacked'
    BY DEF OpenIsBacked, OwnerSide, AsioSide, TypeOK
  <2>6. (EarlyKnown /\ StatusExplained)'
    <3>1. PICK k \in Conns : OnFail(k)
      OBVIOUS
    <3>2. /\ k = last /\ pc = "store" => early'
          /\ early => early'
          /\ k # last => foreign'
          /\ foreign => foreign'
      BY <3>1
    <3>3. last' = last /\ pc' = pc /\ (k # last => told'[last] = told[last])
      BY <3>1 DEF TypeOK
    <3>4. k = last => m_WebsocketStatus' = Truth' /\ pc # "start"
      BY <3>1 DEF Truth, OwnerSide, AsioSide, TypeOK
    <3>5. EarlyKnown'
      BY <3>2, <3>3, <3>4 DEF EarlyKnown, Told
    <3>6. StatusExplained'
      BY <3>2, <3>3, <3>4 DEF StatusExplained
    <3> QED
      BY <3>5, <3>6
  <2> QED
    BY <2>1, <2>2, <2>3, <2>4, <2>5, <2>6
<1>14. CASE \E k \in Conns : OnClose(k)
  <2> USE <1>14 DEF OnClose, Note, Object, fields
  <2>1. TypeOK'
    BY DEF TypeOK
  <2>2. OwnerSide'
    BY DEF OwnerSide, AsioSide, TypeOK
  <2>3. AsioSide'
    BY DEF OwnerSide, AsioSide, TypeOK
  <2>4. (HandleKept /\ CloseFlagRight /\ UrlRemembered)'
    BY DEF HandleKept, CloseFlagRight, UrlRemembered,
           OwnerSide, AsioSide, TypeOK
  <2>5. OpenIsBacked'
    BY DEF OpenIsBacked, OwnerSide, AsioSide, TypeOK
  <2>6. (EarlyKnown /\ StatusExplained)'
    <3>1. PICK k \in Conns : OnClose(k)
      OBVIOUS
    <3>2. /\ k = last /\ pc = "store" => early'
          /\ early => early'
          /\ k # last => foreign'
          /\ foreign => foreign'
      BY <3>1
    <3>3. last' = last /\ pc' = pc /\ (k # last => told'[last] = told[last])
      BY <3>1 DEF TypeOK
    <3>4. k = last => m_WebsocketStatus' = Truth' /\ pc # "start"
      BY <3>1 DEF Truth, OwnerSide, AsioSide, TypeOK
    <3>5. EarlyKnown'
      BY <3>2, <3>3, <3>4 DEF EarlyKnown, Told
    <3>6. StatusExplained'
      BY <3>2, <3>3, <3>4 DEF StatusExplained
    <3> QED
      BY <3>5, <3>6
  <2> QED
    BY <2>1, <2>2, <2>3, <2>4, <2>5, <2>6
<1>15. CASE RunReturns
  <2> USE <1>15 DEF RunReturns, Object, fields, hist
  <2>1. TypeOK'
    BY DEF TypeOK
  <2>2. OwnerSide'
    BY DEF OwnerSide, AsioSide, TypeOK
  <2>3. AsioSide'
    BY DEF OwnerSide, AsioSide, TypeOK
  <2>4. (HandleKept /\ CloseFlagRight /\ UrlRemembered)'
    BY DEF HandleKept, CloseFlagRight, UrlRemembered,
           OwnerSide, AsioSide, TypeOK
  <2>5. (OpenIsBacked /\ EarlyKnown /\ StatusExplained)'
    BY DEF OpenIsBacked, EarlyKnown, Told, StatusExplained, Truth, OwnerSide, AsioSide,
           TypeOK
  <2> QED
    BY <2>1, <2>2, <2>3, <2>4, <2>5
<1>16. CASE UNCHANGED vars
  <2> USE <1>16 DEF vars, fields, hist
  <2>1. TypeOK'
    BY DEF TypeOK
  <2>2. OwnerSide'
    BY DEF OwnerSide, AsioSide, TypeOK
  <2>3. AsioSide'
    BY DEF OwnerSide, AsioSide, TypeOK
  <2>4. (HandleKept /\ CloseFlagRight /\ UrlRemembered)'
    BY DEF HandleKept, CloseFlagRight, UrlRemembered,
           OwnerSide, AsioSide, TypeOK
  <2>5. (OpenIsBacked /\ EarlyKnown /\ StatusExplained)'
    BY DEF OpenIsBacked, EarlyKnown, Told, StatusExplained, Truth, OwnerSide, AsioSide,
           TypeOK
  <2> QED
    BY <2>1, <2>2, <2>3, <2>4, <2>5
<1> QED
  BY <1>1, <1>2, <1>3, <1>4, <1>5, <1>6, <1>7, <1>8, <1>9, <1>10, <1>11, <1>12, <1>13, <1>14, <1>15, <1>16 DEF Next, Calls, Continue, Handler, Connect, ReConnect, ConnectAgain, TypeOK

------------------------------------------------------------------------------
LEMMA Invariance == Safety => []IInv
<1> QED
  BY InitIInv, NextIInv, PTL DEF Safety

(* Fields, threads and connections keep their types, and the handle is     *)
(* null or that of the last connection.                                    *)
THEOREM ClientTypeCorrect == Safety => []TypeOK
<1>1. IInv => TypeOK
  BY DEF IInv
<1> QED
  BY Invariance, <1>1, PTL

(* Whatever the owner does between the handlers, the status is Open only   *)
(* if OnOpen has run for a connection whose OnClose has not.               *)
THEOREM OpenStatusBacked == Safety => []OpenIsBacked
<1>1. IInv => OpenIsBacked
  BY DEF IInv
<1> QED
  BY Invariance, <1>1, PTL

(* The two races are the only reasons for a wrong status.                  *)
THEOREM WrongStatusExplained == Safety => []StatusExplained
<1>1. IInv => StatusExplained
  BY DEF IInv
<1> QED
  BY Invariance, <1>1, PTL

(* Close gives up only the handle of a connection that goes down.          *)
THEOREM HandleIsKept == Safety => []HandleKept
<1>1. IInv => HandleKept
  BY DEF IInv
<1> QED
  BY Invariance, <1>1, PTL

(* The flag by which OnClose tells the user's close from the peer's.       *)
THEOREM FlagTellsClose == Safety => []CloseFlagRight
<1>1. IInv => CloseFlagRight
  BY DEF IInv
<1> QED
  BY Invariance, <1>1, PTL

(* ReConnect finds the URL of the last connection.                         *)
THEOREM UrlIsRemembered == Safety => []UrlRemembered
<1>1. IInv => UrlRemembered
  BY DEF IInv
<1> QED
  BY Invariance, <1>1, PTL

------------------------------------------------------------------------------
(* The life of a connection, and what DestructorWaitsForOpen asks of every *)
(* step.                                                                   *)

(* OnOpen or OnFail, and after OnOpen OnClose; each is owed before it runs, *)
(* and none is lost or comes twice.                                        *)
Stages == {<<"nothing", "opening">>, <<"opening", "Open">>, <<"Open", "closing">>,
           <<"closing", "Closed">>, <<"nothing", "failing">>, <<"failing", "Failed">>}
HandlersInOrder ==
    [][\A k \in Conns : told'[k] = told[k] \/ <<told[k], told'[k]>> \in Stages]_vars

(* The handlers are members bound to the object: once run() has returned   *)
(* none is owed, and the object is not destroyed before.                   *)
Finished(k) == m_state[k] \in {"none", "closed"} /\ told[k] \in {"nothing", "Failed", "Closed"}
NoHandlerOnDestroyed ==
    /\ pc = "gone" => asio = "ended"
    /\ asio = "ended" => \A k \in Conns : Finished(k)

(* What the owner has told the asio thread, and what that thread is about. *)
Ending ==
    /\ ~perpetual <=> pc \in {"destroy", "join", "gone"}
    /\ asio = "ended" => ~perpetual
    /\ asio = "open" => \E k \in Conns : told[k] = "opening"

(* The join of the destructor is answered: the asio thread has ended, or   *)
(* it has a handler to run, or a handshake to end, or nothing and may      *)
(* return, unless all it has is open.                                      *)
JoinIsAnswered ==
    pc = "join" =>
      \/ asio = "ended"
      \/ \E k \in Conns : told[k] = "opening"
      \/ /\ asio = "run"
         /\ \/ \E k \in Conns : told[k] \in {"failing", "closing"}
            \/ \E k \in Conns : m_state[k] \in {"connecting", "closing"}
            \/ \E k \in Conns : m_state[k] = "open"
            \/ ~perpetual /\ \A k \in Conns : Finished(k)

(* The steps a connection has before it, at most.                          *)
StateLeft(k) ==
    IF m_state[k] = "none" THEN 4 ELSE IF m_state[k] = "connecting" THEN 3
    ELSE IF m_state[k] = "open" THEN 2 ELSE IF m_state[k] = "closing" THEN 1 ELSE 0
ToldLeft(k) ==
    IF told[k] = "nothing" THEN 4 ELSE IF told[k] = "opening" THEN 3
    ELSE IF told[k] = "Open" THEN 2 ELSE IF told[k] \in {"closing", "failing"} THEN 1 ELSE 0
StepsLeft(k) == StateLeft(k) + ToldLeft(k)

(* While the destructor joins no connection is made, and every step takes  *)
(* one connection closer to its end, or is run's return or the join's.     *)
Same(k) == m_state'[k] = m_state[k] /\ told'[k] = told[k]
TearDownStep ==
    \/ \E k \in Conns : /\ StepsLeft(k)' < StepsLeft(k)
                         /\ \A j \in Conns \ {k} : Same(j)
                         /\ pc' = "join"
    \/ asio = "run" /\ asio' = "ended" /\ pc' = "join" /\ \A j \in Conns : Same(j)
    \/ asio = "ended" /\ pc' = "gone" /\ \A j \in Conns : Same(j)
TearsDown == [][pc = "join" => TearDownStep]_vars

(* The actions of one connection, on the asio thread.                      *)
Asio(k) == Opened(k) \/ PeerCloses(k) \/ Terminate(k) \/ Handler(k)

LEMMA AsioStep ==
  ASSUME IInv, NEW k \in Conns, Asio(k)
  PROVE  /\ <<told[k], told'[k]>> \in Stages \/ told'[k] = told[k]
         /\ StepsLeft(k)' < StepsLeft(k)
         /\ \A j \in Conns \ {k} : Same(j)
         /\ asio \in {"run", "open"}
         /\ UNCHANGED Object
<1> USE DEF IInv, TypeOK, StepsLeft, StateLeft, ToldLeft, Same, Stages
<1>1. CASE Opened(k)
  BY <1>1 DEF Opened, AsioSide
<1>2. CASE PeerCloses(k)
  BY <1>2 DEF PeerCloses
<1>3. CASE Terminate(k)
  <2>1. told[k] # "opening"
    BY <1>3 DEF Terminate, AsioSide
  <2>2. CASE m_state[k] = "connecting"
    BY <1>3, <2>2 DEF Terminate, AsioSide
  <2>3. CASE m_state[k] \in {"open", "closing"}
    BY <1>3, <2>1, <2>3 DEF Terminate, AsioSide
  <2> QED
    BY <1>3, <2>2, <2>3 DEF Terminate
<1>4. CASE OnOpen(k)
  BY <1>4 DEF OnOpen, AsioSide
<1>5. CASE OnFail(k)
  BY <1>5 DEF OnFail
<1>6. CASE OnClose(k)
  BY <1>6 DEF OnClose
<1> QED
  BY <1>1, <1>2, <1>3, <1>4, <1>5, <1>6 DEF Asio, Handler

(* The owner touches told nowhere, and once it destroys nothing at all.    *)
LEMMA OwnerStep ==
  ASSUME IInv, Calls \/ Continue
  PROVE  /\ UNCHANGED <<told, asio>>
         /\ pc \in {"destroy", "join"} => UNCHANGED <<m_state, perpetual>>
         /\ pc = "destroy" => pc' = "join"
         /\ pc = "join" => asio = "ended" /\ pc' = "gone"
         /\ pc # "gone"
         /\ pc \in {"idle", "start", "store", "close", "reconnect"} =>
              IF pc' = "destroy" THEN ~perpetual'
              ELSE pc' \notin {"join", "gone"} /\ perpetual' = perpetual
<1> USE DEF IInv, TypeOK
<1>1. CASE \E u \in Urls \cup {NoUrl}, mode \in {"NoHttpAuthorization", "WithHttpAuthorization"} :
             Make(u, mode) /\ pc \in {"idle", "reconnect"}
  BY <1>1 DEF Make
<1>2. CASE StartConnection
  BY <1>2 DEF StartConnection
<1>3. CASE StoreConnecting
  BY <1>3 DEF StoreConnecting
<1>4. CASE \E from \in {"user", "ReConnect"} : MarkClose(from)
  BY <1>4 DEF MarkClose
<1>5. CASE SendClose
  BY <1>5 DEF SendClose, CloseReturns
<1>6. CASE StopPerpetual
  BY <1>6 DEF StopPerpetual
<1>7. CASE CloseIfOpen
  BY <1>7 DEF CloseIfOpen, get_status
<1>8. CASE Join
  BY <1>8 DEF Join
<1> QED
  BY <1>1, <1>2, <1>3, <1>4, <1>5, <1>6, <1>7, <1>8
  DEF Calls, Continue, Connect, ReConnect, ConnectAgain

EInv == IInv /\ Ending /\ NoHandlerOnDestroyed

LEMMA EndingInvariance == Safety => []EInv
<1>1. Init => EInv
  BY InitIInv DEF EInv, Ending, NoHandlerOnDestroyed, Init
<1>2. EInv /\ [Next]_vars => EInv'
  <2> SUFFICES ASSUME EInv, [Next]_vars PROVE (Ending /\ NoHandlerOnDestroyed)'
    BY NextIInv DEF EInv
  <2> USE DEF EInv, Ending, NoHandlerOnDestroyed
  <2>1. CASE Calls \/ Continue
    <3>1. /\ UNCHANGED <<told, asio>>
          /\ pc' \in {"destroy", "join", "gone"} <=> ~perpetual'
          /\ ~perpetual => ~perpetual' /\ UNCHANGED m_state
          /\ pc' = "gone" => asio = "ended"
      BY <2>1, OwnerStep DEF IInv, TypeOK
    <3> QED
      BY <3>1 DEF Finished
  <2>2. ASSUME NEW k \in Conns, Asio(k) PROVE (Ending /\ NoHandlerOnDestroyed)'
    <3>1. /\ UNCHANGED <<pc, perpetual>> /\ asio \in {"run", "open"} /\ asio' \in {"run", "open"}
          /\ asio' = "open" => \E j \in Conns : told'[j] = "opening"
      <4>1. CASE Opened(k)
        BY <4>1 DEF Opened, Object, IInv, TypeOK
      <4>2. CASE OnOpen(k)
        BY <4>2 DEF OnOpen, Object, IInv, AsioSide
      <4>3. CASE PeerCloses(k) \/ Terminate(k) \/ OnFail(k) \/ OnClose(k)
        BY <4>3 DEF PeerCloses, Terminate, OnFail, OnClose, Object
      <4> QED
        BY <2>2, <4>1, <4>2, <4>3 DEF Asio, Handler
    <3> QED
      BY <3>1
  <2>3. CASE RunReturns
    <3>1. \A k \in Conns : told[k] # "opening"
      BY <2>3 DEF RunReturns, IInv, AsioSide
    <3>2. \A k \in Conns : Finished(k)
      BY <2>3, <3>1 DEF RunReturns, Finished, IInv, TypeOK, AsioSide
    <3> QED
      BY <2>3, <3>2 DEF RunReturns, Object, Finished
  <2>4. CASE UNCHANGED vars
    BY <2>4 DEF vars, Finished
  <2> QED
    BY <2>1, <2>2, <2>3, <2>4 DEF Next, Asio
<1> QED
  BY <1>1, <1>2, PTL DEF Safety

(* The handlers capture the object.  When the destructor has joined, every *)
(* connection is over and every handler it caused has run.                 *)
THEOREM HandlersDoneBeforeEnd == Safety => []NoHandlerOnDestroyed
<1>1. EInv => NoHandlerOnDestroyed
  BY DEF EInv
<1> QED
  BY EndingInvariance, <1>1, PTL

(* Of each connection OnOpen or OnFail runs, and OnClose after OnOpen: no   *)
(* error between the handshake and its handler takes OnOpen away.           *)
THEOREM HandlersRunInOrder == Safety => HandlersInOrder
<1>1. IInv /\ [Next]_vars =>
        [\A k \in Conns : told'[k] = told[k] \/ <<told[k], told'[k]>> \in Stages]_vars
  <2> SUFFICES ASSUME IInv, [Next]_vars, NEW k \in Conns
               PROVE  told'[k] = told[k] \/ <<told[k], told'[k]>> \in Stages
    OBVIOUS
  <2>1. CASE Calls \/ Continue
    BY <2>1, OwnerStep
  <2>2. CASE \E j \in Conns : Asio(j)
    BY <2>2, AsioStep DEF Same
  <2>3. CASE RunReturns \/ UNCHANGED vars
    BY <2>3 DEF RunReturns, vars
  <2> QED
    BY <2>1, <2>2, <2>3 DEF Next, Asio
<1> QED
  BY Invariance, <1>1, PTL DEF Safety, HandlersInOrder

(* The asio thread the destructor joins has ended, or can go on, unless    *)
(* all that is left is open.                                               *)
THEOREM DestructorIsAnswered == Safety => []JoinIsAnswered
<1>1. EInv => JoinIsAnswered
  <2> SUFFICES ASSUME EInv, pc = "join", asio = "run",
                      \A k \in Conns : /\ told[k] \notin {"opening", "failing", "closing"}
                                        /\ m_state[k] \notin {"connecting", "closing", "open"}
               PROVE  ~perpetual /\ \A k \in Conns : Finished(k)
    BY DEF JoinIsAnswered, EInv, Ending, IInv, TypeOK
  <2> QED
    BY DEF EInv, Ending, Finished, IInv, TypeOK, AsioSide
<1> QED
  BY EndingInvariance, <1>1, PTL

(* While the destructor joins nothing goes round: each step ends a stage   *)
(* of one connection, or the asio thread, or the join.                     *)
THEOREM ConnectionsTearDown == Safety => TearsDown
<1>1. ASSUME IInv, pc = "join", [Next]_vars, ~UNCHANGED vars
      PROVE  TearDownStep
  <2> USE DEF TearDownStep
  <2>1. CASE Calls \/ Continue
    BY <1>1, <2>1, OwnerStep DEF Same
  <2>2. CASE \E k \in Conns : Asio(k)
    BY <1>1, <2>2, AsioStep DEF Object
  <2>3. CASE RunReturns
    BY <1>1, <2>3 DEF RunReturns, Object, Same
  <2> QED
    BY <1>1, <2>1, <2>2, <2>3 DEF Next, Asio
<1>2. IInv /\ [Next]_vars => [pc = "join" => TearDownStep]_vars
  BY <1>1
<1> QED
  BY Invariance, <1>2, PTL DEF Safety, TearsDown
==============================================================================
