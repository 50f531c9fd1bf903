------------------------------ MODULE Framing ------------------------------
(***************************************************************************)
(* Messages over one connection.  The repository has two ways to send and  *)
(* two to receive, and its example programs use the same port for them:    *)
(*   sender "framed": src/AsynClientSocket, which puts the length before   *)
(*     each message and sends it from a thread of its own;                 *)
(*   sender "raw": the clients of src/TwowaySocket, which send the data;   *)
(*   receiver "framed": the receive thread of src/TwowaySocket's server;   *)
(*   receiver "raw": the receive thread of src/AsynServerSocket.           *)
(*                                                                         *)
(* The connection is a stream of bytes; recv returns any number of them    *)
(* that has arrived.  A receiver prints what it takes for a message as a C *)
(* string.  What else goes on in a server is TwowaySocket's matter; here   *)
(* the number of the socket is used for nothing else.                      *)
(***************************************************************************)
EXTENDS Integers, Sequences, FiniteSetsExt

CONSTANTS Texts,        (* what is sent                                    *)
          NoText,
          RecvSize,     (* 1024 in the code                                *)
          Pieces,       (* after how many bytes a send may pause or stop   *)
          MaxMessages   (* calls of SendDataToRemoteServer                 *)

Huge == 2^24   (* a length for which there may be no memory *)

ASSUME FramingAssumption ==
    /\ Texts \subseteq Seq(1 .. 255)
    /\ \A m \in Texts : Len(m) < Huge
    /\ NoText \notin Texts
    /\ RecvSize \in Nat /\ RecvSize > 4
    /\ MaxMessages \in Nat
    /\ Pieces \subseteq Nat

Messages == 1 .. MaxMessages

VARIABLES
    sender, receiver,  (* "framed" or "raw"                                *)
    (* the connection *)
    link,      (* none, pending, up, closed by the sender, reset           *)
    stream,    (* the bytes on the way                                     *)
    (* the sender *)
    blocking,  (* is the socket blocking                                   *)
    asked,     (* calls so far                                             *)
    text,      (* text[t]: the text of call t until its send is over       *)
    out,       (* out[t]: how many of its bytes the connection has taken   *)
    (* the receiver *)
    rpc,       (* recv, inner (the loop of line 283), ended, broken        *)
    dataLength,
    got,       (* dataStr, as far as it is written                         *)
    shown,     (* what has been printed                                    *)
    (* history *)
    wire,      (* the texts in the order their last bytes were taken       *)
    taken,     (* how many bytes were                                      *)
    open,      (* the call whose message the stream ends within, or 0      *)
    torn,      (* a message began within another                           *)
    misread    (* a recv got less than a length, or more than one message  *)

connection == <<sender, receiver, link, stream>>
sending == <<blocking, asked, text, out>>
receiving == <<rpc, dataLength, got, shown>>
onWire == <<wire, taken, open, torn>>
vars == <<connection, sending, receiving, onWire, misread>>

Init ==
    /\ sender \in {"framed", "raw"} /\ receiver \in {"framed", "raw"}
    /\ link = "none" /\ stream = <<>>
    /\ blocking = TRUE /\ asked = 0
    /\ text = [t \in Messages |-> NoText]
    /\ out = [t \in Messages |-> 0]
    /\ rpc = "recv" /\ dataLength = 0 /\ got = <<>> /\ shown = <<>>
    /\ wire = <<>> /\ taken = 0 /\ open = 0 /\ torn = FALSE /\ misread = FALSE

-----------------------------------------------------------------------------
(* The four bytes of a length.                                             *)

intToByte(n) == <<(n \div 2^24) % 256, (n \div 2^16) % 256, (n \div 2^8) % 256, n % 256>>

(* A plausible slip, for comparison: the last byte only.                   *)
lastByteToInt(b) == b[4]

(* A plausible slip, for comparison: the bytes in the other order.         *)
reversedBytesToInt(b) == b[4] * 2^24 + b[3] * 2^16 + b[2] * 2^8 + b[1]

(* An int has 32 bits and a sign.                                          *)
bytesToInt(b) ==
    (IF b[1] < 128 THEN b[1] ELSE b[1] - 256) * 2^24 + b[2] * 2^16 + b[3] * 2^8 + b[4]

Frame(m) == IF sender = "framed" THEN intToByte(Len(m)) \o m ELSE m

-----------------------------------------------------------------------------
(* The sender: CreateAndConnectToRemoteServer, SendDataToRemoteServer,     *)
(* CloseClient.                                                            *)

(* A connect that fails closes what it opened and changes nothing here.    *)

(* Connected; AsynClientSocket leaves the socket nonblocking when connect  *)
(* needs no time (line 100).                                               *)
Connect ==
    /\ link = "none" /\ asked = 0 /\ link' = "up"
    /\ blocking' \in (IF sender = "framed" THEN BOOLEAN ELSE {TRUE})
    /\ UNCHANGED <<sender, receiver, stream, asked, text, out, receiving, onWire, misread>>

(* The two seconds are over, and the socket stays (lines 110 to 113).      *)
ConnectTimesOut ==
    /\ link = "none" /\ asked = 0 /\ link' = "pending"
    /\ sender = "framed"
    /\ blocking' = FALSE
    /\ UNCHANGED <<sender, receiver, stream, asked, text, out, receiving, onWire, misread>>

ConnectedLate ==
    /\ link = "pending" /\ link' = "up"
    /\ UNCHANGED <<sender, receiver, stream, sending, receiving, onWire, misread>>

(* A call that returns: with a thread of its own, or when its send has.    *)
SendDataToRemoteServer(m) ==
    /\ asked < MaxMessages
    /\ sender = "raw" => \A t \in Messages : text[t] = NoText
    /\ asked' = asked + 1
    /\ text' = [text EXCEPT ![asked + 1] = m]
    /\ UNCHANGED <<connection, blocking, out, receiving, onWire, misread>>

(* send gives the connection some of the bytes.  On a blocking socket it   *)
(* goes on with the others, and the sends of other threads may come in     *)
(* between; on a nonblocking one it returns how many there were, which is  *)
(* not looked at.                                                          *)
Send(t) ==
    /\ text[t] # NoText /\ link = "up"
    /\ LET bytes == Frame(text[t])
       IN  \E last \in {n \in Pieces : out[t] < n /\ n < Len(bytes)} \cup {Len(bytes)} :
             /\ stream' = stream \o SubSeq(bytes, out[t] + 1, last)
             /\ taken' = taken + last - out[t]
             /\ out' = [out EXCEPT ![t] = last]
             /\ torn' = (torn \/ open \notin {0, t})
             /\ open' = IF last = Len(bytes) THEN 0 ELSE t
             /\ wire' = IF last = Len(bytes) THEN Append(wire, text[t]) ELSE wire
             /\ text' = IF last = Len(bytes) \/ ~blocking
                        THEN [text EXCEPT ![t] = NoText] ELSE text
    /\ UNCHANGED <<sender, receiver, link, blocking, asked, receiving, misread>>

CloseLink == link' = IF link = "up" THEN "closed" ELSE IF link = "pending" THEN "none" ELSE link

(* send returns -1, on a nonblocking socket also because there is no room. *)
SendFails(t) ==
    /\ text[t] # NoText
    /\ text' = [text EXCEPT ![t] = NoText]
    /\ CloseLink
    /\ UNCHANGED <<sender, receiver, stream, blocking, asked, out, receiving, onWire, misread>>

CloseClient ==
    /\ link \in {"pending", "up"} /\ CloseLink
    /\ sender = "raw" => \A t \in Messages : text[t] = NoText
    /\ UNCHANGED <<sender, receiver, stream, sending, receiving, onWire, misread>>

(* The network, or the process at one end, is gone.                        *)
Reset ==
    /\ link \in {"up", "closed"} /\ link' = "reset"
    /\ stream' = <<>>
    /\ UNCHANGED <<sender, receiver, sending, receiving, onWire, misread>>

-----------------------------------------------------------------------------
(* The receivers.                                                          *)

recvFrame == <<sender, receiver, sending, onWire>>

(* What is printed of a char array that ends with a zero.                  *)
CString(s) ==
    LET zeros == {j \in 1 .. Len(s) : s[j] = 0}
    IN  IF zeros = {} THEN s ELSE SubSeq(s, 1, Min(zeros) - 1)

Show(s) == shown' = Append(shown, CString(s))

(* recv takes k bytes.                                                     *)
Recv(k) ==
    /\ k <= RecvSize
    /\ stream' = SubSeq(stream, k + 1, Len(stream))

(* The length as line 270 finds it: recvBuf is filled with zeros.          *)
Header(k) == bytesToInt([j \in 1 .. 4 |-> IF j <= k THEN stream[j] ELSE 0])

Misread(k, n) == misread' = (misread \/ k > n)

(* The process ends: a copy of a negative number of bytes, or no array of  *)
(* that length; or more than the array has room for is written to it,      *)
(* which may end it.                                                       *)
ReceiveBreaks(k) ==
    /\ receiver = "framed" /\ rpc = "recv" /\ rpc' = "broken"
    /\ Recv(k)
    /\ \/ k < 4
       \/ Header(k) < 0 \/ Header(k) >= Huge
       \/ k - 4 > Header(k) + 1
    /\ misread' = (misread \/ k < 4 \/ k - 4 > Header(k))
    /\ link' = "reset"
    /\ UNCHANGED <<recvFrame, dataLength, got, shown>>

(* A message in one recv; what follows it is dropped.                      *)
ReceiveWhole(k) ==
    /\ receiver = "framed" /\ rpc = "recv"
    /\ Recv(k)
    /\ k >= 4 /\ Header(k) \in 0 .. k - 4
    /\ Show(SubSeq(stream, 5, 4 + Header(k)))
    /\ Misread(k - 4, Header(k))
    /\ UNCHANGED <<recvFrame, link, rpc, dataLength, got>>

ReceivePart(k) ==
    /\ receiver = "framed" /\ rpc = "recv" /\ rpc' = "inner"
    /\ Recv(k)
    /\ k >= 4 /\ Header(k) > k - 4
    /\ dataLength' = Header(k)
    /\ got' = SubSeq(stream, 5, k)
    /\ UNCHANGED <<recvFrame, link, shown, misread>>

(* A plausible slip, for comparison: the loop goes on with a full array.   *)
ReceiveMoreOnceMore(k) ==
    /\ rpc = "inner"
    /\ Recv(k)
    /\ LET room == dataLength - Len(got)
       IN  IF k > room
           THEN /\ Show(got \o SubSeq(stream, 1, room))
                /\ rpc' = "recv" /\ got' = <<>> /\ dataLength' = 0
                /\ Misread(k, room)
           ELSE /\ got' = got \o SubSeq(stream, 1, k)
                /\ UNCHANGED <<rpc, dataLength, shown, misread>>
    /\ UNCHANGED <<recvFrame, link>>

(* The inner loop; it drops what follows the message as well.              *)
ReceiveMore(k) ==
    /\ rpc = "inner"
    /\ Recv(k)
    /\ LET room == dataLength - Len(got)
       IN  IF k >= room
           THEN /\ Show(got \o SubSeq(stream, 1, room))
                /\ rpc' = "recv" /\ got' = <<>> /\ dataLength' = 0
                /\ Misread(k, room)
           ELSE /\ got' = got \o SubSeq(stream, 1, k)
                /\ UNCHANGED <<rpc, dataLength, shown, misread>>
    /\ UNCHANGED <<recvFrame, link>>

(* recv returns 0: the number is closed, which is all that recv finds of   *)
(* it the next time, or -1.  Within a message what has come is printed.    *)
PeerGone ==
    /\ receiver = "framed"
    /\ link \in {"closed", "reset"} /\ stream = <<>>
    /\ link' = "reset"
    /\ \/ /\ rpc = "recv" /\ rpc' = "ended"
          /\ UNCHANGED <<dataLength, got, shown>>
       \/ /\ rpc = "inner" /\ rpc' = "recv"
          /\ Show(got)
          /\ got' = <<>> /\ dataLength' = 0
    /\ UNCHANGED <<recvFrame, stream, misread>>

(* The receive thread of AsynServerSocket.                                 *)
ReceiveRaw(k) ==
    /\ receiver = "raw" /\ rpc = "recv"
    /\ Recv(k) /\ k < RecvSize
    /\ Show(SubSeq(stream, 1, k))
    /\ UNCHANGED <<recvFrame, link, rpc, dataLength, got, misread>>

(* It prints the empty array before it looks at the 0, or the -1.          *)
PeerGoneRaw ==
    /\ receiver = "raw" /\ rpc = "recv" /\ rpc' = "ended"
    /\ link \in {"closed", "reset"} /\ stream = <<>>
    /\ link' = "reset"
    /\ Show(<<>>)
    /\ UNCHANGED <<recvFrame, stream, dataLength, got, misread>>

-----------------------------------------------------------------------------
Sender ==
    \/ Connect \/ ConnectTimesOut \/ ConnectedLate
    \/ \E m \in Texts : SendDataToRemoteServer(m)
    \/ \E t \in Messages : Send(t) \/ SendFails(t)
    \/ CloseClient

Receiver ==
    \/ \E k \in 1 .. Len(stream) :
         \/ ReceiveBreaks(k) \/ ReceiveWhole(k) \/ ReceivePart(k) \/ ReceiveMore(k)
         \/ ReceiveRaw(k)
    \/ PeerGone \/ PeerGoneRaw

Next == Sender \/ Reset \/ Receiver

(* Threads run; nobody has to connect, to send or to close.                *)
Fairness ==
    /\ \A t \in Messages : WF_vars(Send(t))
    /\ WF_vars(Receiver)

Safety == Init /\ [][Next]_vars
Spec == Safety /\ Fairness

-----------------------------------------------------------------------------
(* Properties.                                                             *)

(* Every variable stays in its range, and the inner loop has something to  *)
(* wait for.                                                               *)
TypeOK ==
    /\ sender \in {"framed", "raw"} /\ receiver \in {"framed", "raw"}
    /\ link \in {"none", "pending", "up", "closed", "reset"}
    /\ stream \in Seq(0 .. 255)
    /\ blocking \in BOOLEAN
    /\ asked \in 0 .. MaxMessages
    /\ text \in [Messages -> Texts \cup {NoText}]
    /\ out \in [Messages -> Nat]
    /\ rpc \in {"recv", "inner", "ended", "broken"}
    /\ dataLength \in Nat
    /\ got \in Seq(0 .. 255)
    /\ rpc = "inner" => Len(got) < dataLength
    /\ shown \in Seq(Seq(1 .. 255))
    /\ wire \in Seq(Texts) /\ taken \in Nat /\ open \in 0 .. MaxMessages
    /\ torn \in BOOLEAN /\ misread \in BOOLEAN

Intact == sender = "framed" /\ receiver = "framed" /\ ~torn /\ ~misread

(* The framing works, whatever pieces a message comes in, unless a recv    *)
(* gets a part of a length or the end of one message with the next, or two *)
(* sends mix.                                                              *)
Abstract == INSTANCE MessageChannel WITH
    Items <- Texts, NoItem <- NoText, Calls <- Messages,
    offered <- text, entered <- wire, delivered <- shown,
    state <- IF ~Intact THEN "garbled"
             ELSE IF rpc = "broken" THEN "crashed"
             ELSE IF link = "reset" THEN IF rpc = "inner" THEN "lost" ELSE "over"
             ELSE IF link = "closed" THEN "closing"
             ELSE IF link = "up" THEN "open" ELSE "new"
ImplementsMessageChannel == Abstract!Spec

(* What the clients of TwowaySocket send is not for its own server: it     *)
(* takes the first four bytes for a length, which is then Huge or          *)
(* negative, and prints nothing before that many bytes have come or the    *)
(* connection is gone.                                                     *)
RawNotShown ==
    sender = "raw" /\ receiver = "framed" /\ shown # <<>>
    => link = "reset" \/ taken >= Huge
=============================================================================
