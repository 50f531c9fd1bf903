--------------------------- MODULE Framing_proofs ---------------------------
(***************************************************************************)
(* The lengths, the types and the refinement of Framing, for any texts,    *)
(* pieces and buffer, and what the refinement gives: what is printed is    *)
(* what was sent.                                                          *)
(***************************************************************************)
EXTENDS Framing, SequenceTheorems, WellFoundedInduction, TLAPS

Byte == 0 .. 255
Char == 1 .. 255

(* TypeOK in two parts, the Boolean variables and the others.              *)
Flags == blocking \in BOOLEAN /\ torn \in BOOLEAN /\ misread \in BOOLEAN
Types ==
    /\ sender \in {"framed", "raw"} /\ receiver \in {"framed", "raw"}
    /\ link \in {"none", "pending", "up", "closed", "reset"}
    /\ stream \in Seq(Byte)
    /\ asked \in 0 .. MaxMessages
    /\ text \in [Messages -> Texts \cup {NoText}]
    /\ out \in [Messages -> Nat]
    /\ rpc \in {"recv", "inner", "ended", "broken"}
    /\ dataLength \in Nat
    /\ got \in Seq(Byte)
    /\ rpc = "inner" => Len(got) < dataLength
    /\ shown \in Seq(Seq(Char))
    /\ wire \in Seq(Texts) /\ taken \in Nat /\ open \in 0 .. MaxMessages

-----------------------------------------------------------------------------
(* The four bytes of a length.                                             *)

LEMMA Quotient ==
  ASSUME NEW n \in Nat, NEW q \in Nat, NEW r \in Nat
  PROVE  /\ n = q * 2^16 + r /\ r < 2^16 => n \div 2^16 = q
         /\ n = q * 2^24 + r /\ r < 2^24 => n \div 2^24 = q
  BY SMT

(* What bytesToInt reads is what intToByte wrote, for every length an int  *)
(* can have.                                                               *)
THEOREM LengthSurvives ==
  ASSUME NEW n \in Nat, n < 2^31
  PROVE  bytesToInt(intToByte(n)) = n
<1> DEFINE a == n \div 256
           b == a \div 256
           c == b \div 256
           x == n % 256
           y == a % 256
           z == b % 256
<1>1. a = n \div 256 /\ x = n % 256
  OBVIOUS
<1>2. b = a \div 256 /\ y = a % 256
  OBVIOUS
<1>3. c = b \div 256 /\ z = b % 256
  OBVIOUS
<1> HIDE DEF a, b, c, x, y, z
<1>4. a \in Nat /\ x \in 0 .. 255 /\ n = a * 256 + x
  BY <1>1, SMT
<1>5. b \in Nat /\ y \in 0 .. 255 /\ a = b * 256 + y
  BY <1>4, <1>2, SMT
<1>6. c \in Nat /\ z \in 0 .. 255 /\ b = c * 256 + z
  BY <1>5, <1>3, SMT
<1>7. /\ n = c * 2^24 + (z * 2^16 + y * 2^8 + x)
      /\ n = b * 2^16 + (y * 2^8 + x)
  BY <1>4, <1>5, <1>6, SMT
<1>8. c < 128
  BY <1>4, <1>5, <1>6, <1>7, SMT
<1>9. n \div 2^8 = a
  BY <1>1, SMT
<1>10. n \div 2^16 = b
  <2>1. y * 2^8 + x \in Nat /\ y * 2^8 + x < 2^16
    BY <1>4, <1>5, SMT
  <2> QED
    BY <2>1, <1>5, <1>7, Quotient, SMT
<1>11. n \div 2^24 = c
  <2>1. z * 2^16 + y * 2^8 + x \in Nat /\ z * 2^16 + y * 2^8 + x < 2^24
    BY <1>4, <1>5, <1>6, SMT
  <2> QED
    BY <2>1, <1>6, <1>7, Quotient, SMT
<1>12. intToByte(n) = <<c, z, y, x>>
  <2>1. c % 256 = c
    BY <1>6, <1>8, SMT
  <2> QED
    BY <1>1, <1>2, <1>3, <1>9, <1>10, <1>11, <2>1, SMT DEF intToByte
<1> QED
  BY <1>4, <1>5, <1>6, <1>7, <1>8, <1>12, SMT DEF bytesToInt

LEMMA LengthBytes ==
  ASSUME NEW n \in Nat
  PROVE  intToByte(n) \in Seq(Byte) /\ Len(intToByte(n)) = 4
<1>1. \A q \in Nat : q % 256 \in Byte
  BY SMT DEF Byte
<1>2. n \div 2^24 \in Nat /\ n \div 2^16 \in Nat /\ n \div 2^8 \in Nat
  BY SMT
<1> QED
  BY <1>1, <1>2, SMT DEF intToByte

LEMMA ByteRange ==
  /\ \A x \in Byte : x \in Nat /\ x < 256 /\ (x # 0 => x \in Char)
  /\ \A x \in Char : x \in Byte /\ x \in Nat /\ x # 0
  BY SMT DEF Byte, Char

LEMMA LengthRead ==
  ASSUME NEW b \in [1 .. 4 -> Byte]
  PROVE  bytesToInt(b) \in Int
<1>1. b[1] \in Nat /\ b[2] \in Nat /\ b[3] \in Nat /\ b[4] \in Nat
  BY ByteRange, SMT
<1> QED
  BY <1>1, SMT DEF bytesToInt

-----------------------------------------------------------------------------
(* What is printed.                                                        *)

LEMMA MinOfPositions ==
  ASSUME NEW S, S \subseteq Nat, S # {}
  PROVE  Min(S) \in S /\ \A y \in S : Min(S) <= y
<1>1. PICK x \in S : \A y \in S : ~(<<y, x>> \in OpToRel(<, Nat))
  BY NatLessThanWellFounded, WFMin, Zenon
<1>2. \A y \in S : x <= y
  <2> SUFFICES ASSUME NEW y \in S, y < x PROVE FALSE
    BY SMT
  <2>1. <<y, x>> \in Nat \X Nat /\ <<y, x>>[1] < <<y, x>>[2]
    BY SMT
  <2> QED
    BY <1>1, <2>1, Zenon DEF OpToRel
<1> QED
  BY <1>2, Zenon DEF Min

LEMMA PrintedBytes ==
  ASSUME NEW s \in Seq(Byte)
  PROVE  CString(s) \in Seq(Char)
<1> DEFINE zeros == {j \in 1 .. Len(s) : s[j] = 0}
<1>0. CString(s) = IF zeros = {} THEN s ELSE SubSeq(s, 1, Min(zeros) - 1)
  BY Zenon DEF CString
<1>1. \A j \in 1 .. Len(s) : s[j] = 0 \/ s[j] \in Char
  BY ByteRange, SMT
<1>2. CASE zeros = {}
  <2>1. \A j \in 1 .. Len(s) : s[j] \in Char
    BY <1>1, <1>2, Zenon
  <2> QED
    BY <1>0, <1>2, <2>1, SMT
<1>3. CASE zeros # {}
  <2>1. zeros \subseteq Nat
    OBVIOUS
  <2>2. Min(zeros) \in zeros /\ \A y \in zeros : Min(zeros) <= y
    BY <1>3, <2>1, MinOfPositions, Zenon
  <2>3. Min(zeros) \in 1 .. Len(s) /\ \A j \in 1 .. Len(s) : s[j] = 0 => Min(zeros) <= j
    BY <2>2, Zenon
  <2> DEFINE k == Min(zeros)
  <2>4. CString(s) = SubSeq(s, 1, k - 1)
    BY <1>0, <1>3
  <2> HIDE DEF zeros, k
  <2>5. \A j \in 1 .. k - 1 : s[j] \in Char
    BY <1>1, <2>3, SMT DEF k
  <2>6. k \in 1 .. Len(s)
    BY <2>3 DEF k
  <2> QED
    BY <2>4, <2>5, <2>6, SMT
<1> QED
  BY <1>2, <1>3

LEMMA PrintedWhole ==
  ASSUME NEW s \in Seq(Char)
  PROVE  CString(s) = s
<1>1. \A j \in 1 .. Len(s) : s[j] # 0
  BY ByteRange, SMT
<1> QED
  BY <1>1, Zenon DEF CString

-----------------------------------------------------------------------------
(* Types.                                                                  *)

LEMMA TypeParts == TypeOK <=> Flags /\ Types
  BY Zenon DEF TypeOK, Flags, Types, Byte, Char

LEMMA TextBytes ==
  ASSUME NEW m \in Texts
  PROVE  m \in Seq(Char) /\ m \in Seq(Byte) /\ Len(m) \in Nat /\ Len(m) < Huge
<1>1. m \in Seq(Char) /\ Len(m) < Huge
  BY FramingAssumption, Zenon DEF Char
<1>2. \A j \in 1 .. Len(m) : m[j] \in Byte
  BY <1>1, ByteRange, SMT
<1> QED
  BY <1>1, <1>2, SMT

LEMMA FrameBytes ==
  ASSUME NEW m \in Texts
  PROVE  /\ Frame(m) \in Seq(Byte)
         /\ Len(Frame(m)) = IF sender = "framed" THEN 4 + Len(m) ELSE Len(m)
<1>1. m \in Seq(Byte) /\ intToByte(Len(m)) \in Seq(Byte) /\ Len(intToByte(Len(m))) = 4
  BY TextBytes, LengthBytes
<1>2. /\ intToByte(Len(m)) \o m \in Seq(Byte)
      /\ Len(intToByte(Len(m)) \o m) = Len(intToByte(Len(m))) + Len(m)
  BY <1>1, ConcatProperties, Zenon
<1> QED
  BY <1>1, <1>2, Zenon DEF Frame

LEMMA HeaderRead ==
  ASSUME Types, NEW k \in 1 .. Len(stream)
  PROVE  Header(k) \in Int
<1> DEFINE b == [j \in 1 .. 4 |-> IF j <= k THEN stream[j] ELSE 0]
<1>1. \A j \in 1 .. Len(stream) : stream[j] \in Byte
  BY SMT DEF Types
<1>2. 0 \in Byte
  BY SMT DEF Byte
<1>3. \A j \in 1 .. 4 : (IF j <= k THEN stream[j] ELSE 0) \in Byte
  BY <1>1, <1>2, SMT DEF Types
<1>4. b \in [1 .. 4 -> Byte]
  BY <1>3, Zenon
<1>5. Header(k) = bytesToInt(b)
  BY DEF Header
<1> QED
  BY <1>4, <1>5, LengthRead, Zenon

LEMMA PieceBytes ==
  ASSUME NEW s \in Seq(Byte), NEW k \in Nat, NEW l \in 0 .. Len(s)
  PROVE  SubSeq(s, k + 1, l) \in Seq(Byte) /\ Len(SubSeq(s, k + 1, l)) = IF k < l THEN l - k ELSE 0
  BY SMT

(* A call that was not made has sent nothing, and none sends too much.     *)
SentRight(t) ==
    /\ t > asked => text[t] = NoText /\ out[t] = 0
    /\ text[t] # NoText => out[t] <= Len(Frame(text[t]))
Sends == \A t \in Messages : SentRight(t)

LEMMA InitTypes == Init => Flags /\ Types /\ Sends
<1> SUFFICES ASSUME Init PROVE Flags /\ Types /\ Sends
  OBVIOUS
<1>1. Flags
  BY DEF Init, Flags
<1>2. /\ text = [t \in Messages |-> NoText] /\ out = [t \in Messages |-> 0]
      /\ asked = 0 /\ open = 0 /\ taken = 0 /\ dataLength = 0
      /\ stream = <<>> /\ got = <<>> /\ shown = <<>> /\ wire = <<>>
      /\ sender \in {"framed", "raw"} /\ receiver \in {"framed", "raw"}
      /\ link = "none" /\ rpc = "recv"
  BY DEF Init
<1>3. \A S : <<>> \in Seq(S)
  BY SMT
<1>4. Types
  BY <1>2, <1>3, FramingAssumption, SMT DEF Types
<1>5. Sends
  BY <1>2, Zenon DEF Sends, SentRight
<1> QED
  BY <1>1, <1>4, <1>5

LEMMA FlagsStep ==
  ASSUME Flags, Next
  PROVE  Flags'
<1> USE DEF Flags
<1>1. CASE Sender
  BY <1>1, Zenon DEF Sender, Connect, ConnectTimesOut, ConnectedLate, SendDataToRemoteServer, Send,
     SendFails, CloseClient, sending, onWire
<1>2. CASE Reset
  BY <1>2, Zenon DEF Reset, sending, onWire
<1>3. CASE Receiver
  <2>1. UNCHANGED <<blocking, torn>>
    BY <1>3, Zenon DEF Receiver, ReceiveBreaks, ReceiveWhole, ReceivePart, ReceiveMore, ReceiveRaw,
       PeerGone, PeerGoneRaw, recvFrame, sending, onWire
  <2>2. misread' \in BOOLEAN
    BY <1>3, Zenon DEF Receiver, ReceiveBreaks, ReceiveWhole, ReceivePart, ReceiveMore, ReceiveRaw,
       PeerGone, PeerGoneRaw, Misread
  <2> QED
    BY <2>1, <2>2
<1> QED
  BY <1>1, <1>2, <1>3 DEF Next

(* The bytes that a Send adds.                                             *)
LEMMA SendAdds ==
  ASSUME Types, NEW t \in Messages, Send(t)
  PROVE  \E last \in Nat :
           /\ out[t] < last \/ last = Len(Frame(text[t]))
           /\ last <= Len(Frame(text[t]))
           /\ stream' = stream \o SubSeq(Frame(text[t]), out[t] + 1, last)
           /\ taken' = taken + last - out[t]
           /\ out' = [out EXCEPT ![t] = last]
           /\ torn' = (torn \/ open \notin {0, t})
           /\ open' = IF last = Len(Frame(text[t])) THEN 0 ELSE t
           /\ wire' = IF last = Len(Frame(text[t])) THEN Append(wire, text[t]) ELSE wire
           /\ text' = IF last = Len(Frame(text[t])) \/ ~blocking
                      THEN [text EXCEPT ![t] = NoText] ELSE text
<1> DEFINE bytes == Frame(text[t])
<1>1. text[t] \in Texts
  BY DEF Types, Send
<1>2. Len(bytes) \in Nat
  BY <1>1, FrameBytes, SMT
<1>3. PICK last \in {n \in Pieces : out[t] < n /\ n < Len(bytes)} \cup {Len(bytes)} :
         /\ stream' = stream \o SubSeq(bytes, out[t] + 1, last)
         /\ taken' = taken + last - out[t]
         /\ out' = [out EXCEPT ![t] = last]
         /\ torn' = (torn \/ open \notin {0, t})
         /\ open' = IF last = Len(bytes) THEN 0 ELSE t
         /\ wire' = IF last = Len(bytes) THEN Append(wire, text[t]) ELSE wire
         /\ text' = IF last = Len(bytes) \/ ~blocking
                    THEN [text EXCEPT ![t] = NoText] ELSE text
  BY Zenon DEF Send
<1>4. last \in Nat /\ last <= Len(bytes) /\ (out[t] < last \/ last = Len(bytes))
  <2>1. CASE last = Len(bytes)
    BY <1>2, <2>1, SMT
  <2>2. CASE last \in Pieces /\ out[t] < last /\ last < Len(bytes)
    BY <1>2, <2>2, FramingAssumption, SMT
  <2> QED
    BY <1>3, <2>1, <2>2
<1> QED
  BY <1>3, <1>4, Zenon

LEMMA SendTypes ==
  ASSUME Types, Sends, NEW t \in Messages, Send(t)
  PROVE  (Types /\ Sends)'
<1>1. PICK last \in Nat :
           /\ out[t] < last \/ last = Len(Frame(text[t]))
           /\ last <= Len(Frame(text[t]))
           /\ stream' = stream \o SubSeq(Frame(text[t]), out[t] + 1, last)
           /\ taken' = taken + last - out[t]
           /\ out' = [out EXCEPT ![t] = last]
           /\ open' = IF last = Len(Frame(text[t])) THEN 0 ELSE t
           /\ wire' = IF last = Len(Frame(text[t])) THEN Append(wire, text[t]) ELSE wire
           /\ text' = IF last = Len(Frame(text[t])) \/ ~blocking
                      THEN [text EXCEPT ![t] = NoText] ELSE text
  BY SendAdds, Zenon
<1>2. /\ UNCHANGED <<sender, receiver, link, asked, rpc, dataLength, got, shown>>
      /\ text[t] # NoText /\ t \in 1 .. MaxMessages
      /\ out \in [Messages -> Nat] /\ text \in [Messages -> Texts \cup {NoText}]
      /\ stream \in Seq(Byte) /\ taken \in Nat /\ wire \in Seq(Texts)
      /\ asked \in 0 .. MaxMessages /\ MaxMessages \in Nat
  BY FramingAssumption, Zenon DEF Types, Send, receiving, Messages
<1>0. text[t] \in Texts /\ out[t] \in Nat /\ asked \in Nat /\ t \in Nat
  BY <1>2, SMT
<1>3. Frame(text[t]) \in Seq(Byte) /\ Len(Frame(text[t])) \in Nat
  BY <1>0, FrameBytes, LenProperties, Zenon
<1>4. out[t] <= Len(Frame(text[t])) /\ t <= asked
  <2>1. out[t] <= Len(Frame(text[t])) /\ ~(t > asked)
    BY <1>2, Zenon DEF Sends, SentRight
  <2> QED
    BY <1>0, <2>1, SMT
<1>5. out[t] <= last
  BY <1>0, <1>1, <1>2, <1>4, SMT
<1>6. SubSeq(Frame(text[t]), out[t] + 1, last) \in Seq(Byte)
  BY <1>0, <1>1, <1>2, <1>3, PieceBytes, SMT
<1>7. stream' \in Seq(Byte)
  BY <1>0, <1>1, <1>2, <1>6, ConcatProperties, Zenon
<1>8. taken' \in Nat
  BY <1>0, <1>1, <1>2, <1>5, SMT
<1>9. wire' \in Seq(Texts)
  BY <1>0, <1>1, <1>2, AppendProperties, Zenon
<1>10. out' \in [Messages -> Nat] /\ text' \in [Messages -> Texts \cup {NoText}]
  BY <1>0, <1>1, <1>2, Zenon
<1>11. open' \in 0 .. MaxMessages
  BY <1>0, <1>1, <1>2, SMT
<1>12. Types'
  BY <1>2, <1>7, <1>8, <1>9, <1>10, <1>11, Zenon DEF Types
<1>13. ASSUME NEW u \in Messages PROVE SentRight(u)'
  <2>1. SentRight(u)
    BY DEF Sends
  <2>2. CASE u # t
    <3>1. text'[u] = text[u] /\ out'[u] = out[u]
      BY <1>1, <1>2, <2>2, Zenon
    <3> QED
      BY <1>2, <2>1, <3>1, Zenon DEF SentRight, Frame
  <2>3. CASE u = t
    <3>1. out'[t] = last /\ (text'[t] # NoText => text'[t] = text[t])
      BY <1>1, <1>2, Zenon
    <3>2. ~(t > asked)
      BY <1>0, <1>4, SMT
    <3> QED
      BY <1>1, <1>2, <2>3, <3>1, <3>2, Zenon DEF SentRight, Frame
  <2> QED
    BY <2>2, <2>3
<1> QED
  BY <1>12, <1>13, Zenon DEF Sends, Messages

LEMMA SenderTypes ==
  ASSUME Types, Sends, Sender
  PROVE  (Types /\ Sends)'
<1>1. CASE Connect \/ ConnectTimesOut \/ ConnectedLate \/ CloseClient
  <2>1. /\ UNCHANGED <<sender, receiver, stream, asked, text, out, receiving, wire, taken, open>>
        /\ link' \in {"none", "pending", "up", "closed", "reset"}
    BY <1>1, Zenon DEF Types, Connect, ConnectTimesOut, ConnectedLate, CloseClient, CloseLink,
       sending, onWire
  <2> QED
    BY <2>1, Zenon DEF Types, Sends, SentRight, Frame, receiving
<1>2. ASSUME NEW m \in Texts, SendDataToRemoteServer(m) PROVE (Types /\ Sends)'
  <2>1. /\ UNCHANGED <<sender, receiver, stream, link, out, receiving, wire, taken, open>>
        /\ asked' = asked + 1 /\ asked < MaxMessages
        /\ text' = [text EXCEPT ![asked + 1] = m]
    BY <1>2, Zenon DEF SendDataToRemoteServer, connection, onWire
  <2>2. asked \in Nat /\ asked' \in 0 .. MaxMessages /\ asked + 1 \in Messages
    BY <2>1, FramingAssumption, SMT DEF Types, Messages
  <2>3. text \in [Messages -> Texts \cup {NoText}]
    BY DEF Types
  <2>4. text' \in [Messages -> Texts \cup {NoText}]
    BY <2>1, <2>2, <2>3, Zenon
  <2>5. Types'
    BY <2>1, <2>2, <2>4, Zenon DEF Types, receiving
  <2>6. ASSUME NEW u \in Messages PROVE SentRight(u)'
    <3>1. u > asked' => u > asked /\ u # asked + 1
      BY <2>1, <2>2, SMT DEF Messages
    <3>2. SentRight(u)
      BY DEF Sends
    <3>3. CASE u = asked + 1
      <4>1. u > asked
        BY <2>2, <3>3, SMT
      <4>2. text'[u] = m /\ out'[u] = 0
        BY <2>1, <2>2, <2>3, <3>2, <3>3, <4>1, Zenon DEF SentRight
      <4>3. 0 <= Len(Frame(m))
        BY FrameBytes, LenProperties, SMT
      <4> QED
        BY <2>1, <3>1, <3>3, <4>2, <4>3, Zenon DEF SentRight, Frame
    <3>4. CASE u # asked + 1
      <4>1. text'[u] = text[u]
        BY <2>1, <2>3, <3>4, Zenon
      <4> QED
        BY <2>1, <3>1, <3>2, <4>1, Zenon DEF SentRight, Frame
    <3> QED
      BY <3>3, <3>4
  <2> QED
    BY <2>5, <2>6, Zenon DEF Sends, Messages
<1>3. ASSUME NEW t \in Messages, Send(t) PROVE (Types /\ Sends)'
  BY <1>3, SendTypes
<1>4. ASSUME NEW t \in Messages, SendFails(t) PROVE (Types /\ Sends)'
  <2>1. /\ UNCHANGED <<sender, receiver, stream, asked, out, receiving, wire, taken, open>>
        /\ text' = [text EXCEPT ![t] = NoText]
        /\ link' \in {"none", "pending", "up", "closed", "reset"}
    BY <1>4, Zenon DEF Types, SendFails, CloseLink, onWire
  <2>2. /\ text' \in [Messages -> Texts \cup {NoText}]
        /\ \A u \in Messages : text'[u] \in {text[u], NoText}
    BY <2>1, Zenon DEF Types
  <2> QED
    BY <2>1, <2>2, Zenon DEF Types, Sends, SentRight, Frame, receiving
<1> QED
  BY <1>1, <1>2, <1>3, <1>4, Zenon DEF Sender

(* What a step of a receiver leaves alone and what it takes.               *)
LEMMA ReceiverTypes ==
  ASSUME Types, Sends, Receiver
  PROVE  (Types /\ Sends)'
<1>0. /\ sender \in {"framed", "raw"} /\ receiver \in {"framed", "raw"}
      /\ link \in {"none", "pending", "up", "closed", "reset"}
      /\ stream \in Seq(Byte) /\ got \in Seq(Byte) /\ shown \in Seq(Seq(Char))
      /\ rpc \in {"recv", "inner", "ended", "broken"} /\ dataLength \in Nat
      /\ rpc = "inner" => Len(got) < dataLength
      /\ Len(stream) \in Nat /\ Len(got) \in Nat
  BY LenProperties, Zenon DEF Types
<1>1. UNCHANGED <<sender, receiver, asked, text, out, wire, taken, open>>
  BY Zenon DEF Receiver, ReceiveBreaks, ReceiveWhole, ReceivePart, ReceiveMore, ReceiveRaw,
     PeerGone, PeerGoneRaw, recvFrame, sending, onWire
<1>2. Sends'
  BY <1>1, Zenon DEF Sends, SentRight, Frame
<1> DEFINE Kept == /\ link' \in {"none", "pending", "up", "closed", "reset"}
                   /\ stream' \in Seq(Byte) /\ got' \in Seq(Byte) /\ shown' \in Seq(Seq(Char))
                   /\ rpc' \in {"recv", "inner", "ended", "broken"} /\ dataLength' \in Nat
                   /\ rpc' = "inner" => Len(got') < dataLength'
<1>3. ASSUME NEW s \in Seq(Byte) PROVE Append(shown, CString(s)) \in Seq(Seq(Char))
  BY <1>0, PrintedBytes, AppendProperties, Zenon
<1>4. ASSUME NEW k \in 1 .. Len(stream), Recv(k)
      PROVE  /\ stream' \in Seq(Byte)
             /\ \A l \in 0 .. k : SubSeq(stream, 1, l) \in Seq(Byte) /\ Len(SubSeq(stream, 1, l)) = l
             /\ \A l \in Int : 4 + l \in 4 .. k =>
                  SubSeq(stream, 5, 4 + l) \in Seq(Byte) /\ Len(SubSeq(stream, 5, 4 + l)) = l
  <2>1. stream' = SubSeq(stream, k + 1, Len(stream))
    BY <1>4 DEF Recv
  <2>2. \A j \in Nat, l \in 0 .. Len(stream) : /\ SubSeq(stream, j + 1, l) \in Seq(Byte)
          /\ Len(SubSeq(stream, j + 1, l)) = IF j < l THEN l - j ELSE 0
    BY <1>0, PieceBytes
  <2>3. k \in Nat /\ k <= Len(stream)
    BY <1>0, SMT
  <2>4. stream' \in Seq(Byte)
    BY <1>0, <2>1, <2>2, <2>3, SMT
  <2>5. ASSUME NEW l \in 0 .. k
        PROVE  SubSeq(stream, 1, l) \in Seq(Byte) /\ Len(SubSeq(stream, 1, l)) = l
    BY <1>0, <2>2, <2>3, 0 \in Nat, 0 + 1 = 1, SMT
  <2>6. ASSUME NEW l \in Int, 4 + l \in 4 .. k
        PROVE  SubSeq(stream, 5, 4 + l) \in Seq(Byte) /\ Len(SubSeq(stream, 5, 4 + l)) = l
    BY <1>0, <2>2, <2>3, <2>6, 4 \in Nat, 4 + 1 = 5, SMT
  <2> QED
    BY <2>4, <2>5, <2>6
<1>5. ASSUME NEW k \in 1 .. Len(stream), ReceiveBreaks(k) PROVE Kept
  BY <1>0, <1>4, <1>5, Zenon DEF ReceiveBreaks
<1>6. ASSUME NEW k \in 1 .. Len(stream), ReceiveWhole(k) PROVE Kept
  <2>1. Header(k) \in 0 .. k - 4 /\ Recv(k) /\ UNCHANGED <<link, rpc, dataLength, got>>
        /\ shown' = Append(shown, CString(SubSeq(stream, 5, 4 + Header(k))))
    BY <1>6, Zenon DEF ReceiveWhole, Show
  <2>2. Header(k) \in Int /\ 4 + Header(k) \in 4 .. k
    BY <1>0, <2>1, SMT
  <2> QED
    BY <1>0, <1>3, <1>4, <2>1, <2>2, Zenon
<1>7. ASSUME NEW k \in 1 .. Len(stream), ReceivePart(k) PROVE Kept
  <2>1. Header(k) > k - 4 /\ k >= 4 /\ Recv(k) /\ UNCHANGED <<link, shown>>
        /\ rpc' = "inner" /\ dataLength' = Header(k) /\ got' = SubSeq(stream, 5, k)
    BY <1>7, Zenon DEF ReceivePart
  <2>2. Header(k) \in Nat /\ k - 4 \in Int /\ 4 + (k - 4) = k /\ k \in 4 .. k
    BY <1>0, <2>1, HeaderRead, SMT
  <2>3. got' \in Seq(Byte) /\ Len(got') = k - 4
    BY <1>4, <2>1, <2>2, Zenon
  <2>4. Len(got') < dataLength'
    BY <2>1, <2>2, <2>3, SMT
  <2> QED
    BY <1>0, <1>4, <2>1, <2>2, <2>3, <2>4, Zenon
<1>8. ASSUME NEW k \in 1 .. Len(stream), ReceiveMore(k) PROVE Kept
  <2> DEFINE room == dataLength - Len(got)
  <2>1. Recv(k) /\ rpc = "inner" /\ UNCHANGED link
    BY <1>8, Zenon DEF ReceiveMore
  <2>2. room \in Nat /\ k \in Nat
    BY <1>0, <2>1, SMT
  <2>3. CASE k >= room
    <3>1. /\ shown' = Append(shown, CString(got \o SubSeq(stream, 1, room)))
          /\ rpc' = "recv" /\ got' = <<>> /\ dataLength' = 0
      BY <1>8, <2>3, Zenon DEF ReceiveMore, Show
    <3>2. room \in 0 .. k
      BY <2>2, <2>3, SMT
    <3>3. got \o SubSeq(stream, 1, room) \in Seq(Byte)
      BY <1>0, <1>4, <2>1, <3>2, ConcatProperties, Zenon
    <3>4. <<>> \in Seq(Byte) /\ 0 \in Nat
      BY EmptySeq
    <3>5. shown' \in Seq(Seq(Char))
      BY <1>3, <3>1, <3>3, Zenon
    <3> HIDE DEF room
    <3> QED
      BY <1>0, <1>4, <2>1, <3>1, <3>4, <3>5
  <2>4. CASE ~(k >= room)
    <3>1. got' = got \o SubSeq(stream, 1, k) /\ UNCHANGED <<rpc, dataLength, shown>>
      BY <1>8, <2>4, Zenon DEF ReceiveMore
    <3>2. k \in 0 .. k
      BY <2>2, SMT
    <3>3. got' \in Seq(Byte) /\ Len(got') = Len(got) + k
      <4>1. SubSeq(stream, 1, k) \in Seq(Byte) /\ Len(SubSeq(stream, 1, k)) = k
        BY <1>4, <2>1, <3>2, Zenon
      <4>2. /\ got \o SubSeq(stream, 1, k) \in Seq(Byte)
            /\ Len(got \o SubSeq(stream, 1, k)) = Len(got) + Len(SubSeq(stream, 1, k))
        BY <1>0, <4>1, ConcatProperties, Zenon
      <4> QED
        BY <3>1, <4>1, <4>2, Zenon
    <3>4. Len(got') < dataLength'
      BY <1>0, <2>2, <2>4, <3>1, <3>3, SMT
    <3> QED
      BY <1>0, <1>4, <2>1, <3>1, <3>3, <3>4, Zenon
  <2> QED
    BY <2>3, <2>4
<1>9. ASSUME NEW k \in 1 .. Len(stream), ReceiveRaw(k) PROVE Kept
  <2>1. Recv(k) /\ UNCHANGED <<link, rpc, dataLength, got>>
        /\ shown' = Append(shown, CString(SubSeq(stream, 1, k)))
    BY <1>9, Zenon DEF ReceiveRaw, Show
  <2>2. k \in 0 .. k
    BY <1>0, SMT
  <2> QED
    BY <1>0, <1>3, <1>4, <2>1, <2>2, Zenon
<1>10. ASSUME PeerGone PROVE Kept
  <2>1. Append(shown, CString(got)) \in Seq(Seq(Char)) /\ <<>> \in Seq(Byte) /\ 0 \in Nat
    BY <1>0, <1>3, EmptySeq
  <2>2. /\ link' = "reset" /\ stream' = stream /\ rpc' \in {"ended", "recv"}
        /\ \/ UNCHANGED <<dataLength, got, shown>>
           \/ got' = <<>> /\ dataLength' = 0 /\ shown' = Append(shown, CString(got))
    BY <1>10, Zenon DEF PeerGone, Show
  <2> QED
    BY <1>0, <2>1, <2>2
<1>11. ASSUME PeerGoneRaw PROVE Kept
  <2>1. Append(shown, CString(<<>>)) \in Seq(Seq(Char))
    BY <1>3, EmptySeq
  <2>2. /\ link' = "reset" /\ rpc' = "ended" /\ UNCHANGED <<stream, dataLength, got>>
        /\ shown' = Append(shown, CString(<<>>))
    BY <1>11, Zenon DEF PeerGoneRaw, Show
  <2> QED
    BY <1>0, <2>1, <2>2
<1> HIDE DEF Kept
<1>12. Kept
  BY <1>5, <1>6, <1>7, <1>8, <1>9, <1>10, <1>11 DEF Receiver
<1>13. Types'
  BY <1>1, <1>12, Zenon DEF Types, Kept
<1> QED
  BY <1>2, <1>13

LEMMA TypesStep ==
  ASSUME Types, Sends, Next
  PROVE  (Types /\ Sends)'
<1>1. CASE Reset
  <2>1. <<>> \in Seq(Byte)
    BY EmptySeq
  <2> QED
    BY <1>1, <2>1, Zenon DEF Types, Sends, SentRight, Frame, Reset, sending, receiving, onWire
<1> QED
  BY <1>1, SenderTypes, ReceiverTypes DEF Next

-----------------------------------------------------------------------------
(* Raw texts at a framed receiver: no byte of the stream is zero, so that  *)
(* whatever it takes for a length is no length of a message.               *)
RawSent ==
    sender = "raw" /\ receiver = "framed" =>
      /\ stream \in Seq(Char)
      /\ Len(stream) + Len(got) <= taken
      /\ rpc = "inner" => dataLength >= Huge
      /\ shown # <<>> => link = "reset" \/ taken >= Huge

LEMMA LengthSign ==
  ASSUME NEW p \in Int, NEW q \in Nat, NEW r \in Nat, NEW s \in Nat,
         q < 256, r < 256, s < 256, p >= 1 \/ p <= -1, NEW n, n = p * 2^24 + q * 2^16 + r * 2^8 + s
  PROVE  n \in Int /\ (n < 0 \/ n >= 2^24)
  BY SMT

LEMMA RawHeader ==
  ASSUME Types, stream \in Seq(Char), NEW k \in 1 .. Len(stream)
  PROVE  Header(k) \in Int /\ (Header(k) < 0 \/ Header(k) >= Huge)
<1> DEFINE b == [j \in 1 .. 4 |-> IF j <= k THEN stream[j] ELSE 0]
<1>1. Header(k) = bytesToInt(b)
  BY Zenon DEF Header
<1>2. stream[1] \in Char /\ 1 <= k
  BY SMT DEF Types
<1>3. \A j \in 1 .. 4 : (IF j <= k THEN stream[j] ELSE 0) \in Byte
  <2>1. \A j \in 1 .. Len(stream) : stream[j] \in Byte
    BY SMT DEF Types
  <2>2. 0 \in Byte
    BY SMT DEF Byte
  <2> QED
    BY <2>1, <2>2, SMT DEF Types
<1>4. \A j \in 1 .. 4 : b[j] = IF j <= k THEN stream[j] ELSE 0
  BY Zenon
<1>5. b[1] \in Char /\ b[2] \in Byte /\ b[3] \in Byte /\ b[4] \in Byte
  BY <1>2, <1>3, <1>4, SMT
<1> HIDE DEF b
<1>6. /\ b[1] \in Nat /\ b[1] # 0 /\ b[1] < 256 /\ b[2] \in Nat /\ b[2] < 256
      /\ b[3] \in Nat /\ b[3] < 256 /\ b[4] \in Nat /\ b[4] < 256
  BY <1>5, ByteRange, SMT
<1>7. bytesToInt(b) \in Int /\ (bytesToInt(b) < 0 \/ bytesToInt(b) >= 2^24)
  <2> DEFINE top == IF b[1] < 128 THEN b[1] ELSE b[1] - 256
  <2>1. bytesToInt(b) = top * 2^24 + b[2] * 2^16 + b[3] * 2^8 + b[4]
    BY Zenon DEF bytesToInt
  <2>2. top \in Int /\ (top >= 1 \/ top <= -1)
    BY <1>6, SMT
  <2> HIDE DEF top
  <2> QED
    BY <1>6, <2>1, <2>2, LengthSign, Zenon
<1> QED
  BY <1>1, <1>7, Zenon DEF Huge

LEMMA RawSentStep ==
  ASSUME Types, Sends, RawSent, Next
  PROVE  RawSent'
<1>0. /\ Len(stream) \in Nat /\ Len(got) \in Nat /\ taken \in Nat
      /\ stream \in Seq(Byte) /\ got \in Seq(Byte) /\ dataLength \in Nat
  BY LenProperties, Zenon DEF Types
<1>1. UNCHANGED <<sender, receiver>>
  BY Zenon DEF Next, Sender, Receiver, Reset, Connect, ConnectTimesOut, ConnectedLate,
     SendDataToRemoteServer, Send, SendFails, CloseClient, ReceiveBreaks, ReceiveWhole, ReceivePart,
     ReceiveMore, ReceiveRaw, PeerGone, PeerGoneRaw, connection, recvFrame
<1> SUFFICES ASSUME sender = "raw", receiver = "framed"
             PROVE  /\ stream' \in Seq(Char)
                    /\ Len(stream') + Len(got') <= taken'
                    /\ rpc' = "inner" => dataLength' >= Huge
                    /\ shown' # <<>> => link' = "reset" \/ taken' >= Huge
  BY <1>1, Zenon DEF RawSent
<1>2. /\ stream \in Seq(Char)
      /\ Len(stream) + Len(got) <= taken
      /\ rpc = "inner" => dataLength >= Huge
      /\ shown # <<>> => link = "reset" \/ taken >= Huge
  BY Zenon DEF RawSent
<1>3. CASE Connect \/ ConnectTimesOut \/ ConnectedLate \/ CloseClient
           \/ (\E m \in Texts : SendDataToRemoteServer(m)) \/ \E t \in Messages : SendFails(t)
  <2>1. /\ UNCHANGED <<stream, got, taken, rpc, dataLength, shown>>
        /\ link = "reset" => link' = "reset"
    BY <1>3 DEF Connect, ConnectTimesOut, ConnectedLate, CloseClient, SendDataToRemoteServer,
       SendFails, CloseLink, connection, receiving, onWire
  <2> QED
    BY <1>2, <2>1, Zenon
<1>4. ASSUME NEW t \in Messages, Send(t)
      PROVE  /\ stream' \in Seq(Char) /\ Len(stream') + Len(got') <= taken'
             /\ UNCHANGED <<rpc, dataLength, shown, link, got>> /\ taken <= taken'
  <2>1. UNCHANGED <<rpc, dataLength, shown, link, got>> /\ text[t] # NoText
    BY <1>4, Zenon DEF Send, receiving
  <2>2. PICK last \in Nat : /\ out[t] < last \/ last = Len(Frame(text[t]))
                            /\ last <= Len(Frame(text[t]))
                            /\ stream' = stream \o SubSeq(Frame(text[t]), out[t] + 1, last)
                            /\ taken' = taken + last - out[t]
    BY <1>4, SendAdds, Zenon
  <2>3. text[t] \in Texts /\ out[t] \in Nat
    BY <2>1, Zenon DEF Types
  <2>4. Frame(text[t]) = text[t] /\ text[t] \in Seq(Char)
    BY <2>3, TextBytes, Zenon, "raw" # "framed" DEF Frame
  <2>5. out[t] <= Len(text[t]) /\ Len(text[t]) \in Nat
    BY <2>1, <2>4, LenProperties, Zenon DEF Sends, SentRight
  <2> DEFINE piece == SubSeq(text[t], out[t] + 1, last)
  <2>6. piece \in Seq(Char) /\ Len(piece) = last - out[t]
    <3>1. last <= Len(text[t]) /\ out[t] <= last
      BY <2>2, <2>3, <2>4, <2>5, SMT
    <3> QED
      BY <2>2, <2>3, <2>4, <2>5, <3>1, SMT
  <2>7. stream' \in Seq(Char) /\ Len(stream') = Len(stream) + Len(piece)
    BY <1>2, <2>2, <2>4, <2>6, ConcatProperties, Zenon
  <2> HIDE DEF piece
  <2>8. out[t] <= last
    BY <2>2, <2>3, <2>4, <2>5, SMT
  <2>9. taken' = taken + Len(piece)
    BY <1>0, <2>2, <2>3, <2>6, <2>8, SMT
  <2>10. Len(piece) \in Nat
    BY <2>6, LenProperties
  <2>11. Len(stream') + Len(got) <= taken' /\ taken <= taken'
    BY <1>0, <1>2, <2>7, <2>9, <2>10, SMT
  <2> QED
    BY <2>1, <2>7, <2>11, Zenon
<1>5. CASE Reset
  <2>1. stream' = <<>> /\ link' = "reset" /\ UNCHANGED <<got, taken, rpc, dataLength, shown>>
    BY <1>5, Zenon DEF Reset, receiving, onWire
  <2> QED
    BY <1>0, <1>2, <2>1, SMT
<1>6. ASSUME NEW k \in 1 .. Len(stream), Recv(k)
      PROVE  stream' \in Seq(Char) /\ Len(stream') = Len(stream) - k /\ k \in Nat
  BY <1>0, <1>2, <1>6, SMT DEF Recv
<1>7. CASE Receiver
  <2>0. taken' = taken
    BY <1>7, Zenon DEF Receiver, ReceiveBreaks, ReceiveWhole, ReceivePart, ReceiveMore, ReceiveRaw,
       PeerGone, PeerGoneRaw, recvFrame, onWire
  <2>1. ASSUME NEW k \in 1 .. Len(stream), ReceiveBreaks(k)
        PROVE  /\ Recv(k) /\ rpc' = "broken" /\ link' = "reset" /\ got' = got
    BY <2>1, Zenon DEF ReceiveBreaks
  <2>2. ASSUME NEW k \in 1 .. Len(stream), ReceiveWhole(k)
        PROVE  Recv(k) /\ UNCHANGED <<rpc, dataLength, got>> /\ taken >= Huge
    <3>1. Recv(k) /\ UNCHANGED <<rpc, dataLength, got>> /\ Header(k) \in 0 .. k - 4
      BY <2>2, Zenon DEF ReceiveWhole
    <3> QED
      BY <1>0, <1>2, <3>1, RawHeader, SMT DEF Huge
  <2>3. ASSUME NEW k \in 1 .. Len(stream), ReceivePart(k)
        PROVE  /\ Recv(k) /\ dataLength' >= Huge /\ UNCHANGED <<shown, link>>
               /\ Len(got') = k - 4 /\ k >= 4
    <3>1. /\ Recv(k) /\ dataLength' = Header(k) /\ Header(k) > k - 4 /\ k >= 4
          /\ got' = SubSeq(stream, 5, k) /\ UNCHANGED <<shown, link>>
      BY <2>3, Zenon DEF ReceivePart
    <3>2. Header(k) >= Huge
      BY <1>0, <1>2, <3>1, RawHeader, SMT
    <3>3. Len(got') = k - 4
      BY <1>0, <3>1, SMT
    <3> QED
      BY <3>1, <3>2, <3>3
  <2>4. ASSUME NEW k \in 1 .. Len(stream), ReceiveMore(k)
        PROVE  /\ Recv(k) /\ rpc = "inner" /\ link' = link
               /\ \/ k >= dataLength - Len(got) /\ rpc' = "recv" /\ got' = <<>>
                  \/ /\ got' = got \o SubSeq(stream, 1, k)
                     /\ UNCHANGED <<rpc, dataLength, shown>>
    BY <2>4, Zenon DEF ReceiveMore
  <2>5. CASE PeerGone
    <3>1. link' = "reset" /\ UNCHANGED stream /\ rpc' # "inner" /\ (got' = got \/ got' = <<>>)
      BY <2>5 DEF PeerGone
    <3> QED
      BY <1>0, <1>2, <2>0, <3>1, SMT
  <2>6. ASSUME NEW k \in 1 .. Len(stream), ReceiveBreaks(k) \/ ReceiveWhole(k) \/ ReceivePart(k)
        PROVE  /\ stream' \in Seq(Char)
               /\ Len(stream') + Len(got') <= taken'
               /\ rpc' = "inner" => dataLength' >= Huge
               /\ shown' # <<>> => link' = "reset" \/ taken' >= Huge
    <3>1. CASE ReceiveBreaks(k)
      BY <1>0, <1>2, <1>6, <2>0, <2>1, <3>1, SMT
    <3>2. CASE ReceiveWhole(k)
      BY <1>0, <1>2, <1>6, <2>0, <2>2, <3>2, SMT
    <3>3. CASE ReceivePart(k)
      <4>1. /\ stream' \in Seq(Char) /\ Len(stream') = Len(stream) - k /\ k \in Nat /\ k >= 4
            /\ Len(got') = k - 4 /\ dataLength' >= Huge /\ UNCHANGED <<shown, link, taken>>
        BY <1>6, <2>0, <2>3, <3>3, Zenon
      <4>2. Len(stream') + Len(got') <= taken'
        BY <1>0, <1>2, <4>1, SMT
      <4> QED
        BY <1>2, <4>1, <4>2, Zenon
    <3> QED
      BY <2>6, <3>1, <3>2, <3>3
  <2>7. ASSUME NEW k \in 1 .. Len(stream), ReceiveMore(k)
        PROVE  /\ stream' \in Seq(Char)
               /\ Len(stream') + Len(got') <= taken'
               /\ rpc' = "inner" => dataLength' >= Huge
               /\ shown' # <<>> => link' = "reset" \/ taken' >= Huge
    <3>1. /\ stream' \in Seq(Char) /\ Len(stream') = Len(stream) - k /\ k \in Nat
          /\ rpc = "inner" /\ UNCHANGED <<link, taken>>
      BY <1>6, <2>0, <2>4, <2>7, Zenon
    <3>2. CASE k >= dataLength - Len(got) /\ rpc' = "recv" /\ got' = <<>>
      <4>1. k <= Len(stream) /\ dataLength >= Huge /\ Huge \in Nat
        BY <1>0, <1>2, <3>1, SMT DEF Huge
      <4>2. taken >= Huge
        BY <1>0, <1>2, <3>1, <3>2, <4>1, SMT
      <4>3. Len(stream') + Len(got') <= taken'
        BY <1>0, <1>2, <3>1, <3>2, SMT
      <4> QED
        BY <3>1, <3>2, <4>2, <4>3
    <3>3. CASE got' = got \o SubSeq(stream, 1, k) /\ UNCHANGED <<rpc, dataLength, shown>>
      <4>1. SubSeq(stream, 1, k) \in Seq(Byte) /\ Len(SubSeq(stream, 1, k)) = k
        BY <1>0, <3>1, SMT
      <4>2. Len(got') = Len(got) + Len(SubSeq(stream, 1, k))
        BY <1>0, <3>3, <4>1, ConcatProperties, Zenon
      <4>3. Len(stream') + Len(got') <= taken'
        BY <1>0, <1>2, <3>1, <4>1, <4>2, SMT
      <4> QED
        BY <1>2, <3>1, <3>3, <4>3, Zenon
    <3> QED
      BY <2>4, <2>7, <3>2, <3>3, Zenon
  <2> QED
    BY <1>7, <2>5, <2>6, <2>7 DEF Receiver, ReceiveRaw, PeerGoneRaw
<1>8. CASE \E t \in Messages : Send(t)
  <2>1. /\ stream' \in Seq(Char) /\ Len(stream') + Len(got') <= taken'
        /\ UNCHANGED <<rpc, dataLength, shown, link, got>> /\ taken <= taken' /\ taken' \in Nat
    BY <1>4, <1>8, TypesStep, Zenon DEF Types
  <2> QED
    BY <1>0, <1>2, <2>1, SMT DEF Huge
<1> QED
  BY <1>3, <1>5, <1>7, <1>8, Zenon DEF Next, Sender

IInv == Flags /\ Types /\ Sends /\ RawSent

LEMMA Invariance == Spec => []IInv
<1>1. Init => IInv
  <2>1. Init => RawSent
    <3> SUFFICES ASSUME Init PROVE RawSent
      OBVIOUS
    <3>1. stream = <<>> /\ got = <<>> /\ taken = 0 /\ rpc = "recv" /\ shown = <<>>
      BY DEF Init
    <3>2. <<>> \in Seq(Char) /\ Len(<<>>) = 0
      BY EmptySeq
    <3> QED
      BY <3>1, <3>2 DEF RawSent
  <2> QED
    BY <2>1, InitTypes DEF IInv
<1>2. IInv /\ [Next]_vars => IInv'
  <2>1. IInv /\ Next => IInv'
    BY FlagsStep, TypesStep, RawSentStep, Zenon DEF IInv
  <2>2. IInv /\ UNCHANGED vars => IInv'
    BY Zenon DEF IInv, Flags, Types, Sends, SentRight, Frame, RawSent, vars, connection, sending,
       receiving, onWire
  <2> QED
    BY <2>1, <2>2
<1> QED
  BY <1>1, <1>2, PTL DEF Spec, Safety

(* Every variable of a connection stays in its range, whatever the pieces. *)
THEOREM FramingTypeCorrect == Spec => []TypeOK
<1>1. IInv => TypeOK
  BY TypeParts DEF IInv
<1> QED
  BY Invariance, <1>1, PTL

(* A framed receiver shows nothing of a raw sender before 16 megabytes.    *)
THEOREM RawNeverShown == Spec => []RawNotShown
<1>1. IInv => RawNotShown
  BY Zenon DEF IInv, RawSent, RawNotShown
<1> QED
  BY Invariance, <1>1, PTL

-----------------------------------------------------------------------------
(* Bytes and messages.  Ends(e, s, d, ws, n): e[j] is where message j of   *)
(* ws ends in the bytes that were sent, s is what follows the first d      *)
(* messages, and n bytes of it follow the last.                            *)

Framed(m) == intToByte(Len(m)) \o m

Agree(s, from, m, n) == \A x \in 1 .. n : s[from + x] = Framed(m)[x]

Ends(e, s, d, ws, n) ==
    /\ e \in [0 .. Len(ws) -> Nat]
    /\ \A j, k \in 0 .. Len(ws) : j <= k => e[j] <= e[k]
    /\ d <= Len(ws)
    /\ Len(s) = e[Len(ws)] - e[d] + n
    /\ \A j \in 1 .. Len(ws) : j > d =>
         /\ e[j] = e[j - 1] + Len(Framed(ws[j]))
         /\ Agree(s, e[j - 1] - e[d], ws[j], Len(Framed(ws[j])))

LEMMA FramedBytes ==
  ASSUME NEW m \in Texts
  PROVE  /\ Framed(m) \in Seq(Byte)
         /\ Len(Framed(m)) \in Nat /\ Len(Framed(m)) = 4 + Len(m)
         /\ \A x \in 1 .. 4 : Framed(m)[x] = intToByte(Len(m))[x]
         /\ \A x \in 1 .. Len(m) : Framed(m)[4 + x] = m[x]
<1> DEFINE b == intToByte(Len(m))
<1>1. m \in Seq(Byte) /\ Len(m) \in Nat /\ b \in Seq(Byte) /\ Len(b) = 4
  BY TextBytes, LengthBytes
<1> HIDE DEF b
<1>2. /\ b \o m \in Seq(Byte)
      /\ Len(b \o m) = Len(b) + Len(m)
      /\ \A x \in 1 .. Len(b) + Len(m) : (b \o m)[x] = IF x <= Len(b) THEN b[x] ELSE m[x - Len(b)]
  BY <1>1, ConcatProperties, Zenon
<1>3. \A x \in 1 .. 4 : (b \o m)[x] = b[x]
  BY <1>1, <1>2, SMT
<1>4. ASSUME NEW x \in 1 .. Len(m) PROVE (b \o m)[4 + x] = m[x]
  <2>1. 4 + x \in 1 .. Len(b) + Len(m) /\ ~(4 + x <= Len(b)) /\ 4 + x - Len(b) = x
    BY <1>1, SMT
  <2>2. (b \o m)[4 + x] = m[4 + x - Len(b)]
    BY <1>2, <2>1
  <2> QED
    BY <2>1, <2>2, Zenon
<1>5. Len(b \o m) = 4 + Len(m) /\ Len(b \o m) \in Nat
  BY <1>1, <1>2, SMT
<1> QED
  BY <1>2, <1>3, <1>4, <1>5, Zenon DEF Framed, b

(* A sequence that starts like a framed text starts with its length.       *)
LEMMA LengthOfFrame ==
  ASSUME NEW m \in Texts, NEW b, \A x \in 1 .. 4 : b[x] = Framed(m)[x]
  PROVE  bytesToInt(b) = Len(m)
<1>1. \A x \in 1 .. 4 : b[x] = intToByte(Len(m))[x]
  BY FramedBytes, Zenon
<1>2. bytesToInt(b) = bytesToInt(intToByte(Len(m)))
  <2>1. /\ b[1] = intToByte(Len(m))[1] /\ b[2] = intToByte(Len(m))[2]
        /\ b[3] = intToByte(Len(m))[3] /\ b[4] = intToByte(Len(m))[4]
    BY <1>1, SMT
  <2> QED
    BY <2>1, Zenon DEF bytesToInt
<1>3. Len(m) \in Nat /\ Len(m) < 2^31
  BY TextBytes, SMT DEF Huge
<1> QED
  BY <1>2, <1>3, LengthSurvives, Zenon

(* Positions.                                                              *)
LEMMA Within ==
  ASSUME NEW a \in Nat, NEW b \in Nat, NEW c \in Nat, NEW g \in Nat, NEW n \in Nat, NEW k \in Nat,
         NEW z, z = c - g + n, b = a + k, b <= c, g <= a, NEW x \in 1 .. k
  PROVE  a - g + x \in 1 .. z
  BY SMT

LEMMA Rest ==
  ASSUME NEW a \in Nat, NEW b \in Nat, NEW c \in Nat, NEW n \in Nat, NEW k \in Nat,
         NEW z, z = c - a + n, b = a + k
  PROVE  z - k = c - b + n
  BY SMT

LEMMA RestWithin ==
  ASSUME NEW a \in Nat, NEW b \in Nat, NEW c \in Nat, NEW n \in Nat, NEW k \in Nat,
         NEW z, z = c - a + n, b = a + k,
         NEW g \in Nat, NEW l \in Nat, b <= g, g + l <= c + n, NEW x \in 1 .. l
  PROVE  g - b + x \in 1 .. z - k /\ k + (g - b + x) = g - a + x
  BY SMT

(* More of the message that is being sent.                                 *)
LEMMA Stretch ==
  ASSUME NEW ws \in Seq(Texts), NEW s \in Seq(Byte), NEW d \in Nat, NEW n \in Nat, NEW e,
         NEW m \in Texts, NEW l \in Nat, n <= l, l <= Len(Framed(m)),
         Ends(e, s, d, ws, n), Agree(s, e[Len(ws)] - e[d], m, n)
  PROVE  LET r == s \o SubSeq(Framed(m), n + 1, l)
         IN  Ends(e, r, d, ws, l) /\ Agree(r, e[Len(ws)] - e[d], m, l)
<1> DEFINE p == SubSeq(Framed(m), n + 1, l)
           r == s \o p
           base == e[Len(ws)] - e[d]
<1>1. Framed(m) \in Seq(Byte) /\ Len(Framed(m)) \in Nat
  BY FramedBytes
<1>2. p \in Seq(Byte) /\ Len(p) = l - n /\ \A x \in 1 .. l - n : p[x] = Framed(m)[n + x]
  BY <1>1, SMT
<1>3. Len(ws) \in Nat /\ Len(s) \in Nat /\ d \in 0 .. Len(ws)
  BY LenProperties, SMT DEF Ends
<1>4. e[Len(ws)] \in Nat /\ e[d] \in Nat /\ e[d] <= e[Len(ws)] /\ Len(s) = base + n
  BY <1>3, SMT DEF Ends
<1> HIDE DEF p, base
<1>5. /\ r \in Seq(Byte) /\ Len(r) = Len(s) + Len(p)
      /\ \A x \in 1 .. Len(s) + Len(p) : r[x] = IF x <= Len(s) THEN s[x] ELSE p[x - Len(s)]
  BY <1>2, ConcatProperties, Zenon
<1> HIDE DEF r
<1>6. base \in Nat
  BY <1>3, <1>4, SMT DEF base
<1>7. ASSUME NEW x \in 1 .. Len(s) PROVE r[x] = s[x]
  <2>1. x \in 1 .. Len(s) + Len(p) /\ x <= Len(s)
    BY <1>2, <1>3, SMT
  <2> QED
    BY <1>5, <2>1, Zenon
<1>8. Len(r) = base + l
  BY <1>2, <1>3, <1>4, <1>5, <1>6, SMT
<1>9. ASSUME NEW j \in 1 .. Len(ws), j > d
      PROVE  Agree(r, e[j - 1] - e[d], ws[j], Len(Framed(ws[j])))
  <2>1. Agree(s, e[j - 1] - e[d], ws[j], Len(Framed(ws[j]))) /\ e[j] = e[j - 1] + Len(Framed(ws[j]))
    BY <1>9, Zenon DEF Ends
  <2>2. /\ e[j - 1] \in Nat /\ e[j] \in Nat /\ e[d] <= e[j - 1] /\ e[j] <= e[Len(ws)]
        /\ ws[j] \in Texts
    <3>1. /\ j - 1 \in 0 .. Len(ws) /\ d <= j - 1 /\ j \in 0 .. Len(ws)
          /\ Len(ws) \in 0 .. Len(ws) /\ j <= Len(ws)
      BY <1>3, <1>9, SMT
    <3> QED
      BY <1>3, <3>1, ElementOfSeq, Zenon DEF Ends
  <2>3. Len(Framed(ws[j])) \in Nat
    BY <2>2, FramedBytes
  <2>4. ASSUME NEW x \in 1 .. Len(Framed(ws[j])) PROVE e[j - 1] - e[d] + x \in 1 .. Len(s)
    <3>1. Len(s) = e[Len(ws)] - e[d] + n
      BY <1>4 DEF base
    <3> QED
      BY <1>4, <2>1, <2>2, <2>3, <3>1, Within, Zenon
  <2> QED
    BY <1>7, <2>1, <2>4, Zenon DEF Agree
<1>10. ASSUME NEW x \in 1 .. l PROVE r[base + x] = Framed(m)[x]
  <2>1. CASE x <= n
    <3>1. s[base + x] = Framed(m)[x]
      BY <2>1, SMT DEF Agree, base
    <3>2. base + x \in 1 .. Len(s)
      BY <1>4, <1>6, <2>1, SMT
    <3> QED
      BY <1>7, <3>1, <3>2, Zenon
  <2>2. CASE x > n
    <3>1. PICK y : y = base + x
      OBVIOUS
    <3>2. /\ y \in 1 .. Len(s) + Len(p) /\ ~(y <= Len(s))
          /\ y - Len(s) = x - n /\ x - n \in 1 .. l - n /\ n + (x - n) = x
      BY <1>2, <1>3, <1>4, <1>6, <2>2, <3>1, SMT
    <3>3. r[y] = p[y - Len(s)]
      BY <1>5, <3>2
    <3>4. p[x - n] = Framed(m)[n + (x - n)]
      BY <1>2, <3>2, Zenon
    <3> QED
      BY <3>1, <3>2, <3>3, <3>4, Zenon
  <2> QED
    BY <2>1, <2>2, SMT
<1>11. Ends(e, r, d, ws, l)
  BY <1>8, <1>9, Zenon DEF Ends, base
<1>12. Agree(r, e[Len(ws)] - e[d], m, l)
  BY <1>10, Zenon DEF Agree, base
<1> QED
  BY <1>11, <1>12, Zenon DEF r, p

(* The message that is being sent is complete.                             *)
LEMMA Finish ==
  ASSUME NEW ws \in Seq(Texts), NEW s \in Seq(Byte), NEW d \in Nat, NEW e, NEW m \in Texts,
         Ends(e, s, d, ws, Len(Framed(m))),
         Agree(s, e[Len(ws)] - e[d], m, Len(Framed(m)))
  PROVE  \E f : Ends(f, s, d, Append(ws, m), 0)
<1> DEFINE L == Len(ws)
           W == Append(ws, m)
           F == Len(Framed(m))
           f == [j \in 0 .. L + 1 |-> IF j = L + 1 THEN e[L] + F ELSE e[j]]
<1>1. F \in Nat
  BY FramedBytes
<1>2. /\ L \in Nat /\ Len(W) = L + 1 /\ W[L + 1] = m
      /\ \A j \in 1 .. L : W[j] = ws[j]
  BY AppendProperties, LenProperties
<1>3. /\ e \in [0 .. L -> Nat]
      /\ \A j, k \in 0 .. L : j <= k => e[j] <= e[k]
      /\ d <= L /\ Len(s) = e[L] - e[d] + F
      /\ \A j \in 1 .. L : j > d =>
           /\ e[j] = e[j - 1] + Len(Framed(ws[j]))
           /\ Agree(s, e[j - 1] - e[d], ws[j], Len(Framed(ws[j])))
      /\ Agree(s, e[L] - e[d], m, F)
  BY Zenon DEF Ends
<1> HIDE DEF L, W, F
<1>4. /\ f[L + 1] = e[L] + F /\ \A j \in 0 .. L : f[j] = e[j]
      /\ f \in [0 .. L + 1 -> Nat]
  BY <1>1, <1>2, <1>3, SMT
<1> HIDE DEF f
<1>5. \A j, k \in 0 .. L + 1 : j <= k => f[j] <= f[k]
  <2> SUFFICES ASSUME NEW j \in 0 .. L + 1, NEW k \in 0 .. L + 1, j <= k PROVE f[j] <= f[k]
    OBVIOUS
  <2>1. CASE k \in 0 .. L
    BY <1>2, <1>3, <1>4, <2>1, SMT
  <2>2. CASE k = L + 1
    <3>1. e[L] \in Nat /\ \A i0 \in 0 .. L : e[i0] \in Nat /\ e[i0] <= e[L]
      BY <1>2, <1>3, SMT
    <3>2. j = L + 1 \/ j \in 0 .. L
      BY <1>2, SMT
    <3> QED
      BY <1>1, <1>2, <1>4, <2>2, <3>1, <3>2, SMT
  <2> QED
    BY <1>2, <2>1, <2>2, SMT
<1>6. d \in 0 .. L
  BY <1>2, <1>3, SMT
<1>7. Len(s) = f[L + 1] - f[d] + 0
  BY <1>1, <1>2, <1>3, <1>4, <1>6, SMT
<1>8. ASSUME NEW j \in 1 .. L + 1, j > d
      PROVE  /\ f[j] = f[j - 1] + Len(Framed(W[j]))
             /\ Agree(s, f[j - 1] - f[d], W[j], Len(Framed(W[j])))
  <2>1. j - 1 \in 0 .. L /\ (j = L + 1 => j - 1 = L) /\ (j # L + 1 => j \in 1 .. L /\ j \in 0 .. L)
    BY <1>2, SMT
  <2>2. f[j - 1] = e[j - 1] /\ f[d] = e[d]
    BY <1>4, <1>6, <2>1, Zenon
  <2>3. CASE j = L + 1
    BY <1>2, <1>3, <1>4, <2>1, <2>2, <2>3, Zenon DEF F
  <2>4. CASE j # L + 1
    BY <1>2, <1>3, <1>4, <1>8, <2>1, <2>2, <2>4, Zenon
  <2> QED
    BY <2>3, <2>4
<1>9. d <= L + 1
  BY <1>2, <1>3, SMT
<1>10. Ends(f, s, d, W, 0)
  BY <1>2, <1>4, <1>5, <1>7, <1>8, <1>9, Zenon DEF Ends
<1> QED
  BY <1>10, Zenon DEF W

(* What s starts with.                                                     *)
LEMMA First ==
  ASSUME NEW ws \in Seq(Texts), NEW s \in Seq(Byte), NEW d \in Nat, NEW n \in Nat, NEW e,
         Ends(e, s, d, ws, n)
  PROVE  /\ d < Len(ws) => /\ ws[d + 1] \in Texts
                           /\ Len(Framed(ws[d + 1])) <= Len(s)
                           /\ Agree(s, 0, ws[d + 1], Len(Framed(ws[d + 1])))
         /\ ~(d < Len(ws)) => d = Len(ws) /\ Len(s) = n /\ e[Len(ws)] - e[d] = 0
<1>1. Len(ws) \in Nat /\ Len(s) \in Nat /\ d \in 0 .. Len(ws)
  BY LenProperties, SMT DEF Ends
<1>2. e[d] \in Nat /\ e[d] - e[d] = 0 /\ Len(s) = e[Len(ws)] - e[d] + n
  BY <1>1, SMT DEF Ends
<1>3. ASSUME d < Len(ws)
      PROVE  /\ ws[d + 1] \in Texts
             /\ Len(Framed(ws[d + 1])) <= Len(s)
             /\ Agree(s, 0, ws[d + 1], Len(Framed(ws[d + 1])))
  <2>1. d + 1 \in 1 .. Len(ws) /\ d + 1 > d /\ d + 1 - 1 = d /\ d + 1 \in 0 .. Len(ws)
    BY <1>1, <1>3, SMT
  <2>2. /\ e[d + 1] = e[d] + Len(Framed(ws[d + 1]))
        /\ Agree(s, e[d] - e[d], ws[d + 1], Len(Framed(ws[d + 1])))
    <3>1. /\ e[d + 1] = e[d + 1 - 1] + Len(Framed(ws[d + 1]))
          /\ Agree(s, e[d + 1 - 1] - e[d], ws[d + 1], Len(Framed(ws[d + 1])))
      BY <2>1 DEF Ends
    <3> QED
      BY <2>1, <3>1, Zenon
  <2>3. e[d + 1] \in Nat /\ e[d + 1] <= e[Len(ws)] /\ e[Len(ws)] \in Nat
    BY <1>1, <2>1, SMT DEF Ends
  <2>4. ws[d + 1] \in Texts
    BY <2>1, ElementOfSeq, Zenon
  <2>5. Len(Framed(ws[d + 1])) \in Nat
    BY <2>4, FramedBytes
  <2>6. Len(Framed(ws[d + 1])) <= Len(s)
    BY <1>1, <1>2, <2>2, <2>3, <2>5, SMT
  <2> QED
    BY <1>2, <2>2, <2>4, <2>6, Zenon
<1>4. ASSUME ~(d < Len(ws)) PROVE d = Len(ws) /\ Len(s) = n /\ e[Len(ws)] - e[d] = 0
  <2>1. d = Len(ws)
    BY <1>1, <1>4, SMT
  <2> QED
    BY <1>2, <2>1, SMT
<1> QED
  BY <1>3, <1>4

(* The first message is shown.                                             *)
LEMMA Shift ==
  ASSUME NEW ws \in Seq(Texts), NEW s \in Seq(Byte), NEW d \in Nat, NEW n \in Nat, NEW e,
         Ends(e, s, d, ws, n), d < Len(ws)
  PROVE  LET r == SubSeq(s, Len(Framed(ws[d + 1])) + 1, Len(s))
         IN  /\ Ends(e, r, d + 1, ws, n)
             /\ \A m : Agree(s, e[Len(ws)] - e[d], m, n) => Agree(r, e[Len(ws)] - e[d + 1], m, n)
<1> DEFINE L == Len(ws)
           F == Len(Framed(ws[d + 1]))
           r == SubSeq(s, F + 1, Len(s))
<1>1. L \in Nat /\ Len(s) \in Nat /\ d \in 0 .. L /\ d + 1 \in 1 .. L /\ d + 1 \in 0 .. L
      /\ d + 1 > d /\ d + 1 - 1 = d
  BY LenProperties, SMT DEF Ends
<1>2. /\ e \in [0 .. L -> Nat]
      /\ \A j, k \in 0 .. L : j <= k => e[j] <= e[k]
      /\ Len(s) = e[L] - e[d] + n
      /\ \A j \in 1 .. L : j > d =>
           /\ e[j] = e[j - 1] + Len(Framed(ws[j]))
           /\ Agree(s, e[j - 1] - e[d], ws[j], Len(Framed(ws[j])))
  BY Zenon DEF Ends
<1>3. ws[d + 1] \in Texts
  BY <1>1, ElementOfSeq, Zenon
<1>4. F \in Nat
  BY <1>3, FramedBytes
<1> HIDE DEF F, L
<1>5. /\ e[d] \in Nat /\ e[d + 1] \in Nat /\ e[L] \in Nat
      /\ e[d + 1] <= e[L] /\ Len(s) = e[L] - e[d] + n
  BY <1>1, <1>2, SMT
<1>6. e[d + 1] = e[d] + F
  <2>1. e[d + 1] = e[d + 1 - 1] + Len(Framed(ws[d + 1]))
    BY <1>1, <1>2
  <2> QED
    BY <1>1, <2>1, Zenon DEF F
<1>7. F <= Len(s)
  BY <1>1, <1>2, <1>4, <1>5, <1>6, SMT
<1>8. Len(r) = Len(s) - F /\ \A x \in 1 .. Len(s) - F : r[x] = s[F + x]
  BY <1>1, <1>4, <1>7, SMT
<1> HIDE DEF r
<1>9. Len(r) = e[L] - e[d + 1] + n
  BY <1>1, <1>4, <1>5, <1>6, <1>8, Rest
<1>10. ASSUME NEW m, NEW c \in Nat, NEW from \in Nat, e[d + 1] <= from,
              from + c <= e[L] + n, Agree(s, from - e[d], m, c)
       PROVE  Agree(r, from - e[d + 1], m, c)
  <2> SUFFICES ASSUME NEW x \in 1 .. c PROVE r[from - e[d + 1] + x] = Framed(m)[x]
    BY Zenon DEF Agree
  <2>1. s[from - e[d] + x] = Framed(m)[x]
    BY <1>10, Zenon DEF Agree
  <2>2. /\ from - e[d + 1] + x \in 1 .. Len(s) - F
        /\ F + (from - e[d + 1] + x) = from - e[d] + x
    <3> DEFINE a == e[d]
               b == e[d + 1]
               h == e[L]
               z == Len(s)
    <3>1. /\ a \in Nat /\ b \in Nat /\ h \in Nat /\ z = h - a + n /\ b = a + F
          /\ b <= from /\ from + c <= h + n
      BY <1>5, <1>6, <1>10, Zenon
    <3> HIDE DEF a, b, h, z
    <3>2. from - b + x \in 1 .. z - F /\ F + (from - b + x) = from - a + x
      BY <1>4, <3>1, RestWithin
    <3> QED
      BY <3>2, Zenon DEF a, b, z
  <2> QED
    BY <1>8, <2>1, <2>2, Zenon
<1>11. ASSUME NEW j \in 1 .. L, j > d + 1
       PROVE  /\ e[j] = e[j - 1] + Len(Framed(ws[j]))
              /\ Agree(r, e[j - 1] - e[d + 1], ws[j], Len(Framed(ws[j])))
  <2>1. j > d /\ j - 1 \in 0 .. L /\ j \in 0 .. L /\ d + 1 <= j - 1 /\ L \in 0 .. L /\ j <= L
    BY <1>1, <1>11, SMT
  <2>2. /\ e[j] = e[j - 1] + Len(Framed(ws[j]))
        /\ Agree(s, e[j - 1] - e[d], ws[j], Len(Framed(ws[j])))
    BY <1>2, <2>1, Zenon
  <2>3. e[j - 1] \in Nat /\ e[d + 1] <= e[j - 1] /\ e[j] <= e[L] /\ e[j] \in Nat
    BY <1>1, <1>2, <2>1, Zenon
  <2>4. Len(Framed(ws[j])) \in Nat
    BY ElementOfSeq, FramedBytes, Zenon DEF L
  <2>5. e[j - 1] + Len(Framed(ws[j])) <= e[L] + n
    BY <1>5, <2>2, <2>3, <2>4, SMT
  <2> QED
    BY <1>10, <2>2, <2>3, <2>4, <2>5, Zenon
<1>12. Ends(e, r, d + 1, ws, n)
  <2>1. d + 1 <= L
    BY <1>1, SMT
  <2> QED
    BY <1>2, <1>9, <1>11, <2>1, Zenon DEF Ends, L
<1>13. ASSUME NEW m, Agree(s, e[L] - e[d], m, n) PROVE Agree(r, e[L] - e[d + 1], m, n)
  <2>1. e[L] + n <= e[L] + n
    BY <1>5, SMT
  <2> QED
    BY <1>5, <1>10, <1>13, <2>1, Zenon
<1> QED
  BY <1>12, <1>13, Zenon DEF r, F, L

-----------------------------------------------------------------------------
(* As long as the framing works, what has not been shown lies in got and   *)
(* in the stream, message after message.                                   *)

Pending == IF rpc = "inner" THEN (intToByte(dataLength) \o got) \o stream ELSE stream
Part == IF open = 0 THEN 0 ELSE out[open]

Follows(e) ==
    /\ Ends(e, Pending, Len(shown), wire, Part)
    /\ open # 0 => \E m \in Texts :
         /\ text[open] \in {m, NoText}
         /\ 0 < Part /\ Part < Len(Framed(m))
         /\ Agree(Pending, e[Len(wire)] - e[Len(shown)], m, Part)

Channel ==
    Intact =>
      /\ rpc # "broken"
      /\ rpc = "inner" => dataLength < Huge
      /\ \A t \in Messages : text[t] # NoText /\ t # open => out[t] = 0
      /\ link \in {"none", "pending"} => stream = <<>> /\ rpc = "recv"
      /\ IF link = "reset"
         THEN /\ stream = <<>>
              /\ rpc = "inner" => \E m \in Texts : \E n \in 0 .. Len(m) : got = SubSeq(m, 1, n)
         ELSE \E e : Follows(e)

LEMMA InnerBytes ==
  ASSUME NEW n \in Nat, NEW g \in Seq(Byte), NEW s \in Seq(Byte)
  PROVE  LET q == (intToByte(n) \o g) \o s
         IN  /\ q \in Seq(Byte)
             /\ Len(q) = 4 + Len(g) + Len(s)
             /\ \A x \in 1 .. 4 : q[x] = intToByte(n)[x]
             /\ \A x \in 1 .. Len(g) : q[4 + x] = g[x]
             /\ \A x \in 1 .. Len(s) : q[4 + Len(g) + x] = s[x]
<1> DEFINE b == intToByte(n)
           c == b \o g
<1>2. b \in Seq(Byte) /\ Len(b) = 4
  BY LengthBytes
<1>3. Len(g) \in Nat /\ Len(s) \in Nat
  BY LenProperties
<1> HIDE DEF b
<1>5. /\ c \in Seq(Byte) /\ Len(c) = Len(b) + Len(g)
      /\ \A x \in 1 .. Len(b) + Len(g) : c[x] = IF x <= Len(b) THEN b[x] ELSE g[x - Len(b)]
  BY <1>2, ConcatProperties, Zenon
<1> HIDE DEF c
<1>6. /\ c \o s \in Seq(Byte) /\ Len(c \o s) = Len(c) + Len(s)
      /\ \A x \in 1 .. Len(c) + Len(s) :
           (c \o s)[x] = IF x <= Len(c) THEN c[x] ELSE s[x - Len(c)]
  <2>1. c \in Seq(Byte)
    BY <1>5, Zenon
  <2> QED
    BY <2>1, ConcatProperties, Zenon
<1>7. Len(c \o s) = 4 + Len(g) + Len(s)
  BY <1>2, <1>3, <1>5, <1>6, SMT
<1>8. ASSUME NEW x \in 1 .. 4 PROVE (c \o s)[x] = b[x]
  <2>1. /\ x \in 1 .. Len(c) + Len(s) /\ x <= Len(c)
        /\ x \in 1 .. Len(b) + Len(g) /\ x <= Len(b)
    BY <1>2, <1>3, <1>5, SMT
  <2> QED
    BY <1>5, <1>6, <2>1, Zenon
<1>9. ASSUME NEW x \in 1 .. Len(g) PROVE (c \o s)[4 + x] = g[x]
  <2>1. PICK y : y = 4 + x
    OBVIOUS
  <2>2. /\ y \in 1 .. Len(c) + Len(s) /\ y <= Len(c)
        /\ y \in 1 .. Len(b) + Len(g) /\ ~(y <= Len(b)) /\ y - Len(b) = x
    BY <1>2, <1>3, <1>5, <2>1, SMT
  <2>3. (c \o s)[y] = c[y] /\ c[y] = g[y - Len(b)]
    BY <1>5, <1>6, <2>2, Zenon
  <2> QED
    BY <2>1, <2>2, <2>3, Zenon
<1>10. ASSUME NEW x \in 1 .. Len(s) PROVE (c \o s)[4 + Len(g) + x] = s[x]
  <2>1. PICK y : y = 4 + Len(g) + x
    OBVIOUS
  <2>2. y \in 1 .. Len(c) + Len(s) /\ ~(y <= Len(c)) /\ y - Len(c) = x
    BY <1>2, <1>3, <1>5, <2>1, SMT
  <2>3. (c \o s)[y] = s[y - Len(c)]
    BY <1>6, <2>2, Zenon
  <2> QED
    BY <2>1, <2>2, <2>3, Zenon
<1> QED
  BY <1>6, <1>7, <1>8, <1>9, <1>10, Zenon DEF b, c

LEMMA PendingBytes ==
  ASSUME Types
  PROVE  /\ Pending \in Seq(Byte) /\ Part \in Nat /\ Len(shown) \in Nat /\ wire \in Seq(Texts)
         /\ rpc = "inner" =>
              /\ Len(Pending) = 4 + Len(got) + Len(stream)
              /\ \A x \in 1 .. 4 : Pending[x] = intToByte(dataLength)[x]
              /\ \A x \in 1 .. Len(got) : Pending[4 + x] = got[x]
              /\ \A x \in 1 .. Len(stream) : Pending[4 + Len(got) + x] = stream[x]
<1>1. /\ stream \in Seq(Byte) /\ got \in Seq(Byte) /\ dataLength \in Nat
      /\ shown \in Seq(Seq(Char)) /\ wire \in Seq(Texts)
      /\ out \in [Messages -> Nat] /\ open \in 0 .. MaxMessages
  BY DEF Types
<1>2. Len(shown) \in Nat
  BY <1>1, LenProperties
<1>3. Part \in Nat
  BY <1>1, FramingAssumption, SMT DEF Part, Messages
<1>4. CASE rpc = "inner"
  <2> DEFINE q == (intToByte(dataLength) \o got) \o stream
  <2>1. /\ q \in Seq(Byte)
        /\ Len(q) = 4 + Len(got) + Len(stream)
        /\ \A x \in 1 .. 4 : q[x] = intToByte(dataLength)[x]
        /\ \A x \in 1 .. Len(got) : q[4 + x] = got[x]
        /\ \A x \in 1 .. Len(stream) : q[4 + Len(got) + x] = stream[x]
    BY <1>1, InnerBytes
  <2>2. Pending = q
    BY <1>4 DEF Pending
  <2> HIDE DEF q
  <2> QED
    BY <1>1, <1>2, <1>3, <2>1, <2>2, Zenon
<1>5. CASE rpc # "inner"
  BY <1>1, <1>2, <1>3, <1>5, Zenon DEF Pending
<1> QED
  BY <1>4, <1>5

(* The message that Pending starts with.                                   *)
Leads(m) ==
    /\ \A x \in 1 .. Len(Pending) : x <= Len(Framed(m)) => Pending[x] = Framed(m)[x]
    /\ IF Len(shown) < Len(wire)
       THEN m = wire[Len(shown) + 1] /\ Len(Framed(m)) <= Len(Pending)
       ELSE Len(wire) = Len(shown) /\ Len(Pending) < Len(Framed(m))

LEMMA SomethingLeads ==
  ASSUME Types, NEW e, Follows(e), Len(Pending) > 0
  PROVE  \E m \in Texts : Leads(m)
<1>1. /\ Pending \in Seq(Byte) /\ Part \in Nat /\ Len(shown) \in Nat /\ wire \in Seq(Texts)
      /\ Len(wire) \in Nat /\ Len(Pending) \in Nat
  BY PendingBytes, LenProperties, Zenon
<1>2. Ends(e, Pending, Len(shown), wire, Part)
  BY DEF Follows
<1>3. CASE Len(shown) < Len(wire)
  <2> DEFINE m == wire[Len(shown) + 1]
  <2>1. /\ m \in Texts /\ Len(Framed(m)) <= Len(Pending)
        /\ Agree(Pending, 0, m, Len(Framed(m)))
    BY <1>1, <1>2, <1>3, First, Zenon
  <2>2. Len(Framed(m)) \in Nat
    BY <2>1, FramedBytes
  <2> HIDE DEF m
  <2>3. ASSUME NEW x \in 1 .. Len(Pending), x <= Len(Framed(m)) PROVE Pending[x] = Framed(m)[x]
    <3>1. x \in 1 .. Len(Framed(m)) /\ 0 + x = x
      BY <1>1, <2>2, <2>3, SMT
    <3>2. Pending[0 + x] = Framed(m)[x]
      BY <2>1, <3>1 DEF Agree
    <3> QED
      BY <3>1, <3>2, Zenon
  <2>4. Leads(m)
    BY <1>3, <2>1, <2>3, Zenon DEF Leads, m
  <2> QED
    BY <2>1, <2>4
<1>4. CASE ~(Len(shown) < Len(wire))
  <2>1. /\ Len(shown) = Len(wire) /\ Len(Pending) = Part
        /\ e[Len(wire)] - e[Len(shown)] = 0
    BY <1>1, <1>2, <1>4, First, Zenon
  <2>2. open # 0
    BY <2>1, SMT DEF Part
  <2>3. PICK m \in Texts : /\ Part < Len(Framed(m))
                           /\ Agree(Pending, e[Len(wire)] - e[Len(shown)], m, Part)
    BY <2>2, Zenon DEF Follows
  <2>4. Agree(Pending, 0, m, Part)
    BY <2>1, <2>3, Zenon
  <2>5. ASSUME NEW x \in 1 .. Len(Pending) PROVE Pending[x] = Framed(m)[x]
    <3>1. x \in 1 .. Part /\ 0 + x = x
      BY <1>1, <2>1, SMT
    <3>2. Pending[0 + x] = Framed(m)[x]
      BY <2>4, <3>1 DEF Agree
    <3> QED
      BY <3>1, <3>2, Zenon
  <2>6. Leads(m)
    BY <1>4, <2>1, <2>3, <2>5, Zenon DEF Leads
  <2> QED
    BY <2>6
<1> QED
  BY <1>3, <1>4

(* A receiver within a message has its length and its first bytes.         *)
LEMMA InnerLeads ==
  ASSUME Types, NEW m \in Texts, Leads(m), rpc = "inner", dataLength < Huge
  PROVE  dataLength = Len(m) /\ \A x \in 1 .. Len(got) : got[x] = m[x]
<1>1. /\ Len(Framed(m)) = 4 + Len(m) /\ Len(m) \in Nat
      /\ \A x \in 1 .. Len(m) : Framed(m)[4 + x] = m[x]
  BY FramedBytes, TextBytes, Zenon
<1>2. /\ Len(Pending) = 4 + Len(got) + Len(stream) /\ Len(got) \in Nat /\ Len(stream) \in Nat
      /\ dataLength \in Nat /\ Len(got) < dataLength
  BY PendingBytes, LenProperties, Zenon DEF Types
<1>3. \A x \in 1 .. 4 : intToByte(dataLength)[x] = Framed(m)[x]
  <2> SUFFICES ASSUME NEW x \in 1 .. 4 PROVE intToByte(dataLength)[x] = Framed(m)[x]
    OBVIOUS
  <2>1. x \in 1 .. Len(Pending) /\ x <= Len(Framed(m))
    BY <1>1, <1>2, SMT
  <2>2. Pending[x] = intToByte(dataLength)[x]
    BY PendingBytes, Zenon
  <2> QED
    BY <2>1, <2>2, Zenon DEF Leads
<1>4. bytesToInt(intToByte(dataLength)) = Len(m)
  BY <1>3, LengthOfFrame, Zenon
<1>5. dataLength < 2^31
  BY <1>2, SMT DEF Huge
<1>6. dataLength = Len(m)
  BY <1>2, <1>4, <1>5, LengthSurvives, Zenon
<1>7. ASSUME NEW x \in 1 .. Len(got) PROVE got[x] = m[x]
  <2>1. PICK y : y = 4 + x
    OBVIOUS
  <2>2. y \in 1 .. Len(Pending) /\ y <= Len(Framed(m)) /\ x \in 1 .. Len(m)
    BY <1>1, <1>2, <1>6, <2>1, SMT
  <2>3. Pending[y] = Framed(m)[y]
    BY <2>2, Zenon DEF Leads
  <2>4. Pending[4 + x] = got[x] /\ Framed(m)[4 + x] = m[x]
    BY <1>1, <2>2, PendingBytes, Zenon
  <2> QED
    BY <2>1, <2>3, <2>4, Zenon
<1> QED
  BY <1>6, <1>7

(* What a recv finds at the start of a message.                            *)
LEMMA HeaderLeads ==
  ASSUME Types, NEW m \in Texts, Leads(m), rpc = "recv", NEW k \in 1 .. Len(stream), k >= 4
  PROVE  Header(k) = Len(m)
<1> DEFINE b == [j \in 1 .. 4 |-> IF j <= k THEN stream[j] ELSE 0]
<1>1. Pending = stream
  BY DEF Pending
<1>2. Len(Framed(m)) = 4 + Len(m) /\ Len(m) \in Nat /\ Len(stream) \in Nat
  BY FramedBytes, TextBytes, LenProperties, Zenon DEF Types
<1>3. ASSUME NEW x \in 1 .. 4 PROVE b[x] = Framed(m)[x]
  <2>1. x \in 1 .. Len(stream) /\ x <= Len(Framed(m)) /\ x <= k
    BY <1>2, SMT
  <2>2. stream[x] = Framed(m)[x]
    BY <1>1, <2>1, Zenon DEF Leads
  <2> QED
    BY <2>1, <2>2, Zenon
<1>4. Header(k) = bytesToInt(b)
  BY DEF Header
<1> HIDE DEF b
<1> QED
  BY <1>3, <1>4, LengthOfFrame, Zenon

(* Taking a piece from the stream into got leaves Pending as it is.        *)
LEMMA Rejoin ==
  ASSUME NEW m \in Texts, NEW s \in Seq(Byte), NEW k \in 4 .. Len(s),
         \A x \in 1 .. 4 : s[x] = Framed(m)[x]
  PROVE  (intToByte(Len(m)) \o SubSeq(s, 5, k)) \o SubSeq(s, k + 1, Len(s)) = s
<1>1. Len(s) \in Nat /\ k \in Nat /\ 4 <= k /\ k <= Len(s)
  BY LenProperties, SMT
<1>2. /\ SubSeq(s, 1, 4) \in Seq(Byte) /\ Len(SubSeq(s, 1, 4)) = 4
      /\ \A x \in 1 .. 4 : SubSeq(s, 1, 4)[x] = s[x]
  BY <1>1, SMT
<1>3. intToByte(Len(m)) \in Seq(Byte) /\ Len(intToByte(Len(m))) = 4
  BY TextBytes, LengthBytes
<1>4. \A x \in 1 .. 4 : intToByte(Len(m))[x] = SubSeq(s, 1, 4)[x]
  BY <1>2, FramedBytes, Zenon
<1>5. intToByte(Len(m)) = SubSeq(s, 1, 4)
  BY <1>2, <1>3, <1>4, SeqEqual, Zenon
<1>6. SubSeq(s, 1, 4) \o SubSeq(s, 5, k) = SubSeq(s, 1, k)
  <2>1. 1 \in 1 .. Len(s) + 1 /\ 4 \in 1 - 1 .. Len(s) /\ k \in 4 .. Len(s) /\ 4 + 1 = 5
    BY <1>1, SMT
  <2> QED
    BY <2>1, ConcatAdjacentSubSeq
<1>7. SubSeq(s, 1, k) \o SubSeq(s, k + 1, Len(s)) = SubSeq(s, 1, Len(s))
  <2>1. 1 \in 1 .. Len(s) + 1 /\ k \in 1 - 1 .. Len(s) /\ Len(s) \in k .. Len(s)
    BY <1>1, SMT
  <2> QED
    BY <2>1, ConcatAdjacentSubSeq
<1>8. SubSeq(s, 1, Len(s)) = s
  BY SubSeqFull
<1> QED
  BY <1>5, <1>6, <1>7, <1>8, Zenon

LEMMA Regroup ==
  ASSUME NEW b \in Seq(Byte), NEW g \in Seq(Byte), NEW s \in Seq(Byte), NEW k \in 0 .. Len(s)
  PROVE  (b \o (g \o SubSeq(s, 1, k))) \o SubSeq(s, k + 1, Len(s)) = (b \o g) \o s
<1> DEFINE x == SubSeq(s, 1, k)
           y == SubSeq(s, k + 1, Len(s))
<1>1. Len(s) \in Nat /\ k \in Nat /\ k <= Len(s)
  BY LenProperties, SMT
<1>2. x \in Seq(Byte) /\ y \in Seq(Byte)
  BY <1>1, SMT
<1>3. x \o y = s
  <2>1. 1 \in 1 .. Len(s) + 1 /\ k \in 1 - 1 .. Len(s) /\ Len(s) \in k .. Len(s)
    BY <1>1, SMT
  <2>2. x \o y = SubSeq(s, 1, Len(s))
    BY <2>1, ConcatAdjacentSubSeq
  <2> QED
    BY <2>2, SubSeqFull
<1> HIDE DEF x, y
<1>4. g \o x \in Seq(Byte)
  BY <1>2, ConcatProperties
<1>5. (b \o (g \o x)) \o y = b \o ((g \o x) \o y)
  <2>1. \A z \in Seq(Byte) : (b \o z) \o y = b \o (z \o y)
    BY <1>2, ConcatAssociative
  <2> QED
    BY <1>4, <2>1, Zenon
<1>6. (g \o x) \o y = g \o (x \o y)
  <2>1. \A z, w \in Seq(Byte) : (g \o z) \o w = g \o (z \o w)
    BY ConcatAssociative
  <2> QED
    BY <1>2, <2>1, Zenon
<1>7. (b \o g) \o s = b \o (g \o s)
  BY ConcatAssociative
<1> QED
  BY <1>3, <1>5, <1>6, <1>7, Zenon DEF x, y

LEMMA Cut ==
  ASSUME NEW m \in Texts, NEW g \in Seq(Byte), Len(g) <= Len(m),
         \A x \in 1 .. Len(g) : g[x] = m[x]
  PROVE  g = SubSeq(m, 1, Len(g))
<1>1. m \in Seq(Byte) /\ Len(m) \in Nat /\ Len(g) \in Nat
  BY TextBytes, LenProperties
<1>2. /\ SubSeq(m, 1, Len(g)) \in Seq(Byte) /\ Len(SubSeq(m, 1, Len(g))) = Len(g)
      /\ \A x \in 1 .. Len(g) : SubSeq(m, 1, Len(g))[x] = m[x]
  BY <1>1, SMT
<1> QED
  BY <1>2, SeqEqual, Zenon

(* The first message goes from Pending to shown.                           *)
LEMMA ShowsFirst ==
  ASSUME Types, NEW e, Follows(e), Len(shown) < Len(wire),
         Pending' = SubSeq(Pending, Len(Framed(wire[Len(shown) + 1])) + 1, Len(Pending)),
         Len(shown') = Len(shown) + 1, UNCHANGED <<wire, open, out, text>>
  PROVE  Follows(e)'
<1>1. Pending \in Seq(Byte) /\ Part \in Nat /\ Len(shown) \in Nat /\ wire \in Seq(Texts)
  BY PendingBytes
<1>2. /\ Ends(e, Pending', Len(shown) + 1, wire, Part)
      /\ \A m : Agree(Pending, e[Len(wire)] - e[Len(shown)], m, Part)
                => Agree(Pending', e[Len(wire)] - e[Len(shown) + 1], m, Part)
  BY <1>1, Shift, Zenon DEF Follows
<1>3. Part' = Part
  BY Zenon DEF Part
<1> QED
  BY <1>2, <1>3, Zenon DEF Follows

-----------------------------------------------------------------------------
(* The channel that Framing implements, action by action.                  *)

Stage ==
    IF ~Intact THEN "garbled"
    ELSE IF rpc = "broken" THEN "crashed"
    ELSE IF link = "reset" THEN IF rpc = "inner" THEN "lost" ELSE "over"
    ELSE IF link = "closed" THEN "closing"
    ELSE IF link = "up" THEN "open" ELSE "new"

ChannelStep == Abstract!Next \/ UNCHANGED <<text, wire, shown, Stage>>

(* A step that touches neither the stream nor the receiver.                *)
LEMMA Quiet ==
  ASSUME Channel, Intact, UNCHANGED <<stream, rpc, dataLength, got, shown, wire, open, out>>,
         link' = "reset" <=> link = "reset",
         link' \in {"none", "pending"} => link \in {"none", "pending"},
         \A t \in Messages : text'[t] # NoText => text[t] # NoText \/ out[t] = 0,
         link # "reset" /\ open # 0 => text'[open] \in {text[open], NoText}
  PROVE  Channel'
<1>1. /\ rpc' # "broken"
      /\ rpc' = "inner" => dataLength' < Huge
      /\ \A t \in Messages : text'[t] # NoText /\ t # open' => out'[t] = 0
      /\ link' \in {"none", "pending"} => stream' = <<>> /\ rpc' = "recv"
  BY Zenon DEF Channel
<1>2. CASE link = "reset"
  <2>1. stream' = <<>> /\ (rpc' = "inner" => \E m \in Texts : \E n \in 0 .. Len(m) : got' = SubSeq(m, 1, n))
    BY <1>2, Zenon DEF Channel
  <2> QED
    BY <1>1, <1>2, <2>1, Zenon DEF Channel
<1>3. CASE link # "reset"
  <2>1. PICK e : Follows(e)
    BY <1>3, Zenon DEF Channel
  <2>2. Pending' = Pending /\ Part' = Part
    BY Zenon DEF Pending, Part
  <2>3. Ends(e, Pending', Len(shown'), wire', Part')
    BY <2>1, <2>2, Zenon DEF Follows
  <2>4. ASSUME open' # 0
        PROVE  \E m \in Texts :
                 /\ text'[open'] \in {m, NoText}
                 /\ 0 < Part' /\ Part' < Len(Framed(m))
                 /\ Agree(Pending', e[Len(wire')] - e[Len(shown')], m, Part')
    <3>1. PICK m \in Texts : /\ text[open] \in {m, NoText}
                             /\ 0 < Part /\ Part < Len(Framed(m))
                             /\ Agree(Pending, e[Len(wire)] - e[Len(shown)], m, Part)
      BY <2>1, <2>4, Zenon DEF Follows
    <3>2. text'[open'] \in {m, NoText}
      BY <1>3, <2>4, <3>1, Zenon
    <3> QED
      BY <2>2, <3>1, <3>2, Zenon
  <2>5. Follows(e)'
    BY <2>3, <2>4, Zenon DEF Follows
  <2>6. link' # "reset"
    BY <1>3
  <2> QED
    BY <1>1, <2>5, <2>6, Zenon DEF Channel
<1> QED
  BY <1>2, <1>3

LEMMA OpenStep ==
  ASSUME Types, Channel, Intact, Intact', Connect \/ ConnectTimesOut \/ ConnectedLate \/ CloseClient
  PROVE  Channel' /\ ChannelStep
<1>1. /\ UNCHANGED <<stream, rpc, dataLength, got, shown, wire, open, out, text>>
      /\ \/ link \in {"none", "pending"} /\ link' \in {"pending", "up"}
         \/ link = "up" /\ link' = "closed"
         \/ link = "pending" /\ link' = "none"
  BY DEF Connect, ConnectTimesOut, ConnectedLate, CloseClient, CloseLink, connection, sending,
     receiving, onWire
<1>2. Channel'
  BY <1>1, Quiet, Zenon
<1>3. rpc # "broken" /\ rpc' # "broken"
  BY <1>1 DEF Channel
<1>4. CASE link \in {"none", "pending"} /\ link' \in {"pending", "up", "none"}
  <2>1. Stage = "new" /\ Stage' \in {"new", "open"}
    BY <1>3, <1>4, SMT DEF Stage
  <2>2. CASE Stage' = "open"
    <3>1. Abstract!Open
      BY <1>1, <2>1, <2>2, Zenon DEF Abstract!Open, Stage
    <3> QED
      BY <1>2, <3>1, Zenon DEF ChannelStep, Abstract!Next
  <2>3. CASE Stage' = "new"
    BY <1>1, <1>2, <2>1, <2>3, Zenon DEF ChannelStep
  <2> QED
    BY <2>1, <2>2, <2>3
<1>5. CASE link = "up" /\ link' = "closed"
  <2>1. Stage = "open" /\ Stage' = "closing"
    BY <1>3, <1>5, SMT DEF Stage
  <2>2. Abstract!Close
    BY <1>1, <2>1, Zenon DEF Abstract!Close, Stage
  <2> QED
    BY <1>2, <2>2, Zenon DEF ChannelStep, Abstract!Next
<1> QED
  BY <1>1, <1>4, <1>5

LEMMA OfferStep ==
  ASSUME Types, Sends, Channel, Intact, Intact', NEW m \in Texts, SendDataToRemoteServer(m)
  PROVE  Channel' /\ ChannelStep
<1> DEFINE t == asked + 1
<1>1. /\ UNCHANGED <<stream, link, rpc, dataLength, got, shown, wire, open, out>>
      /\ text' = [text EXCEPT ![t] = m] /\ asked < MaxMessages
  BY DEF SendDataToRemoteServer, connection, receiving, onWire
<1>2. t \in Messages /\ t > asked
  BY <1>1, FramingAssumption, SMT DEF Types, Messages
<1>3. text[t] = NoText /\ out[t] = 0
  BY <1>2, Zenon DEF Sends, SentRight
<1> HIDE DEF t
<1>4. text'[t] = m /\ \A u \in Messages : u # t => text'[u] = text[u]
  BY <1>1, <1>2, Zenon DEF Types
<1>5. ASSUME link # "reset", open # 0 PROVE text'[open] \in {text[open], NoText}
  <2>1. PICK e : Follows(e)
    BY <1>5, Zenon DEF Channel
  <2>2. 0 < out[open]
    BY <1>5, <2>1, Zenon DEF Follows, Part
  <2>3. open # t
    BY <1>3, <2>2, SMT
  <2>4. open \in Messages
    BY <1>5, FramingAssumption, SMT DEF Types, Messages
  <2> QED
    BY <1>4, <2>3, <2>4, Zenon
<1>6. Channel'
  BY <1>1, <1>3, <1>4, <1>5, Quiet, Zenon
<1>7. Stage' = Stage
  BY <1>1, Zenon DEF Stage
<1>8. Abstract!Offer(t, m)
  BY <1>1, <1>3, <1>7, Zenon DEF Abstract!Offer, Stage
<1> QED
  BY <1>2, <1>6, <1>8, Zenon DEF ChannelStep, Abstract!Next

LEMMA DropStep ==
  ASSUME Types, Channel, Intact, Intact', NEW t \in Messages, SendFails(t)
  PROVE  Channel' /\ ChannelStep
<1>1. /\ UNCHANGED <<stream, rpc, dataLength, got, shown, wire, open, out>>
      /\ text[t] # NoText /\ text' = [text EXCEPT ![t] = NoText]
      /\ \/ link' = link
         \/ link = "up" /\ link' = "closed"
         \/ link = "pending" /\ link' = "none"
  BY DEF SendFails, CloseLink, receiving, onWire
<1>2. \A u \in Messages : text'[u] \in {text[u], NoText}
  BY <1>1, Zenon DEF Types
<1>3. open # 0 => open \in Messages
  BY FramingAssumption, SMT DEF Types, Messages
<1>4. Channel'
  BY <1>1, <1>2, <1>3, Quiet, Zenon
<1>5. rpc # "broken" /\ rpc' # "broken"
  BY <1>1 DEF Channel
<1>6. Stage' = Stage \/ (Stage = "open" /\ Stage' = "closing")
  BY <1>1, <1>5, SMT DEF Stage
<1>7. Abstract!Drop(t)
  BY <1>1, <1>6, Zenon DEF Abstract!Drop, Stage
<1> QED
  BY <1>4, <1>7, Zenon DEF ChannelStep, Abstract!Next

(* What is in got and what is in the stream may be taken together.         *)
LEMMA PendingGrows ==
  ASSUME Types, NEW p \in Seq(Byte), stream' = stream \o p, UNCHANGED <<rpc, dataLength, got>>
  PROVE  Pending' = Pending \o p
<1>1. stream \in Seq(Byte) /\ got \in Seq(Byte) /\ dataLength \in Nat
  BY DEF Types
<1>2. CASE rpc = "inner"
  <2> DEFINE c == intToByte(dataLength) \o got
  <2>1. c \in Seq(Byte)
    <3>1. intToByte(dataLength) \in Seq(Byte)
      BY <1>1, LengthBytes
    <3> QED
      BY <1>1, <3>1, ConcatProperties
  <2>2. Pending = c \o stream /\ Pending' = c \o (stream \o p)
    BY <1>2 DEF Pending
  <2> HIDE DEF c
  <2>3. \A x, y \in Seq(Byte) : (c \o x) \o y = c \o (x \o y)
    BY <2>1, ConcatAssociative
  <2> QED
    BY <1>1, <2>2, <2>3, Zenon
<1>3. CASE rpc # "inner"
  BY <1>3 DEF Pending
<1> QED
  BY <1>2, <1>3

LEMMA SendStep ==
  ASSUME Types, Sends, Channel, Intact, Intact', NEW t \in Messages, Send(t)
  PROVE  Channel' /\ ChannelStep
<1> DEFINE m == text[t]
           n == out[t]
           F == Len(Framed(m))
<1>1. /\ m \in Texts /\ m # NoText /\ n \in Nat /\ link = "up"
      /\ UNCHANGED <<link, rpc, dataLength, got, shown>>
      /\ text \in [Messages -> Texts \cup {NoText}] /\ out \in [Messages -> Nat]
  BY Zenon DEF Send, Types, receiving
<1>2. Frame(m) = Framed(m)
  BY DEF Intact, Frame, Framed
<1>3. Framed(m) \in Seq(Byte) /\ F \in Nat /\ n <= F
  <2>1. Framed(m) \in Seq(Byte) /\ F \in Nat
    BY <1>1, FramedBytes
  <2>2. n <= Len(Frame(m))
    BY <1>1, Zenon DEF Sends, SentRight
  <2> QED
    BY <1>2, <2>1, <2>2, Zenon
<1>4. PICK l \in Nat :
        /\ n < l \/ l = F
        /\ l <= F
        /\ stream' = stream \o SubSeq(Framed(m), n + 1, l)
        /\ out' = [out EXCEPT ![t] = l]
        /\ torn' = (torn \/ open \notin {0, t})
        /\ open' = IF l = F THEN 0 ELSE t
        /\ wire' = IF l = F THEN Append(wire, m) ELSE wire
        /\ text' = IF l = F \/ ~blocking THEN [text EXCEPT ![t] = NoText] ELSE text
  BY <1>2, SendAdds, Zenon
<1>5. open \in {0, t}
  BY <1>4, Zenon DEF Intact
<1>6. PICK e : Follows(e)
  BY <1>1, SMT DEF Channel
<1>7. /\ Pending \in Seq(Byte) /\ Part \in Nat /\ Len(shown) \in Nat /\ wire \in Seq(Texts)
      /\ Len(wire) \in Nat
  BY PendingBytes, LenProperties, Zenon
<1>8. t # 0
  BY FramingAssumption, SMT DEF Messages
<1>9. Ends(e, Pending, Len(shown), wire, n) /\ Agree(Pending, e[Len(wire)] - e[Len(shown)], m, n)
  <2>1. CASE open = 0
    <3>1. n = 0
      BY <1>1, <1>8, <2>1, Zenon DEF Channel
    <3>2. Part = 0
      BY <2>1 DEF Part
    <3>3. Ends(e, Pending, Len(shown), wire, n)
      BY <1>6, <3>1, <3>2, Zenon DEF Follows
    <3>4. 1 .. n = {}
      BY <3>1, SMT
    <3> QED
      BY <3>3, <3>4, Zenon DEF Agree
  <2>2. CASE open = t
    <3>1. Part = n
      BY <1>8, <2>2 DEF Part
    <3>2. PICK o \in Texts : /\ m \in {o, NoText}
                             /\ Agree(Pending, e[Len(wire)] - e[Len(shown)], o, Part)
      BY <1>6, <1>8, <2>2, Zenon DEF Follows
    <3>3. o = m
      BY <1>1, <3>2
    <3> QED
      BY <1>6, <3>1, <3>2, <3>3, Zenon DEF Follows
  <2> QED
    BY <1>5, <2>1, <2>2
<1> DEFINE p == SubSeq(Framed(m), n + 1, l)
<1>10. p \in Seq(Byte)
  BY <1>1, <1>3, <1>4, SMT
<1>11. Pending' = Pending \o p
  BY <1>1, <1>4, <1>10, PendingGrows, Zenon
<1>12. n <= l
  <2>1. n \in Nat /\ F \in Nat /\ n <= F /\ (n < l \/ l = F)
    BY <1>1, <1>3, <1>4, Zenon
  <2> HIDE DEF n, F
  <2> QED
    BY <2>1, SMT
<1>13. /\ Ends(e, Pending', Len(shown), wire, l)
       /\ Agree(Pending', e[Len(wire)] - e[Len(shown)], m, l)
  <2>1. LET r == Pending \o SubSeq(Framed(m), n + 1, l)
        IN  /\ Ends(e, r, Len(shown), wire, l)
            /\ Agree(r, e[Len(wire)] - e[Len(shown)], m, l)
    BY <1>1, <1>4, <1>7, <1>9, <1>12, Stretch, Zenon
  <2> QED
    BY <1>11, <2>1, Zenon
<1>14. Pending' \in Seq(Byte)
  <2>1. \A x, y \in Seq(Byte) : x \o y \in Seq(Byte)
    BY ConcatProperties
  <2> QED
    BY <1>7, <1>10, <1>11, <2>1, Zenon
<1> HIDE DEF p, F, n
<1>15. CASE l = F
  <2>1. open' = 0 /\ wire' = Append(wire, m) /\ text' = [text EXCEPT ![t] = NoText]
    BY <1>4, <1>15, Zenon
  <2>2. PICK f : Ends(f, Pending', Len(shown), Append(wire, m), 0)
    BY <1>1, <1>7, <1>13, <1>14, <1>15, Finish, Zenon DEF F
  <2>3. Part' = 0
    BY <2>1 DEF Part
  <2>4. Follows(f)'
    BY <1>1, <2>1, <2>2, <2>3, Zenon DEF Follows
  <2>5. ASSUME NEW u \in Messages, text'[u] # NoText PROVE out'[u] = 0
    <3>1. u # t
      BY <1>1, <2>1, <2>5, Zenon
    <3>2. text[u] # NoText /\ out'[u] = out[u]
      BY <1>1, <1>4, <2>1, <2>5, <3>1, Zenon
    <3>3. u # open
      BY <1>5, <3>1, FramingAssumption, SMT DEF Messages
    <3> QED
      BY <3>2, <3>3, Zenon DEF Channel
  <2>6. rpc' # "broken" /\ (rpc' = "inner" => dataLength' < Huge)
    BY <1>1, Zenon DEF Channel
  <2>7. Channel'
    BY <1>1, <2>4, <2>5, <2>6 DEF Channel
  <2>8. Stage = "open" /\ Stage' = "open"
    BY <1>1, <2>6, SMT DEF Stage
  <2>9. Abstract!Enter(t)
    BY <1>1, <2>1, <2>8, Zenon DEF Abstract!Enter, Stage
  <2> QED
    BY <2>7, <2>9, Zenon DEF ChannelStep, Abstract!Next
<1>16. CASE l # F
  <2>1. open' = t /\ wire' = wire /\ n < l /\ l < F
    <3>1. open' = t /\ wire' = wire
      BY <1>4, <1>16, Zenon
    <3>2. n < l /\ l <= F /\ l \in Nat
      BY <1>4, <1>16, Zenon
    <3> QED
      BY <1>3, <1>16, <3>1, <3>2, SMT
  <2>2. text' = [text EXCEPT ![t] = NoText] \/ text' = text
    BY <1>4, Zenon
  <2>3. Part' = l
    BY <1>1, <1>4, <1>8, <2>1, Zenon DEF Part
  <2>4. text'[t] \in {m, NoText}
    BY <1>1, <2>2, Zenon
  <2>5. 0 < l
    BY <1>1, <2>1, SMT DEF n
  <2>6. Follows(e)'
    BY <1>1, <1>8, <1>13, <2>1, <2>3, <2>4, <2>5, Zenon DEF Follows, F
  <2>7. ASSUME NEW u \in Messages, text'[u] # NoText, u # open' PROVE out'[u] = 0
    <3>1. text[u] # NoText /\ out'[u] = out[u]
      BY <1>1, <1>4, <2>1, <2>2, <2>7, Zenon
    <3>2. u # open
      BY <1>5, <2>1, <2>7, FramingAssumption, SMT DEF Messages
    <3> QED
      BY <3>1, <3>2, Zenon DEF Channel
  <2>8. rpc' # "broken" /\ (rpc' = "inner" => dataLength' < Huge)
    BY <1>1, Zenon DEF Channel
  <2>9. Channel'
    BY <1>1, <2>6, <2>7, <2>8 DEF Channel
  <2>10. Stage = Stage'
    BY <1>1, Zenon DEF Stage
  <2>11. CASE text' = text
    BY <1>1, <2>1, <2>9, <2>10, <2>11, Zenon DEF ChannelStep
  <2>12. CASE text' = [text EXCEPT ![t] = NoText]
    <3>1. Abstract!Drop(t)
      BY <1>1, <2>1, <2>10, <2>12, Zenon DEF Abstract!Drop, Stage
    <3> QED
      BY <2>9, <3>1, Zenon DEF ChannelStep, Abstract!Next
  <2> QED
    BY <2>2, <2>11, <2>12
<1> QED
  BY <1>15, <1>16

LEMMA LoseStep ==
  ASSUME Types, Channel, Intact, Intact', Reset
  PROVE  Channel' /\ ChannelStep
<1>1. /\ link \in {"up", "closed"} /\ link' = "reset" /\ stream' = <<>>
      /\ UNCHANGED <<text, out, rpc, dataLength, got, shown, wire, open>>
  BY DEF Reset, sending, receiving, onWire
<1>2. /\ rpc # "broken"
      /\ rpc = "inner" => dataLength < Huge
      /\ \A t \in Messages : text[t] # NoText /\ t # open => out[t] = 0
  BY DEF Channel
<1>3. PICK e : Follows(e)
  BY <1>1, SMT DEF Channel
<1>4. ASSUME rpc = "inner" PROVE \E m \in Texts : \E n \in 0 .. Len(m) : got = SubSeq(m, 1, n)
  <2>1. Len(Pending) > 0
    <3>1. Len(Pending) = 4 + Len(got) + Len(stream) /\ Len(got) \in Nat /\ Len(stream) \in Nat
      BY <1>4, PendingBytes, LenProperties, Zenon DEF Types
    <3> QED
      BY <3>1, SMT
  <2>2. PICK m \in Texts : Leads(m)
    BY <1>3, <2>1, SomethingLeads, Zenon
  <2>3. dataLength = Len(m) /\ \A x \in 1 .. Len(got) : got[x] = m[x]
    BY <1>2, <1>4, <2>2, InnerLeads, Zenon
  <2>4. got \in Seq(Byte) /\ Len(got) \in Nat /\ Len(m) \in Nat /\ Len(got) < Len(m)
    BY <1>4, <2>3, TextBytes, LenProperties, Zenon DEF Types
  <2>5. Len(got) <= Len(m) /\ Len(got) \in 0 .. Len(m)
    BY <2>4, SMT
  <2>6. got = SubSeq(m, 1, Len(got))
    BY <2>3, <2>4, <2>5, Cut, Zenon
  <2> QED
    BY <2>5, <2>6, Zenon
<1>5. Channel'
  BY <1>1, <1>2, <1>4 DEF Channel
<1>6. Stage \in {"open", "closing"} /\ Stage' \in {"lost", "over"}
  BY <1>1, <1>2, SMT DEF Stage
<1>7. Abstract!Lose
  BY <1>1, <1>6, Zenon DEF Abstract!Lose, Stage
<1> QED
  BY <1>5, <1>7, Zenon DEF ChannelStep, Abstract!Next

(* What a recv finds that takes bytes from an intact stream.               *)
LEMMA Received ==
  ASSUME Types, Channel, Intact, NEW k \in 1 .. Len(stream), Recv(k)
  PROVE  /\ k \in Nat /\ 0 < k /\ k <= Len(stream) /\ Len(stream) \in Nat /\ stream \in Seq(Byte)
         /\ link \in {"up", "closed"} /\ rpc # "broken"
         /\ rpc = "inner" => dataLength < Huge
         /\ \E e : Follows(e)
         /\ \E m \in Texts : Leads(m)
         /\ stream' = SubSeq(stream, k + 1, Len(stream))
<1>1. stream \in Seq(Byte) /\ Len(stream) \in Nat /\ k \in Nat /\ 0 < k /\ k <= Len(stream)
  BY LenProperties, SMT DEF Types
<1>2. stream # <<>>
  BY <1>1, SMT
<1>3. link \in {"up", "closed"} /\ rpc # "broken" /\ (rpc = "inner" => dataLength < Huge)
      /\ \E e : Follows(e)
  BY <1>2, SMT DEF Channel, Types
<1>4. Len(Pending) > 0
  <2>1. CASE rpc = "inner"
    <3>1. Len(Pending) = 4 + Len(got) + Len(stream) /\ Len(got) \in Nat
      BY <2>1, PendingBytes, LenProperties, Zenon DEF Types
    <3> QED
      BY <1>1, <3>1, SMT
  <2>2. CASE rpc # "inner"
    BY <1>1, <2>2, SMT DEF Pending
  <2> QED
    BY <2>1, <2>2
<1>5. \E m \in Texts : Leads(m)
  BY <1>3, <1>4, SomethingLeads, Zenon
<1> QED
  BY <1>1, <1>3, <1>5, Zenon DEF Recv

LEMMA NoBreak ==
  ASSUME Types, Channel, Intact, NEW k \in 1 .. Len(stream), ReceiveBreaks(k)
  PROVE  ~Intact'
<1> SUFFICES ASSUME Intact' PROVE FALSE
  OBVIOUS
<1>1. /\ Recv(k) /\ rpc = "recv"
      /\ k < 4 \/ Header(k) < 0 \/ Header(k) >= Huge \/ k - 4 > Header(k) + 1
      /\ ~(k < 4 \/ k - 4 > Header(k))
  BY DEF ReceiveBreaks, Intact
<1>2. k \in Nat /\ \E m \in Texts : Leads(m)
  BY <1>1, Received, Zenon
<1>3. PICK m \in Texts : Leads(m)
  BY <1>2
<1>4. k >= 4
  BY <1>1, <1>2, SMT
<1>5. Header(k) = Len(m)
  BY <1>1, <1>3, <1>4, HeaderLeads, Zenon
<1>6. Len(m) \in Nat /\ Len(m) < Huge
  BY TextBytes
<1> QED
  BY <1>1, <1>2, <1>5, <1>6, SMT DEF Huge

(* A message is shown, and it was the next.                                *)
LEMMA DeliverStep ==
  ASSUME Types, Channel, Intact, Intact', NEW m \in Texts, Leads(m),
         \E e : Follows(e), link \in {"up", "closed"}, rpc # "broken",
         Len(Framed(m)) <= Len(Pending),
         Pending' = SubSeq(Pending, Len(Framed(m)) + 1, Len(Pending)),
         shown' = Append(shown, m), rpc' = "recv",
         UNCHANGED <<text, out, link, wire, open>>
  PROVE  Channel' /\ ChannelStep
<1>1. Len(Pending) \in Nat /\ Len(Framed(m)) \in Nat
  BY PendingBytes, FramedBytes, LenProperties, Zenon
<1>2. Len(shown) < Len(wire) /\ m = wire[Len(shown) + 1]
  <2>1. ~(Len(Pending) < Len(Framed(m)))
    BY <1>1, SMT
  <2> QED
    BY <2>1, Zenon DEF Leads
<1>3. PICK e : Follows(e)
  OBVIOUS
<1>4. Len(shown') = Len(shown) + 1
  <2>1. shown \in Seq(Seq(Char)) /\ m \in Seq(Char)
    BY TextBytes, Zenon DEF Types
  <2> QED
    BY <2>1, AppendProperties, Zenon
<1>5. Follows(e)'
  BY <1>2, <1>3, <1>4, ShowsFirst, Zenon
<1>6. link' \notin {"none", "pending", "reset"}
  BY SMT
<1>7. rpc' # "broken" /\ rpc' # "inner"
  BY SMT
<1>8. \A t \in Messages : text'[t] # NoText /\ t # open' => out'[t] = 0
  BY Zenon DEF Channel
<1>9. Channel'
  BY <1>5, <1>6, <1>7, <1>8, Zenon DEF Channel
<1>10. Stage \in {"open", "closing"} /\ Stage' = Stage
  BY SMT DEF Stage
<1>11. Abstract!Deliver
  <2>1. Len(shown) # Len(wire)
    <3>1. Len(shown) \in Nat /\ Len(wire) \in Nat
      BY LenProperties, Zenon DEF Types
    <3> QED
      BY <1>2, <3>1, SMT
  <2> QED
    BY <1>2, <1>10, <2>1, Zenon DEF Abstract!Deliver, Abstract!AllDelivered, Stage
<1> QED
  BY <1>9, <1>11, Zenon DEF ChannelStep, Abstract!Next

(* Bytes go from the stream to got, and Pending stays what it is.          *)
LEMMA TakeStep ==
  ASSUME Types, Channel, Intact, Intact', \E e : Follows(e), link \in {"up", "closed"},
         Pending' = Pending, rpc # "broken", rpc' = "inner", dataLength' < Huge,
         UNCHANGED <<text, out, link, wire, open, shown>>
  PROVE  Channel' /\ ChannelStep
<1>1. PICK e : Follows(e)
  OBVIOUS
<1>2. Part' = Part
  BY Zenon DEF Part
<1>3. Follows(e)'
  BY <1>1, <1>2, Zenon DEF Follows
<1>4. link' \notin {"none", "pending", "reset"} /\ rpc' # "broken"
  BY SMT
<1>5. \A t \in Messages : text'[t] # NoText /\ t # open' => out'[t] = 0
  BY Zenon DEF Channel
<1>6. Channel'
  BY <1>3, <1>4, <1>5, Zenon DEF Channel
<1>7. Stage' = Stage
  BY SMT DEF Stage
<1> QED
  BY <1>6, <1>7, Zenon DEF ChannelStep

LEMMA WholeStep ==
  ASSUME Types, Channel, Intact, Intact', NEW k \in 1 .. Len(stream), ReceiveWhole(k)
  PROVE  Channel' /\ ChannelStep
<1>1. /\ Recv(k) /\ rpc = "recv" /\ k >= 4 /\ Header(k) \in 0 .. k - 4
      /\ shown' = Append(shown, CString(SubSeq(stream, 5, 4 + Header(k))))
      /\ ~(k - 4 > Header(k))
      /\ UNCHANGED <<text, out, wire, open, link, rpc, dataLength, got>>
  BY DEF ReceiveWhole, Show, Misread, Intact, recvFrame, sending, onWire
<1>2. /\ k \in Nat /\ 0 < k /\ k <= Len(stream) /\ Len(stream) \in Nat /\ stream \in Seq(Byte)
      /\ link \in {"up", "closed"} /\ rpc # "broken" /\ \E e : Follows(e)
      /\ \E m \in Texts : Leads(m)
      /\ stream' = SubSeq(stream, k + 1, Len(stream))
  BY <1>1, Received, Zenon
<1>3. PICK m \in Texts : Leads(m)
  BY <1>2
<1>4. Header(k) = Len(m)
  BY <1>1, <1>3, HeaderLeads, Zenon
<1>5. /\ m \in Seq(Char) /\ m \in Seq(Byte) /\ Len(m) \in Nat
      /\ Len(Framed(m)) = 4 + Len(m) /\ \A x \in 1 .. Len(m) : Framed(m)[4 + x] = m[x]
  BY TextBytes, FramedBytes, Zenon
<1>6. k = 4 + Len(m)
  BY <1>1, <1>2, <1>4, <1>5, SMT
<1>7. Pending = stream /\ Pending' = stream'
  BY <1>1, Zenon, "recv" # "inner" DEF Pending
<1>8. SubSeq(stream, 5, 4 + Len(m)) = m
  <2> DEFINE q == SubSeq(stream, 5, 4 + Len(m))
  <2>1. /\ q \in Seq(Byte) /\ Len(q) = Len(m)
        /\ \A x \in 1 .. Len(m) : q[x] = stream[4 + x]
    BY <1>2, <1>5, <1>6, SMT
  <2> HIDE DEF q
  <2>2. ASSUME NEW x \in 1 .. Len(m) PROVE q[x] = m[x]
    <3>1. PICK y : y = 4 + x
      OBVIOUS
    <3>2. y \in 1 .. Len(stream) /\ y <= Len(Framed(m))
      BY <1>2, <1>5, <1>6, <3>1, SMT
    <3>3. stream[y] = Framed(m)[y]
      BY <1>3, <1>7, <3>2, Zenon DEF Leads
    <3> QED
      BY <1>5, <2>1, <3>1, <3>3, Zenon
  <2>3. q = m
    BY <1>5, <2>1, <2>2, SeqEqual, Zenon
  <2> QED
    BY <2>3 DEF q
<1>9. shown' = Append(shown, m)
  BY <1>1, <1>4, <1>5, <1>8, PrintedWhole, Zenon
<1>10. Len(Framed(m)) <= Len(Pending)
  BY <1>2, <1>5, <1>6, <1>7, SMT
<1>11. Pending' = SubSeq(Pending, Len(Framed(m)) + 1, Len(Pending))
  BY <1>2, <1>5, <1>6, <1>7, Zenon
<1> QED
  BY <1>1, <1>2, <1>3, <1>9, <1>10, <1>11, DeliverStep, Zenon

LEMMA PartStep ==
  ASSUME Types, Channel, Intact, Intact', NEW k \in 1 .. Len(stream), ReceivePart(k)
  PROVE  Channel' /\ ChannelStep
<1>1. /\ Recv(k) /\ rpc = "recv" /\ rpc' = "inner" /\ k >= 4
      /\ dataLength' = Header(k) /\ got' = SubSeq(stream, 5, k)
      /\ UNCHANGED <<text, out, wire, open, link, shown>>
  BY DEF ReceivePart, recvFrame, sending, onWire
<1>2. /\ k \in Nat /\ k <= Len(stream) /\ Len(stream) \in Nat /\ stream \in Seq(Byte)
      /\ link \in {"up", "closed"} /\ rpc # "broken" /\ \E e : Follows(e)
      /\ \E m \in Texts : Leads(m)
      /\ stream' = SubSeq(stream, k + 1, Len(stream))
  BY <1>1, Received, Zenon
<1>3. PICK m \in Texts : Leads(m)
  BY <1>2
<1>4. dataLength' = Len(m) /\ dataLength' < Huge
  BY <1>1, <1>3, HeaderLeads, TextBytes, Zenon
<1>5. Pending = stream
  BY <1>1, Zenon, "recv" # "inner" DEF Pending
<1>6. \A x \in 1 .. 4 : stream[x] = Framed(m)[x]
  <2> SUFFICES ASSUME NEW x \in 1 .. 4 PROVE stream[x] = Framed(m)[x]
    OBVIOUS
  <2>1. Len(Framed(m)) = 4 + Len(m) /\ Len(m) \in Nat
    BY FramedBytes, TextBytes
  <2>2. x \in 1 .. Len(stream) /\ x <= Len(Framed(m))
    BY <1>1, <1>2, <2>1, SMT
  <2> QED
    BY <1>3, <1>5, <2>2, Zenon DEF Leads
<1>7. Pending' = (intToByte(Len(m)) \o SubSeq(stream, 5, k)) \o SubSeq(stream, k + 1, Len(stream))
  BY <1>1, <1>2, <1>4, Zenon DEF Pending
<1>8. k \in 4 .. Len(stream)
  BY <1>1, <1>2, SMT
<1>9. Pending' = Pending
  BY <1>2, <1>5, <1>6, <1>7, <1>8, Rejoin, Zenon
<1> QED
  BY <1>1, <1>2, <1>4, <1>9, TakeStep, Zenon

LEMMA RestBytes ==
  ASSUME NEW s \in Seq(Byte), NEW k \in Nat, k <= Len(s)
  PROVE  LET r == SubSeq(s, k + 1, Len(s))
         IN  /\ r \in Seq(Byte) /\ Len(r) = Len(s) - k
             /\ \A x \in 1 .. Len(s) - k : r[x] = s[k + x]
  BY SMT

LEMMA MoreStep ==
  ASSUME Types, Channel, Intact, Intact', NEW k \in 1 .. Len(stream), ReceiveMore(k)
  PROVE  Channel' /\ ChannelStep
<1> DEFINE room == dataLength - Len(got)
<1>1. /\ Recv(k) /\ rpc = "inner"
      /\ UNCHANGED <<text, out, wire, open, link>>
      /\ \/ /\ k >= room /\ ~(k > room)
            /\ shown' = Append(shown, CString(got \o SubSeq(stream, 1, room)))
            /\ rpc' = "recv"
         \/ /\ got' = got \o SubSeq(stream, 1, k)
            /\ UNCHANGED <<rpc, dataLength, shown>>
  BY DEF ReceiveMore, Show, Misread, Intact, recvFrame, sending, onWire
<1>2. /\ k \in Nat /\ 0 < k /\ k <= Len(stream) /\ Len(stream) \in Nat /\ stream \in Seq(Byte)
      /\ link \in {"up", "closed"} /\ rpc # "broken" /\ dataLength < Huge /\ \E e : Follows(e)
      /\ \E m \in Texts : Leads(m)
      /\ stream' = SubSeq(stream, k + 1, Len(stream))
  BY <1>1, Received, Zenon
<1>3. /\ got \in Seq(Byte) /\ Len(got) \in Nat /\ dataLength \in Nat /\ Len(got) < dataLength
  BY <1>1, LenProperties, Zenon DEF Types
<1>4. PICK m \in Texts : Leads(m)
  BY <1>2
<1>5. dataLength = Len(m) /\ \A x \in 1 .. Len(got) : got[x] = m[x]
  BY <1>1, <1>2, <1>4, InnerLeads, Zenon
<1>6. /\ m \in Seq(Char) /\ m \in Seq(Byte) /\ Len(m) \in Nat
      /\ Len(Framed(m)) = 4 + Len(m) /\ \A x \in 1 .. Len(m) : Framed(m)[4 + x] = m[x]
  BY TextBytes, FramedBytes, Zenon
<1>7. /\ Pending \in Seq(Byte) /\ Len(Pending) = 4 + Len(got) + Len(stream)
      /\ \A x \in 1 .. Len(stream) : Pending[4 + Len(got) + x] = stream[x]
  BY <1>1, PendingBytes, Zenon
<1> HIDE DEF room
<1>8. CASE /\ k >= room /\ ~(k > room) /\ rpc' = "recv"
           /\ shown' = Append(shown, CString(got \o SubSeq(stream, 1, room)))
  <2>1. k = room /\ k = Len(m) - Len(got) /\ Len(got) + k = Len(m)
    <3>1. dataLength = Len(m) /\ room = Len(m) - Len(got)
      BY <1>5 DEF room
    <3>2. k >= room /\ ~(k > room) /\ k \in Nat /\ Len(m) \in Nat /\ Len(got) \in Nat
      BY <1>2, <1>3, <1>6, <1>8, Zenon
    <3> QED
      BY <3>1, <3>2, SMT
  <2> DEFINE r == SubSeq(stream, 1, k)
             q == got \o r
  <2>2. r \in Seq(Byte) /\ Len(r) = k /\ \A x \in 1 .. k : r[x] = stream[x]
    BY <1>2, SMT
  <2> HIDE DEF r
  <2>3. /\ q \in Seq(Byte) /\ Len(q) = Len(got) + Len(r)
        /\ \A x \in 1 .. Len(got) + Len(r) : q[x] = IF x <= Len(got) THEN got[x] ELSE r[x - Len(got)]
    BY <1>3, <2>2, ConcatProperties, Zenon
  <2> HIDE DEF q
  <2>4. ASSUME NEW x \in 1 .. Len(m) PROVE q[x] = m[x]
    <3>1. x \in 1 .. Len(got) + Len(r)
      BY <1>3, <2>1, <2>2, SMT
    <3>2. CASE x <= Len(got)
      <4>1. x \in 1 .. Len(got)
        BY <1>3, <3>1, <3>2, SMT
      <4> QED
        BY <1>5, <2>3, <3>1, <3>2, <4>1, Zenon
    <3>3. CASE ~(x <= Len(got))
      <4>1. PICK y : y = 4 + x
        OBVIOUS
      <4>2. PICK z : z = x - Len(got)
        OBVIOUS
      <4>3. /\ z \in 1 .. k /\ z \in 1 .. Len(stream) /\ y = 4 + Len(got) + z
            /\ y \in 1 .. Len(Pending) /\ y <= Len(Framed(m))
        BY <1>2, <1>3, <1>6, <1>7, <2>1, <3>1, <3>3, <4>1, <4>2, SMT
      <4>4. q[x] = r[z] /\ r[z] = stream[z]
        BY <2>2, <2>3, <3>1, <3>3, <4>2, <4>3, Zenon
      <4>5. Pending[y] = stream[z] /\ Pending[y] = Framed(m)[y]
        BY <1>4, <1>7, <4>3, Zenon DEF Leads
      <4> QED
        BY <1>6, <4>1, <4>4, <4>5, Zenon
    <3> QED
      BY <3>2, <3>3
  <2>5. q = m
    <3>1. Len(q) = Len(m)
      BY <2>1, <2>2, <2>3, SMT
    <3> QED
      BY <1>6, <2>3, <2>4, <3>1, SeqEqual, Zenon
  <2>6. shown' = Append(shown, m)
    <3>1. shown' = Append(shown, CString(q))
      BY <1>8, <2>1, Zenon DEF q, r
    <3> QED
      BY <1>6, <2>5, <3>1, PrintedWhole, Zenon
  <2>7. Len(Framed(m)) <= Len(Pending)
    BY <1>2, <1>3, <1>6, <1>7, <2>1, SMT
  <2>8. Pending' = stream'
    BY <1>8, Zenon, "recv" # "inner" DEF Pending
  <2>9. Pending' = SubSeq(Pending, Len(Framed(m)) + 1, Len(Pending))
    <3> DEFINE u == SubSeq(stream, k + 1, Len(stream))
               v == SubSeq(Pending, Len(Framed(m)) + 1, Len(Pending))
    <3>1. /\ u \in Seq(Byte) /\ Len(u) = Len(stream) - k
          /\ \A x \in 1 .. Len(stream) - k : u[x] = stream[k + x]
      BY <1>2, SMT
    <3>2. /\ v \in Seq(Byte) /\ Len(v) = Len(Pending) - Len(Framed(m))
          /\ \A x \in 1 .. Len(Pending) - Len(Framed(m)) : v[x] = Pending[Len(Framed(m)) + x]
      <4>1. Len(Pending) \in Nat /\ Len(Framed(m)) \in Nat
        BY <1>2, <1>3, <1>6, <1>7, SMT
      <4> QED
        BY <1>7, <2>7, <4>1, RestBytes, Zenon
    <3>3. Len(Pending) - Len(Framed(m)) = Len(stream) - k
      BY <1>2, <1>3, <1>6, <1>7, <2>1, SMT
    <3>4. stream' = u
      BY <1>2
    <3> HIDE DEF u, v
    <3>5. ASSUME NEW x \in 1 .. Len(u) PROVE u[x] = v[x]
      <4>1. PICK y : y = k + x
        OBVIOUS
      <4>2. /\ x \in 1 .. Len(stream) - k /\ y \in 1 .. Len(stream)
            /\ 4 + Len(got) + y = Len(Framed(m)) + x
        BY <1>2, <1>3, <1>6, <2>1, <3>1, <4>1, SMT
      <4>3. u[x] = stream[y] /\ v[x] = Pending[Len(Framed(m)) + x]
        BY <3>1, <3>2, <3>3, <4>1, <4>2, Zenon
      <4> QED
        BY <1>7, <4>2, <4>3, Zenon
    <3>6. u = v
      BY <3>1, <3>2, <3>3, <3>5, SeqEqual, Zenon
    <3> QED
      BY <2>8, <3>4, <3>6, Zenon DEF v
  <2> QED
    BY <1>1, <1>2, <1>4, <1>8, <2>6, <2>7, <2>9, DeliverStep, Zenon
<1>9. CASE got' = got \o SubSeq(stream, 1, k) /\ UNCHANGED <<rpc, dataLength, shown>>
  <2>1. intToByte(dataLength) \in Seq(Byte)
    BY <1>3, LengthBytes
  <2>2. Pending = (intToByte(dataLength) \o got) \o stream
    BY <1>1, Zenon DEF Pending
  <2>3. Pending' = (intToByte(dataLength) \o (got \o SubSeq(stream, 1, k)))
                     \o SubSeq(stream, k + 1, Len(stream))
    BY <1>1, <1>2, <1>9, Zenon DEF Pending
  <2>4. k \in 0 .. Len(stream)
    BY <1>2, SMT
  <2>5. Pending' = Pending
    BY <1>2, <1>3, <2>1, <2>2, <2>3, <2>4, Regroup, Zenon
  <2> QED
    BY <1>1, <1>2, <1>9, <2>5, TakeStep, Zenon
<1> QED
  BY <1>1, <1>8, <1>9 DEF room

LEMMA GoneStep ==
  ASSUME Types, Channel, Intact, Intact', PeerGone
  PROVE  Channel' /\ ChannelStep
<1>1. /\ link \in {"closed", "reset"} /\ stream = <<>> /\ link' = "reset"
      /\ UNCHANGED <<text, out, wire, open, stream>>
      /\ \/ rpc = "recv" /\ rpc' = "ended" /\ shown' = shown
         \/ rpc = "inner" /\ rpc' = "recv" /\ shown' = Append(shown, CString(got))
  BY DEF PeerGone, Show, recvFrame, sending, onWire
<1>2. Channel'
  <2>1. rpc' # "broken" /\ rpc' # "inner" /\ link' \notin {"none", "pending"}
    BY <1>1, SMT
  <2>2. \A t \in Messages : text'[t] # NoText /\ t # open' => out'[t] = 0
    BY <1>1, Zenon DEF Channel
  <2> QED
    BY <1>1, <2>1, <2>2, Zenon DEF Channel
<1>3. Stage' = "over"
  BY <1>1, SMT DEF Stage
<1>4. /\ Len(shown) \in Nat /\ Len(wire) \in Nat /\ got \in Seq(Byte) /\ Len(got) \in Nat
      /\ Len(stream) = 0
  BY <1>1, LenProperties, EmptySeq, Zenon DEF Types
<1>5. CASE rpc = "recv" /\ rpc' = "ended" /\ shown' = shown /\ link = "reset"
  <2>1. Stage = "over"
    BY <1>5, SMT DEF Stage
  <2> QED
    BY <1>1, <1>2, <1>3, <1>5, <2>1, Zenon DEF ChannelStep
<1>6. CASE rpc = "recv" /\ rpc' = "ended" /\ shown' = shown /\ link = "closed"
  <2>1. PICK e : Follows(e)
    BY <1>6, SMT DEF Channel
  <2>2. Pending = stream
    BY <1>6, SMT DEF Pending
  <2>3. ~(Len(shown) < Len(wire))
    <3> SUFFICES ASSUME Len(shown) < Len(wire) PROVE FALSE
      OBVIOUS
    <3>1. wire[Len(shown) + 1] \in Texts /\ Len(Framed(wire[Len(shown) + 1])) <= Len(Pending)
      BY <2>1, PendingBytes, First, Zenon DEF Follows
    <3>2. Len(Framed(wire[Len(shown) + 1])) = 4 + Len(wire[Len(shown) + 1])
          /\ Len(wire[Len(shown) + 1]) \in Nat
      BY <3>1, FramedBytes, TextBytes, Zenon
    <3> QED
      BY <1>4, <2>2, <3>1, <3>2, SMT
  <2>4. Len(shown) = Len(wire)
    BY <2>1, <2>3, PendingBytes, First, Zenon DEF Follows
  <2>5. Stage = "closing"
    BY <1>6, SMT DEF Stage
  <2>6. Abstract!Finish
    BY <1>1, <1>3, <1>6, <2>4, <2>5, Zenon DEF Abstract!Finish, Abstract!AllDelivered, Stage
  <2> QED
    BY <1>2, <2>6, Zenon DEF ChannelStep, Abstract!Next
<1>7. CASE rpc = "inner" /\ rpc' = "recv" /\ shown' = Append(shown, CString(got))
  <2>1. \E m \in Texts : /\ \E n \in 0 .. Len(m) : got = SubSeq(m, 1, n)
                         /\ link = "closed" => Len(shown) = Len(wire)
    <3>1. CASE link = "reset"
      <4>1. \E m \in Texts : \E n \in 0 .. Len(m) : got = SubSeq(m, 1, n)
        BY <1>7, <3>1, Zenon DEF Channel
      <4> QED
        BY <3>1, <4>1, SMT
    <3>2. CASE link = "closed"
      <4>1. (\E e : Follows(e)) /\ dataLength < Huge
        BY <1>7, <3>2, SMT DEF Channel
      <4>2. Len(Pending) = 4 + Len(got) + Len(stream) /\ Len(got) < dataLength
        BY <1>7, PendingBytes, Zenon DEF Types
      <4>3. Len(Pending) > 0
        BY <1>4, <4>2, SMT
      <4>4. PICK m \in Texts : Leads(m)
        BY <4>1, <4>3, SomethingLeads, Zenon
      <4>5. dataLength = Len(m) /\ \A x \in 1 .. Len(got) : got[x] = m[x]
        BY <1>7, <4>1, <4>4, InnerLeads, Zenon
      <4>6. Len(m) \in Nat /\ Len(Framed(m)) = 4 + Len(m)
        BY FramedBytes, TextBytes
      <4>7. Len(got) < Len(m)
        BY <4>2, <4>5, Zenon
      <4>8. Len(got) <= Len(m) /\ Len(got) \in 0 .. Len(m) /\ ~(Len(Framed(m)) <= Len(Pending))
        BY <1>4, <4>2, <4>6, <4>7, SMT
      <4>9. got = SubSeq(m, 1, Len(got))
        BY <1>4, <4>5, <4>8, Cut, Zenon
      <4>10. Len(shown) = Len(wire)
        BY <4>4, <4>8, Zenon DEF Leads
      <4> QED
        BY <4>8, <4>9, <4>10, Zenon
    <3> QED
      BY <1>1, <3>1, <3>2
  <2>2. PICK m \in Texts, n \in Nat : /\ n \in 0 .. Len(m) /\ got = SubSeq(m, 1, n)
                                      /\ link = "closed" => Len(shown) = Len(wire)
    BY <2>1
  <2>3. CString(got) = SubSeq(m, 1, n)
    <3>1. m \in Seq(Char) /\ Len(m) \in Nat
      BY TextBytes
    <3>2. SubSeq(m, 1, n) \in Seq(Char)
      BY <2>2, <3>1, SMT
    <3> QED
      BY <2>2, <3>2, PrintedWhole, Zenon
  <2>4. (link = "reset" /\ Stage = "lost") \/ (link = "closed" /\ Stage = "closing")
    <3>1. rpc # "broken"
      BY <1>7, SMT
    <3> QED
      BY <1>1, <1>7, <3>1, SMT DEF Stage
  <2>5. shown' = Append(shown, SubSeq(m, 1, n))
    BY <1>7, <2>3
  <2>6. Stage = "lost" \/ (Stage = "closing" /\ Len(shown) = Len(wire))
    BY <2>2, <2>4, Zenon
  <2>7. \E n_1 \in 0 .. Len(m) : shown' = Append(shown, SubSeq(m, 1, n_1))
    BY <2>2, <2>5, Zenon
  <2>8. Abstract!Cut(m)
    BY <1>1, <1>3, <2>6, <2>7, Zenon DEF Abstract!Cut, Abstract!AllDelivered, Stage
  <2> QED
    BY <1>2, <2>8, Zenon DEF ChannelStep, Abstract!Next
<1> QED
  BY <1>1, <1>5, <1>6, <1>7

(* Once the framing has failed it stays so.                                *)
LEMMA IntactBefore ==
  ASSUME Next, Intact'
  PROVE  Intact
<1>1. UNCHANGED <<sender, receiver>>
  BY Zenon DEF Next, Sender, Receiver, Reset, Connect, ConnectTimesOut, ConnectedLate,
     SendDataToRemoteServer, Send, SendFails, CloseClient, ReceiveBreaks, ReceiveWhole, ReceivePart,
     ReceiveMore, ReceiveRaw, PeerGone, PeerGoneRaw, connection, recvFrame
<1>2. torn => torn'
  BY Zenon DEF Next, Sender, Receiver, Reset, Connect, ConnectTimesOut, ConnectedLate,
     SendDataToRemoteServer, Send, SendFails, CloseClient, ReceiveBreaks, ReceiveWhole, ReceivePart,
     ReceiveMore, ReceiveRaw, PeerGone, PeerGoneRaw, recvFrame, onWire
<1>3. misread => misread'
  BY Zenon DEF Next, Sender, Receiver, Reset, Connect, ConnectTimesOut, ConnectedLate,
     SendDataToRemoteServer, Send, SendFails, CloseClient, ReceiveBreaks, ReceiveWhole, ReceivePart,
     ReceiveMore, ReceiveRaw, PeerGone, PeerGoneRaw, Misread
<1> QED
  BY <1>1, <1>2, <1>3, Zenon DEF Intact

LEMMA EveryStep ==
  ASSUME Types, Sends, Channel, Next
  PROVE  Channel' /\ ChannelStep
<1>1. CASE ~Intact'
  <2>1. Channel'
    BY <1>1, Zenon DEF Channel
  <2>2. Stage' = "garbled"
    BY <1>1, Zenon DEF Stage
  <2>3. Abstract!Garbled
    BY <2>2, Zenon DEF Abstract!Garbled, Stage
  <2> QED
    BY <2>1, <2>3, Zenon DEF ChannelStep, Abstract!Next
<1>2. CASE Intact'
  <2>1. Intact
    BY <1>2, IntactBefore, Zenon
  <2>2. CASE Sender
    BY <1>2, <2>1, <2>2, OpenStep, OfferStep, SendStep, DropStep, Zenon DEF Sender
  <2>3. CASE Reset
    BY <1>2, <2>1, <2>3, LoseStep
  <2>4. CASE Receiver
    <3>1. ASSUME NEW k \in 1 .. Len(stream), ReceiveRaw(k) PROVE FALSE
      BY <2>1, <3>1, SMT DEF ReceiveRaw, Intact
    <3>2. ~PeerGoneRaw
      BY <2>1, SMT DEF PeerGoneRaw, Intact
    <3> QED
      BY <1>2, <2>1, <2>4, <3>1, <3>2, NoBreak, WholeStep, PartStep, MoreStep, GoneStep, Zenon
      DEF Receiver
  <2> QED
    BY <2>2, <2>3, <2>4 DEF Next
<1> QED
  BY <1>1, <1>2

LEMMA InitChannel == Init => Channel
<1> SUFFICES ASSUME Init, Intact PROVE Channel
  BY Zenon DEF Channel
<1>1. /\ link = "none" /\ stream = <<>> /\ text = [t \in Messages |-> NoText]
      /\ rpc = "recv" /\ shown = <<>> /\ wire = <<>> /\ open = 0
  BY DEF Init
<1> DEFINE e == [j \in 0 .. 0 |-> 0]
<1>2. Pending = <<>> /\ Part = 0
  BY <1>1, SMT DEF Pending, Part
<1>3. Len(wire) = 0 /\ Len(shown) = 0
  BY <1>1
<1>4. /\ e \in [0 .. 0 -> Nat] /\ e[0] = 0 /\ e[0] - e[0] + 0 = 0
      /\ \A j, k \in 0 .. 0 : j <= k => e[j] <= e[k]
  BY SMT
<1> HIDE DEF e
<1>5. Ends(e, <<>>, 0, <<>>, 0)
  <2>1. Len(<<>>) = 0 /\ 1 .. 0 = {} /\ 0 <= 0
    BY SMT
  <2> QED
    BY <1>4, <2>1, Zenon DEF Ends
<1>6. Follows(e)
  BY <1>1, <1>2, <1>3, <1>5, Zenon DEF Follows
<1>7. rpc # "broken" /\ rpc # "inner" /\ link # "reset"
  BY <1>1, SMT
<1>8. \A t \in Messages : text[t] = NoText
  BY <1>1, Zenon
<1> QED
  BY <1>1, <1>6, <1>7, <1>8, Zenon DEF Channel

LEMMA ChannelNext == IInv /\ Channel /\ [Next]_vars => Channel' /\ [Abstract!Next]_(Abstract!chanVars)
<1>1. ASSUME IInv, Channel, Next PROVE Channel' /\ [Abstract!Next]_(Abstract!chanVars)
  <2>1. Channel' /\ ChannelStep
    BY <1>1, EveryStep, Zenon DEF IInv
  <2> QED
    BY <2>1, Zenon DEF ChannelStep, Abstract!chanVars, Stage
<1>2. ASSUME Channel, UNCHANGED vars PROVE Channel' /\ [Abstract!Next]_(Abstract!chanVars)
  <2>1. UNCHANGED <<sender, receiver, link, stream, blocking, asked, text, out, rpc, dataLength,
                    got, shown, wire, taken, open, torn, misread>>
    BY <1>2 DEF vars, connection, sending, receiving, onWire
  <2>2. Channel'
    BY <1>2, <2>1, Zenon DEF Channel, Intact, Follows, Pending, Part
  <2>3. UNCHANGED Abstract!chanVars
    BY <2>1, Zenon DEF Abstract!chanVars, Intact
  <2> QED
    BY <2>2, <2>3
<1> QED
  BY <1>1, <1>2

LEMMA ChannelInvariance == Spec => [](IInv /\ Channel)
  BY InitChannel, Invariance, ChannelNext, PTL DEF Spec, Safety

(* Between a framed sender and a framed receiver every step is one of the  *)
(* channel of messages or invisible to it, whatever the pieces.            *)
THEOREM ImplementsChannelSafety == Spec => Abstract!Safety
<1>1. Init => Abstract!Init
  <2> SUFFICES ASSUME Init PROVE Abstract!Init
    OBVIOUS
  <2>1. /\ text = [t \in Messages |-> NoText] /\ wire = <<>> /\ shown = <<>>
        /\ link = "none" /\ rpc = "recv"
    BY DEF Init
  <2>2. Stage \in {"new", "garbled"}
    BY <2>1, SMT DEF Stage
  <2> QED
    BY <2>1, <2>2, Zenon DEF Abstract!Init, Stage
<1> QED
  BY <1>1, ChannelNext, ChannelInvariance, PTL DEF Spec, Safety, Abstract!Safety

-----------------------------------------------------------------------------
(* What the channel promises of the texts.                                 *)

(* The first n that were printed are the first n that were sent.           *)
AsSent(n) == n <= Len(wire) /\ \A j \in 1 .. n : shown[j] = wire[j]

(* All but the last are, and that is the beginning of a text.              *)
CutShort == LET n == Len(shown) - 1
            IN  /\ n \in 0 .. Len(wire) /\ AsSent(n)
                /\ \E m \in Texts : \E k \in 0 .. Len(m) : shown[n + 1] = SubSeq(m, 1, k)

(* As long as the framing works and the connection is there, what has been *)
(* printed is what has been sent, from the first message on: none is       *)
(* missing, twice, in another order or in parts.  After the connection     *)
(* only the last one may be the beginning of a text.  The process goes on  *)
(* (src/AsynClientSocket/AsynClientSocket.cpp:191-218,                     *)
(* src/TwowaySocket/AsynServerSocket.cpp:264-330).                         *)
ShownAsSent ==
    Intact => /\ rpc # "broken"
              /\ AsSent(Len(shown)) \/ (link = "reset" /\ CutShort)

(* The same by the stages of the channel.                                  *)
Promise ==
    /\ Stage \in {"new", "open", "closing", "lost", "over", "garbled"}
    /\ Stage \in {"new", "open", "closing", "lost"} => AsSent(Len(shown))
    /\ Stage = "over" => AsSent(Len(shown)) \/ CutShort

LEMMA SameShown ==
  ASSUME Types, Types', shown' = shown,
         wire' = wire \/ \E t \in Messages : wire' = Append(wire, text[t]) /\ text[t] \in Texts
  PROVE  /\ AsSent(Len(shown)) => AsSent(Len(shown))'
         /\ CutShort => CutShort'
<1>1. /\ wire \in Seq(Texts) /\ wire' \in Seq(Texts) /\ shown \in Seq(Seq(Char))
      /\ Len(wire) \in Nat /\ Len(wire') \in Nat /\ Len(shown) \in Nat
  BY LenProperties DEF Types
<1>2. Len(wire) <= Len(wire') /\ \A j \in 1 .. Len(wire) : wire'[j] = wire[j]
  <2>1. CASE wire' = wire
    BY <1>1, <2>1
  <2>2. ASSUME NEW t \in Messages, wire' = Append(wire, text[t]), text[t] \in Texts
        PROVE  Len(wire) <= Len(wire') /\ \A j \in 1 .. Len(wire) : wire'[j] = wire[j]
    BY <1>1, <2>2, SMT
  <2> QED
    BY <2>1, <2>2
<1>3. ASSUME NEW n \in 0 .. Len(shown), AsSent(n) PROVE n <= Len(wire') /\ \A j \in 1 .. n : shown[j] = wire'[j]
  <2>1. n <= Len(wire) /\ \A j \in 1 .. n : shown[j] = wire[j]
    BY <1>3 DEF AsSent
  <2> QED
    BY <1>1, <1>2, <2>1, SMT
<1>4. ASSUME AsSent(Len(shown)) PROVE AsSent(Len(shown))'
  <2>1. Len(shown) \in 0 .. Len(shown)
    BY <1>1, SMT
  <2> QED
    BY <1>3, <1>4, <2>1, Zenon DEF AsSent
<1>5. ASSUME CutShort PROVE CutShort'
  <2>1. /\ Len(shown) - 1 \in 0 .. Len(wire) /\ AsSent(Len(shown) - 1)
        /\ \E m \in Texts : \E k \in 0 .. Len(m) : shown[Len(shown) - 1 + 1] = SubSeq(m, 1, k)
    BY <1>5 DEF CutShort
  <2>2. Len(shown) - 1 \in 0 .. Len(shown) /\ Len(shown) - 1 \in 0 .. Len(wire')
    BY <1>1, <1>2, <2>1, SMT
  <2>3. Len(shown) - 1 <= Len(wire') /\ \A j \in 1 .. (Len(shown) - 1) : shown[j] = wire'[j]
    BY <1>3, <2>1, <2>2
  <2> QED
    BY <2>1, <2>2, <2>3, Zenon DEF CutShort, AsSent
<1> QED
  BY <1>4, <1>5

LEMMA PromiseStep ==
  ASSUME Types, Types', Promise, ChannelStep
  PROVE  Promise'
<1>1. /\ wire \in Seq(Texts) /\ shown \in Seq(Seq(Char)) /\ text \in [Messages -> Texts \cup {NoText}]
      /\ shown' \in Seq(Seq(Char))
      /\ Len(wire) \in Nat /\ Len(shown) \in Nat
  BY LenProperties DEF Types
<1> DEFINE S == Stage
           T == Stage'
<1>2. /\ S \in {"new", "open", "closing", "lost", "over", "garbled"}
      /\ S \in {"new", "open", "closing", "lost"} => AsSent(Len(shown))
      /\ S = "over" => AsSent(Len(shown)) \/ CutShort
  BY Zenon DEF Promise
<1>3. SUFFICES
        /\ T \in {"new", "open", "closing", "lost", "over", "garbled"}
        /\ T \in {"new", "open", "closing", "lost"} => AsSent(Len(shown))'
        /\ T = "over" => (AsSent(Len(shown)) \/ CutShort)'
  BY Zenon DEF Promise
<1>4. ASSUME shown' = shown, T \in {S, "garbled"} \/ (S = "new" /\ T = "open")
                \/ (S = "open" /\ T = "closing") \/ (S \in {"open", "closing"} /\ T \in {"lost", "over"}),
             wire' = wire \/ \E t \in Messages : wire' = Append(wire, text[t]) /\ text[t] \in Texts
      PROVE  /\ T \in {"new", "open", "closing", "lost", "over", "garbled"}
             /\ T \in {"new", "open", "closing", "lost"} => AsSent(Len(shown))'
             /\ T = "over" => (AsSent(Len(shown)) \/ CutShort)'
  <2>1. /\ AsSent(Len(shown)) => AsSent(Len(shown))'
        /\ CutShort => CutShort'
    BY <1>4, SameShown, Zenon
  <2> HIDE DEF S, T
  <2> QED
    BY <1>2, <1>4, <2>1, Zenon
<1>5. CASE UNCHANGED <<text, wire, shown, Stage>>
  BY <1>4, <1>5, Zenon
<1>6. ASSUME NEW c \in Messages, Abstract!Enter(c)
      PROVE shown' = shown /\ T = S /\ \E t \in Messages : wire' = Append(wire, text[t]) /\ text[t] \in Texts
  <2>1. text[c] # NoText /\ wire' = Append(wire, text[c]) /\ shown' = shown /\ T = S
    BY <1>6, Zenon DEF Abstract!Enter, Stage
  <2>2. text[c] \in Texts
    BY <1>1, <2>1
  <2> QED
    BY <2>1, <2>2, Zenon
<1>7. ASSUME NEW c \in Messages, Abstract!Drop(c)
      PROVE shown' = shown /\ wire' = wire /\ (T = S \/ (S = "open" /\ T = "closing"))
  BY <1>7, Zenon DEF Abstract!Drop, Stage
<1>8. ASSUME NEW c \in Messages, NEW m \in Texts, Abstract!Offer(c, m)
      PROVE shown' = shown /\ wire' = wire /\ T = S
  BY <1>8, Zenon DEF Abstract!Offer, Stage
<1>9. CASE Abstract!Open
  BY <1>4, <1>9, Zenon DEF Abstract!Open, Stage
<1>10. CASE Abstract!Close
  BY <1>4, <1>10, Zenon DEF Abstract!Close, Stage
<1>11. CASE Abstract!Finish
  BY <1>4, <1>11, Zenon DEF Abstract!Finish, Stage
<1>12. CASE Abstract!Lose
  BY <1>4, <1>12, Zenon DEF Abstract!Lose, Stage
<1>13. CASE Abstract!Garbled
  BY <1>13, Zenon DEF Abstract!Garbled, Stage
<1>14. CASE Abstract!Deliver
  <2>1. /\ S \in {"open", "closing"} /\ T = S /\ Len(shown) # Len(wire)
        /\ shown' = Append(shown, wire[Len(shown) + 1]) /\ wire' = wire
    BY <1>14, Zenon DEF Abstract!Deliver, Abstract!AllDelivered, Stage
  <2>2. Len(shown) <= Len(wire) /\ \A j \in 1 .. Len(shown) : shown[j] = wire[j]
    BY <1>2, <2>1, Zenon DEF AsSent
  <2>3. /\ Len(shown') = Len(shown) + 1 /\ shown'[Len(shown) + 1] = wire[Len(shown) + 1]
        /\ \A j \in 1 .. Len(shown) : shown'[j] = shown[j]
    BY <1>1, <2>1, AppendProperties, SMT
  <2>4. Len(shown') <= Len(wire)
    BY <1>1, <2>1, <2>2, <2>3, SMT
  <2>5. ASSUME NEW j \in 1 .. Len(shown') PROVE shown'[j] = wire[j]
    <3>1. j \in 1 .. Len(shown) \/ j = Len(shown) + 1
      BY <1>1, <2>3, SMT
    <3> QED
      BY <2>2, <2>3, <3>1, Zenon
  <2>6. AsSent(Len(shown))'
    BY <2>1, <2>4, <2>5, Zenon DEF AsSent
  <2> HIDE DEF S, T
  <2> QED
    BY <2>1, <2>6, Zenon
<1>15. ASSUME NEW m \in Texts, Abstract!Cut(m)
       PROVE  T = "over" /\ CutShort'
  <2>1. S \in {"lost", "closing"} /\ T = "over" /\ wire' = wire
    BY <1>15, Zenon DEF Abstract!Cut, Stage
  <2>2. PICK k \in 0 .. Len(m) : shown' = Append(shown, SubSeq(m, 1, k))
    BY <1>15, Zenon DEF Abstract!Cut
  <2>3. Len(shown) <= Len(wire) /\ \A j \in 1 .. Len(shown) : shown[j] = wire[j]
    BY <1>2, <2>1, Zenon DEF AsSent
  <2> DEFINE x == SubSeq(m, 1, k)
  <2> HIDE DEF x
  <2>4. /\ Len(shown') = Len(shown) + 1 /\ shown'[Len(shown) + 1] = x
        /\ \A j \in 1 .. Len(shown) : shown'[j] = shown[j]
    <3>1. shown' = Append(shown, x)
      BY <2>2 DEF x
    <3> QED
      BY <1>1, <3>1, SMT
  <2>5. Len(shown') - 1 = Len(shown) /\ Len(shown) \in 0 .. Len(wire)
    BY <1>1, <2>3, <2>4, SMT
  <2>6. \A j \in 1 .. Len(shown) : shown'[j] = wire[j]
    BY <2>3, <2>4, Zenon
  <2>7. CutShort'
    BY <2>1, <2>3, <2>4, <2>5, <2>6, Zenon DEF CutShort, AsSent, x
  <2> QED
    BY <2>1, <2>7
<1>16. CASE Abstract!Next
  BY <1>4, <1>6, <1>7, <1>8, <1>9, <1>10, <1>11, <1>12, <1>13, <1>14, <1>15, <1>16, Zenon
     DEF Abstract!Next
<1> QED
  BY <1>5, <1>16, Zenon DEF ChannelStep

(* The steps are those of the channel, and each of them keeps its promise. *)
THEOREM ShownInOrder == Spec => []ShownAsSent
<1>1. Init => Promise
  <2> SUFFICES ASSUME Init PROVE Promise
    OBVIOUS
  <2>1. /\ shown = <<>> /\ wire = <<>> /\ Stage \in {"new", "garbled"}
    BY DEF Init, Stage
  <2>2. AsSent(Len(shown))
    BY <2>1, SMT DEF AsSent
  <2> QED
    BY <2>1, <2>2, Zenon DEF Promise
<1>2. IInv /\ IInv' /\ Promise /\ [Abstract!Next]_(Abstract!chanVars) => Promise'
  BY PromiseStep, Zenon DEF IInv, ChannelStep, Abstract!chanVars, Stage
<1>3. Promise => ShownAsSent
  <2> SUFFICES ASSUME Promise, Intact
               PROVE  /\ rpc # "broken"
                      /\ AsSent(Len(shown)) \/ (link = "reset" /\ CutShort)
    BY Zenon DEF ShownAsSent
  <2>1. rpc # "broken"
    BY SMT DEF Promise, Stage
  <2>2. Stage = "over" => link = "reset"
    BY SMT DEF Stage
  <2>3. Stage # "garbled"
    BY SMT DEF Stage
  <2> QED
    BY <2>1, <2>2, <2>3, Zenon DEF Promise
<1> QED
  BY <1>1, <1>2, <1>3, Invariance, ImplementsChannelSafety, PTL DEF Spec, Safety, Abstract!Safety

-----------------------------------------------------------------------------
(* What the fairness of the channel asks of every state.                   *)

(* A text that is sent and not yet printed still has bytes to be taken,    *)
(* and the receiver takes them: no recv has taken the last byte of a       *)
(* message and gone on waiting (AsynServerSocket.cpp:283).                 *)
OwedIsThere ==
    Intact /\ link # "reset" /\ Len(shown) < Len(wire) =>
      stream # <<>> /\ rpc \in {"recv", "inner"}

(* The receive thread ends with the connection (line 249).                 *)
EndsWithLink == rpc = "ended" => link = "reset"

LEMMA EndsWithLinkStep == EndsWithLink /\ [Next]_vars => EndsWithLink'
<1> SUFFICES ASSUME EndsWithLink, [Next]_vars PROVE EndsWithLink'
  OBVIOUS
<1> USE DEF EndsWithLink
<1>1. CASE Sender
  <2>1. CASE \E t \in Messages : Send(t)
    BY <2>1 DEF Send, receiving
  <2>2. CASE \E t \in Messages : SendFails(t)
    BY <2>2 DEF SendFails, CloseLink, receiving
  <2>3. CASE \E m \in Texts : SendDataToRemoteServer(m)
    BY <2>3 DEF SendDataToRemoteServer, connection, receiving
  <2>4. CASE Connect \/ ConnectTimesOut \/ ConnectedLate \/ CloseClient
    BY <2>4 DEF Connect, ConnectTimesOut, ConnectedLate, CloseClient, CloseLink, receiving
  <2> QED
    BY <1>1, <2>1, <2>2, <2>3, <2>4, Zenon DEF Sender
<1>2. CASE Reset
  BY <1>2 DEF Reset
<1>3. ASSUME NEW k \in 1 .. Len(stream),
             \/ ReceiveBreaks(k) \/ ReceiveWhole(k) \/ ReceivePart(k) \/ ReceiveMore(k)
             \/ ReceiveRaw(k)
      PROVE  EndsWithLink'
  BY <1>3, SMT DEF ReceiveBreaks, ReceiveWhole, ReceivePart, ReceiveMore, ReceiveRaw
<1>4. CASE PeerGone
  BY <1>4 DEF PeerGone
<1>5. CASE PeerGoneRaw
  BY <1>5 DEF PeerGoneRaw
<1>6. CASE UNCHANGED vars
  BY <1>6 DEF vars, connection, receiving
<1> QED
  BY <1>1, <1>2, <1>3, <1>4, <1>5, <1>6, Zenon DEF Next, Receiver

(* The bytes that are owed are never all in the hands of the receiver.     *)
LEMMA OwedWaits ==
  ASSUME Types, Channel, Intact, link # "reset", Len(shown) < Len(wire)
  PROVE  stream # <<>>
<1>1. PICK e : Follows(e)
  BY Zenon DEF Channel
<1>2. rpc = "inner" => dataLength < Huge
  BY Zenon DEF Channel
<1>3. /\ Pending \in Seq(Byte) /\ Part \in Nat /\ Len(shown) \in Nat /\ wire \in Seq(Texts)
      /\ Len(Pending) \in Nat /\ Len(stream) \in Nat /\ Len(got) \in Nat /\ dataLength \in Nat
  BY PendingBytes, LenProperties, Zenon DEF Types
<1> DEFINE m == wire[Len(shown) + 1]
<1>4. m \in Texts /\ Len(Framed(m)) <= Len(Pending)
  BY <1>1, <1>3, First, Zenon DEF Follows
<1> HIDE DEF m
<1>5. Len(Framed(m)) = 4 + Len(m) /\ Len(m) \in Nat
  BY <1>4, FramedBytes, TextBytes, Zenon
<1>6. CASE rpc = "inner"
  <2>1. Len(Pending) > 0
    BY <1>3, <1>4, <1>5, SMT
  <2>2. PICK x \in Texts : Leads(x)
    BY <1>1, <2>1, SomethingLeads, Zenon
  <2>3. dataLength = Len(x)
    BY <1>2, <1>6, <2>2, InnerLeads, Zenon
  <2>4. x = m
    BY <2>2, Zenon DEF Leads, m
  <2>5. Len(Pending) = 4 + Len(got) + Len(stream) /\ Len(got) < dataLength
    BY <1>6, PendingBytes, Zenon DEF Types
  <2>6. Len(stream) > 0
    BY <1>3, <1>4, <1>5, <2>3, <2>4, <2>5, SMT
  <2> QED
    BY <2>6, SMT
<1>7. CASE rpc # "inner"
  <2>1. Pending = stream
    BY <1>7, Zenon DEF Pending
  <2>2. Len(stream) > 0
    BY <1>3, <1>4, <1>5, <2>1, SMT
  <2> QED
    BY <2>2, SMT
<1> QED
  BY <1>6, <1>7

(* Deliver is owed only when the receiver has something to receive.        *)
THEOREM OwedCanBeTaken == Spec => []OwedIsThere
<1>1. Init => EndsWithLink
  BY DEF Init, EndsWithLink
<1>2. IInv /\ Channel /\ EndsWithLink => OwedIsThere
  <2> SUFFICES ASSUME IInv, Channel, EndsWithLink, Intact, link # "reset", Len(shown) < Len(wire)
               PROVE  stream # <<>> /\ rpc \in {"recv", "inner"}
    BY Zenon DEF OwedIsThere
  <2>1. stream # <<>>
    BY OwedWaits, Zenon DEF IInv
  <2>2. rpc \in {"recv", "inner", "ended", "broken"} /\ rpc # "broken" /\ rpc # "ended"
    BY Zenon DEF IInv, Types, Channel, EndsWithLink
  <2> QED
    BY <2>1, <2>2
<1> QED
  BY <1>1, <1>2, ChannelInvariance, EndsWithLinkStep, PTL DEF Spec, Safety
=============================================================================
