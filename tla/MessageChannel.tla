--------------------------- MODULE MessageChannel ---------------------------
(***************************************************************************)
(* What the sockets promise as long as their framing works: a channel of   *)
(* messages.  A message that is offered enters or is dropped; those that   *)
(* enter are delivered whole, once and in the order in which they did.     *)
(* The sender may close the channel, and what has entered is then still    *)
(* delivered; the network may lose it, and then the last message may come  *)
(* as a part of itself.  When the framing fails ("garbled"), nothing is    *)
(* promised any more.                                                      *)
(***************************************************************************)
EXTENDS Naturals, Sequences

CONSTANTS Items, NoItem,
          Calls       (* the calls that offer an item                      *)

VARIABLES offered,    (* offered[c]: the item of call c, not in yet        *)
          entered,    (* every item that entered, in order                 *)
          delivered,  (* every item delivered, in order                    *)
          state       (* new, open, closing, lost, over or garbled         *)

chanVars == <<offered, entered, delivered, state>>

Init ==
    /\ offered = [c \in Calls |-> NoItem]
    /\ entered = <<>> /\ delivered = <<>>
    /\ state \in {"new", "garbled"}

AllDelivered == Len(delivered) = Len(entered)

Open ==
    /\ state = "new" /\ state' = "open"
    /\ UNCHANGED <<offered, entered, delivered>>

Offer(c, m) ==
    /\ offered[c] = NoItem
    /\ offered' = [offered EXCEPT ![c] = m]
    /\ UNCHANGED <<entered, delivered, state>>

Enter(c) ==
    /\ state = "open"
    /\ offered[c] # NoItem
    /\ entered' = Append(entered, offered[c])
    /\ offered' = [offered EXCEPT ![c] = NoItem]
    /\ UNCHANGED <<delivered, state>>

(* Nobody is told; the channel may be closed at the same time.             *)
Drop(c) ==
    /\ offered[c] # NoItem
    /\ offered' = [offered EXCEPT ![c] = NoItem]
    /\ state' = state \/ (state = "open" /\ state' = "closing")
    /\ UNCHANGED <<entered, delivered>>

Deliver ==
    /\ state \in {"open", "closing"}
    /\ ~AllDelivered
    /\ delivered' = Append(delivered, entered[Len(delivered) + 1])
    /\ UNCHANGED <<offered, entered, state>>

Close ==
    /\ state = "open" /\ state' = "closing"
    /\ UNCHANGED <<offered, entered, delivered>>

Finish ==
    /\ state = "closing" /\ state' = "over"
    /\ AllDelivered
    /\ UNCHANGED <<offered, entered, delivered>>

Lose ==
    /\ state \in {"open", "closing"} /\ state' \in {"lost", "over"}
    /\ UNCHANGED <<offered, entered, delivered>>

(* The part that had come of a message when the connection ended.          *)
Cut(m) ==
    /\ state = "lost" \/ (state = "closing" /\ AllDelivered)
    /\ state' = "over"
    /\ \E n \in 0 .. Len(m) : delivered' = Append(delivered, SubSeq(m, 1, n))
    /\ UNCHANGED <<offered, entered>>

Garbled == state' = "garbled"

Next ==
    \/ \E c \in Calls : Enter(c) \/ Drop(c) \/ \E m \in Items : Offer(c, m)
    \/ \E m \in Items : Cut(m)
    \/ Open \/ Deliver \/ Close \/ Finish \/ Lose
    \/ Garbled

Fairness ==
    /\ \A c \in Calls : WF_chanVars(Enter(c))
    /\ WF_chanVars(Deliver) /\ WF_chanVars(Finish)

Safety == Init /\ [][Next]_chanVars
Spec == Safety /\ Fairness
=============================================================================
