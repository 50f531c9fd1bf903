---------------------------- MODULE ClosableQueue ----------------------------
(***************************************************************************)
(* What ThreadSafeQueue promises to the threads that share it, said        *)
(* without a lock, a condition variable or a notification: a FIFO that can *)
(* be closed.  A taker that finds nothing blocks; a blocked taker takes as *)
(* soon as there is an item, or is refused once the queue is closed and    *)
(* empty.  A put that was accepted before the close may land after it.     *)
(***************************************************************************)
EXTENDS Naturals, Sequences

CONSTANTS Putters,  (* threads that put items                              *)
          Takers,   (* threads that take items                             *)
          Items,    (* what is put                                         *)
          NoItem    (* not an item                                         *)

VARIABLES items,      (* the items in the queue, oldest first              *)
          closed,     (* has the queue been closed                         *)
          accepted,   (* accepted[p]: item of p accepted but not in yet    *)
          blocked,    (* takers blocked for an item                        *)
          taken       (* every item taken so far, in order                 *)

absVars == <<items, closed, accepted, blocked, taken>>

Init ==
    /\ items = <<>>
    /\ closed = FALSE
    /\ accepted = [p \in Putters |-> NoItem]
    /\ blocked = {}
    /\ taken = <<>>

Accept(p, v) ==
    /\ ~closed
    /\ accepted[p] = NoItem
    /\ accepted' = [accepted EXCEPT ![p] = v]
    /\ UNCHANGED <<items, closed, blocked, taken>>

Land(p) ==
    /\ accepted[p] # NoItem
    /\ items' = Append(items, accepted[p])
    /\ accepted' = [accepted EXCEPT ![p] = NoItem]
    /\ UNCHANGED <<closed, blocked, taken>>

Take(c) ==
    /\ items # <<>>
    /\ taken' = Append(taken, Head(items))
    /\ items' = Tail(items)
    /\ blocked' = blocked \ {c}
    /\ UNCHANGED <<closed, accepted>>

Block(c) ==
    /\ items = <<>>
    /\ ~closed
    /\ blocked' = blocked \cup {c}
    /\ UNCHANGED <<items, closed, accepted, taken>>

Refuse(c) ==
    /\ c \in blocked
    /\ closed
    /\ items = <<>>
    /\ blocked' = blocked \ {c}
    /\ UNCHANGED <<items, closed, accepted, taken>>

Close ==
    /\ closed' = TRUE
    /\ UNCHANGED <<items, accepted, blocked, taken>>

Next ==
    \/ \E p \in Putters : Land(p) \/ \E v \in Items : Accept(p, v)
    \/ \E c \in Takers : Take(c) \/ Block(c) \/ Refuse(c)
    \/ Close

Safety == Init /\ [][Next]_absVars

(* Accepted items land; while items and blocked takers exist, some blocked *)
(* taker is served; a blocked taker of a closed empty queue is refused.    *)
Fairness ==
    /\ \A p \in Putters : WF_absVars(Land(p))
    /\ WF_absVars(\E c \in blocked : Take(c))
    /\ \A c \in Takers : WF_absVars(Refuse(c))

Spec == Safety /\ Fairness
==============================================================================
