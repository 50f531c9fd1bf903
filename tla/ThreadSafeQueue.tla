--------------------------- MODULE ThreadSafeQueue ---------------------------
(***************************************************************************)
(* The queue of src/ThreadSafeQueue/ThreadSafeQueue.h: a std::queue behind *)
(* a mutex, a condition variable for the consumers, and an atomic flag     *)
(* m_bTermination that switches the queue to its exit state.               *)
(*                                                                         *)
(* A critical section is one action: everything it touches is either       *)
(* guarded by m_Mutex or is the atomic flag, which the only unlocked       *)
(* readers (line 95 of Push, IsTermination) read in one step.  The flag is *)
(* read by Push BEFORE the lock is taken, so Push is two actions.          *)
(*                                                                         *)
(* The condition variable is the set of the consumers that sleep on it;    *)
(* a notified consumer moves to woken and runs the predicate again when it *)
(* gets the mutex, and any sleeper may wake up spuriously.                 *)
(***************************************************************************)
EXTENDS Integers, FiniteSets, Sequences

CONSTANTS Producers,  (* threads that call Push                            *)
          Consumers,  (* threads that call WaitAndPop and TryPop           *)
          Values,     (* what is pushed                                    *)
          NoValue,    (* marks a producer that is not inside Push          *)
          MaxPush     (* bound: Push calls that get past the exit test     *)

ASSUME QueueAssumption ==
    /\ IsFiniteSet(Producers)
    /\ IsFiniteSet(Consumers)
    /\ NoValue \notin Values
    /\ MaxPush \in Nat

VARIABLES
    m_Queue,         (* the std::queue                                     *)
    m_bTermination,  (* the exit flag                                      *)
    incoming,        (* incoming[p]: the argument of p's Push, from the    *)
                     (* test of line 95 until the push of line 100         *)
    sleeping,        (* consumers asleep in m_ConditionVariable.wait       *)
    woken,           (* consumers woken there that do not hold the lock yet *)
    pushed,          (* history: every element enqueued                    *)
    popped,          (* history: every element dequeued                    *)
    late             (* history: elements enqueued in the exit state       *)

vars == <<m_Queue, m_bTermination, incoming, sleeping, woken,
          pushed, popped, late>>

InPush == {p \in Producers : incoming[p] # NoValue}

Init ==
    /\ m_Queue = <<>>
    /\ m_bTermination = FALSE
    /\ incoming = [p \in Producers |-> NoValue]
    /\ sleeping = {}
    /\ woken = {}
    /\ pushed = <<>>
    /\ popped = <<>>
    /\ late = 0

------------------------------------------------------------------------------
(* The condition variable.                                                 *)

NotifyOne ==
    \/ /\ sleeping = {}
       /\ UNCHANGED <<sleeping, woken>>
    \/ \E c \in sleeping :
          /\ sleeping' = sleeping \ {c}
          /\ woken' = woken \cup {c}

(* A plausible slip, for comparison: those notified stay in the wait set.  *)
NotifyAllKeepsSleepers ==
    /\ woken' = woken \cup sleeping
    /\ UNCHANGED sleeping

NotifyAll ==
    /\ woken' = woken \cup sleeping
    /\ sleeping' = {}

SpuriousWakeup(c) ==
    /\ c \in sleeping
    /\ sleeping' = sleeping \ {c}
    /\ woken' = woken \cup {c}
    /\ UNCHANGED <<m_Queue, m_bTermination, incoming, pushed, popped, late>>

------------------------------------------------------------------------------
(* Push: the test outside the lock, then the critical section.  A Push     *)
(* that finds the flag set returns and changes nothing.                    *)

(* A plausible slip, for comparison: no test of the exit flag.             *)
PushUntested(p, v) ==
    /\ incoming[p] = NoValue
    /\ Len(pushed) + Cardinality(InPush) < MaxPush
    /\ incoming' = [incoming EXCEPT ![p] = v]
    /\ UNCHANGED <<m_Queue, m_bTermination, sleeping, woken,
                   pushed, popped, late>>

PushTest(p, v) ==
    /\ incoming[p] = NoValue
    /\ ~m_bTermination
    /\ Len(pushed) + Cardinality(InPush) < MaxPush
    /\ incoming' = [incoming EXCEPT ![p] = v]
    /\ UNCHANGED <<m_Queue, m_bTermination, sleeping, woken,
                   pushed, popped, late>>

(* A plausible slip, for comparison: notify only when the queue was empty. *)
PushNotifiesIfEmpty(p) ==
    /\ incoming[p] # NoValue
    /\ m_Queue' = Append(m_Queue, incoming[p])
    /\ IF m_Queue = <<>> THEN NotifyOne ELSE UNCHANGED <<sleeping, woken>>
    /\ incoming' = [incoming EXCEPT ![p] = NoValue]
    /\ pushed' = Append(pushed, incoming[p])
    /\ late' = IF m_bTermination THEN late + 1 ELSE late
    /\ UNCHANGED <<m_bTermination, popped>>

PushEnqueue(p) ==
    /\ incoming[p] # NoValue
    /\ m_Queue' = Append(m_Queue, incoming[p])
    /\ NotifyOne
    /\ incoming' = [incoming EXCEPT ![p] = NoValue]
    /\ pushed' = Append(pushed, incoming[p])
    /\ late' = IF m_bTermination THEN late + 1 ELSE late
    /\ UNCHANGED <<m_bTermination, popped>>

------------------------------------------------------------------------------
(* The consumers.                                                          *)

(* A plausible slip, for comparison: front() without pop().                *)
PeekFront ==
    /\ m_Queue # <<>>
    /\ m_Queue' = m_Queue
    /\ popped' = Append(popped, Head(m_Queue))

PopFront ==
    /\ m_Queue # <<>>
    /\ m_Queue' = Tail(m_Queue)
    /\ popped' = Append(popped, Head(m_Queue))

(* A plausible slip, for comparison: the exit flag is looked at before the *)
(* queue, so that what is queued at exit is refused.                       *)
WaitAndPopExitFirst(c) ==
    /\ c \notin sleeping
    /\ \/ /\ ~m_bTermination
          /\ PopFront
          /\ UNCHANGED sleeping
       \/ /\ m_bTermination
          /\ UNCHANGED <<m_Queue, popped, sleeping>>
       \/ /\ m_Queue = <<>>
          /\ ~m_bTermination
          /\ sleeping' = sleeping \cup {c}
          /\ UNCHANGED <<m_Queue, popped>>
    /\ woken' = woken \ {c}
    /\ UNCHANGED <<m_bTermination, incoming, pushed, late>>

(* The rest of a WaitAndPop of c, from the moment it holds the lock: on    *)
(* entry, or because the condition variable woke it up.                    *)
WaitAndPop(c) ==
    /\ c \notin sleeping
    /\ \/ /\ PopFront
          /\ UNCHANGED sleeping
       \/ /\ m_Queue = <<>>
          /\ m_bTermination
          /\ UNCHANGED <<m_Queue, popped, sleeping>>
       \/ /\ m_Queue = <<>>
          /\ ~m_bTermination
          /\ sleeping' = sleeping \cup {c}
          /\ UNCHANGED <<m_Queue, popped>>
    /\ woken' = woken \ {c}
    /\ UNCHANGED <<m_bTermination, incoming, pushed, late>>

(* A TryPop of a thread that is not blocked in WaitAndPop; on an empty     *)
(* queue it returns false and changes nothing.                             *)
TryPop(c) ==
    /\ c \notin sleeping \cup woken
    /\ PopFront
    /\ UNCHANGED <<m_bTermination, incoming, sleeping, woken, pushed, late>>

Termination ==
    /\ m_bTermination' = TRUE
    /\ NotifyAll
    /\ UNCHANGED <<m_Queue, incoming, pushed, popped, late>>

Next ==
    \/ \E p \in Producers : PushEnqueue(p) \/ \E v \in Values : PushTest(p, v)
    \/ \E c \in Consumers : WaitAndPop(c) \/ TryPop(c) \/ SpuriousWakeup(c)
    \/ Termination

(* A thread that is inside a call and waits for nothing but the mutex gets *)
(* it; nobody is obliged to call anything.                                 *)
Resume(c) == c \in woken /\ WaitAndPop(c)

Fairness ==
    /\ \A p \in Producers : WF_vars(PushEnqueue(p))
    /\ \A c \in Consumers : WF_vars(Resume(c))

Safety == Init /\ [][Next]_vars
Spec == Safety /\ Fairness

------------------------------------------------------------------------------
(* Properties.                                                             *)

(* Every variable holds what its C++ declaration allows, and a consumer is *)
(* not asleep and awake at once.                                           *)
TypeOK ==
    /\ m_Queue \in Seq(Values)
    /\ m_bTermination \in BOOLEAN
    /\ incoming \in [Producers -> Values \cup {NoValue}]
    /\ sleeping \subseteq Consumers
    /\ woken \subseteq Consumers
    /\ sleeping \cap woken = {}
    /\ pushed \in Seq(Values)
    /\ popped \in Seq(Values)
    /\ late \in Nat

(* Nothing is lost, duplicated or reordered between Push and the two kinds *)
(* of pop, whatever way the threads interleave.                            *)
Fifo == pushed = popped \o m_Queue

(* notify_one is enough: as long as somebody sleeps, every element in the  *)
(* queue has a consumer of its own that is already on its way to it, and   *)
(* in the exit state nobody sleeps at all.                                 *)
NoLostWakeup ==
    /\ sleeping # {} => Len(m_Queue) <= Cardinality(woken)
    /\ m_bTermination => sleeping = {}

(* Because the flag is tested before the lock is taken, elements do enter  *)
(* in the exit state: never more than one per producer thread.             *)
LateArrivals ==
    IF m_bTermination
    THEN late + Cardinality(InPush) <= Cardinality(Producers)
    ELSE late = 0

(* The comment of line 115 says of the exit state that entering is         *)
(* ignored: no step taken in it makes the queue longer.                    *)
ExitIgnoresPush == [][m_bTermination => Len(m_Queue') <= Len(m_Queue)]_vars

------------------------------------------------------------------------------
(* The refinement: who is blocked is who sleeps or has been woken.         *)
Abstract == INSTANCE ClosableQueue WITH
    Putters <- Producers, Takers <- Consumers,
    Items <- Values, NoItem <- NoValue,
    items <- m_Queue, closed <- m_bTermination, accepted <- incoming,
    blocked <- sleeping \cup woken, taken <- popped

(* The queue with its lock, flag and notifications behaves like the        *)
(* closable FIFO, liveness included.                                       *)
ImplementsClosableQueue == Abstract!Spec
==============================================================================
