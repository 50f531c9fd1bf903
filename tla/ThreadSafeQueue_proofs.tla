------------------------ MODULE ThreadSafeQueue_proofs ------------------------
(***************************************************************************)
(* Safety of ThreadSafeQueue for any finite sets of producers and          *)
(* consumers, any values and any bound: types, FIFO delivery, no lost      *)
(* wake-up, the bound on late arrivals, the step simulation of             *)
(* ClosableQueue, and who serves a blocked taker.                          *)
(***************************************************************************)
EXTENDS ThreadSafeQueue, FiniteSetTheorems, SequenceTheorems, TLAPS

(* TypeOK holds in every reachable state: the fields of the queue object   *)
(* and the places of its threads keep their types, no consumer both sleeps *)
(* and runs.                                                               *)
THEOREM TypeCorrect == Safety => []TypeOK
<1>1. Init => TypeOK
  <2> SUFFICES ASSUME Init PROVE TypeOK
    OBVIOUS
  <2>1. /\ m_Queue \in Seq(Values)
        /\ pushed \in Seq(Values)
        /\ popped \in Seq(Values)
    BY DEF Init
  <2>2. incoming \in [Producers -> Values \cup {NoValue}]
    BY DEF Init
  <2> QED
    BY <2>1, <2>2 DEF Init, TypeOK
<1>2. TypeOK /\ [Next]_vars => TypeOK'
  <2> SUFFICES ASSUME TypeOK, [Next]_vars PROVE TypeOK'
    OBVIOUS
  <2>1. ASSUME NEW p \in Producers, PushEnqueue(p) PROVE TypeOK'
    BY <2>1 DEF PushEnqueue, NotifyOne, TypeOK
  <2>2. ASSUME NEW p \in Producers, NEW v \in Values, PushTest(p, v)
        PROVE  TypeOK'
    BY <2>2 DEF PushTest, TypeOK
  <2>3. ASSUME NEW c \in Consumers, WaitAndPop(c) PROVE TypeOK'
    <3>1. CASE PopFront /\ UNCHANGED sleeping
      BY <2>3, <3>1 DEF WaitAndPop, PopFront, TypeOK
    <3>2. CASE UNCHANGED <<m_Queue, popped, sleeping>>
      BY <2>3, <3>2 DEF WaitAndPop, TypeOK
    <3>3. CASE sleeping' = sleeping \cup {c} /\ UNCHANGED <<m_Queue, popped>>
      BY <2>3, <3>3 DEF WaitAndPop, TypeOK
    <3> QED
      BY <2>3, <3>1, <3>2, <3>3 DEF WaitAndPop
  <2>4. ASSUME NEW c \in Consumers, TryPop(c) PROVE TypeOK'
    BY <2>4 DEF TryPop, PopFront, TypeOK
  <2>5. ASSUME NEW c \in Consumers, SpuriousWakeup(c) PROVE TypeOK'
    BY <2>5 DEF SpuriousWakeup, TypeOK
  <2>6. CASE Termination
    BY <2>6 DEF Termination, NotifyAll, TypeOK
  <2>7. CASE UNCHANGED vars
    BY <2>7 DEF vars, TypeOK
  <2> QED
    BY <2>1, <2>2, <2>3, <2>4, <2>5, <2>6, <2>7 DEF Next
<1> QED
  BY <1>1, <1>2, PTL DEF Safety

------------------------------------------------------------------------------
(* Moving the head of t to the end of s leaves the concatenation alone.    *)
LEMMA MoveHead ==
  ASSUME NEW S, NEW s \in Seq(S), NEW t \in Seq(S), t # <<>>
  PROVE  Append(s, Head(t)) \o Tail(t) = s \o t
  OBVIOUS

(* Appending to a concatenation appends to its second part.                *)
LEMMA AppendConcat ==
  ASSUME NEW S, NEW s \in Seq(S), NEW t \in Seq(S), NEW e \in S
  PROVE  Append(s \o t, e) = s \o Append(t, e)
  OBVIOUS

(* A pop moves the front element from the queue to the popped history, so  *)
(* it disturbs no FIFO.                                                    *)
LEMMA PopKeepsFifo ==
  ASSUME TypeOK, Fifo, PopFront, pushed' = pushed
  PROVE  Fifo'
  BY MoveHead DEF TypeOK, Fifo, PopFront

(* Whatever the interleaving, the dequeued elements followed by the queued *)
(* ones are the enqueued ones in their order: Push, WaitAndPop and TryPop  *)
(* lose, repeat and reorder nothing.                                       *)
THEOREM FifoDelivery == Safety => []Fifo
<1>1. Init => Fifo
  BY DEF Init, Fifo
<1>2. TypeOK /\ Fifo /\ [Next]_vars => Fifo'
  <2> SUFFICES ASSUME TypeOK, Fifo, [Next]_vars PROVE Fifo'
    OBVIOUS
  <2>1. ASSUME NEW p \in Producers, PushEnqueue(p) PROVE Fifo'
    <3>1. incoming[p] \in Values
      BY <2>1 DEF PushEnqueue, TypeOK
    <3>2. Append(popped \o m_Queue, incoming[p])
            = popped \o Append(m_Queue, incoming[p])
      <4>1. m_Queue \in Seq(Values) /\ popped \in Seq(Values)
        BY DEF TypeOK
      <4> QED
        BY <3>1, <4>1, AppendConcat
    <3> QED
      BY <2>1, <3>2 DEF PushEnqueue, Fifo
  <2>2. ASSUME NEW p \in Producers, NEW v \in Values, PushTest(p, v)
        PROVE  Fifo'
    BY <2>2 DEF PushTest, Fifo
  <2>3. ASSUME NEW c \in Consumers, WaitAndPop(c) PROVE Fifo'
    <3>1. CASE PopFront
      BY <2>3, <3>1, PopKeepsFifo DEF WaitAndPop
    <3>2. CASE UNCHANGED <<m_Queue, popped>>
      BY <2>3, <3>2 DEF WaitAndPop, Fifo
    <3> QED
      BY <2>3, <3>1, <3>2 DEF WaitAndPop
  <2>4. ASSUME NEW c \in Consumers, TryPop(c) PROVE Fifo'
    BY <2>4, PopKeepsFifo DEF TryPop
  <2>5. ASSUME NEW c \in Consumers, SpuriousWakeup(c) PROVE Fifo'
    BY <2>5 DEF SpuriousWakeup, Fifo
  <2>6. CASE Termination
    BY <2>6 DEF Termination, Fifo
  <2>7. CASE UNCHANGED vars
    BY <2>7 DEF vars, Fifo
  <2> QED
    BY <2>1, <2>2, <2>3, <2>4, <2>5, <2>6, <2>7 DEF Next
<1> QED
  BY <1>1, <1>2, TypeCorrect, PTL DEF Safety

------------------------------------------------------------------------------
(* Woken consumers can be counted.                                         *)
LEMMA WokenFinite ==
  ASSUME TypeOK
  PROVE  IsFiniteSet(woken) /\ Cardinality(woken) \in Nat
  BY QueueAssumption, FS_Subset, FS_CardinalityType DEF TypeOK

(* While a consumer sleeps, each queued element has a woken consumer of    *)
(* its own, and in the exit state nobody sleeps: the single notify_one of  *)
(* Push and the notify_all of Termination lose no wake-up.                 *)
THEOREM WakeupsNotLost == Safety => []NoLostWakeup
<1>1. Init => NoLostWakeup
  BY DEF Init, NoLostWakeup
<1>2. TypeOK /\ TypeOK' /\ NoLostWakeup /\ [Next]_vars => NoLostWakeup'
  <2> SUFFICES ASSUME TypeOK, TypeOK', NoLostWakeup, [Next]_vars
               PROVE  NoLostWakeup'
    OBVIOUS
  <2>0. /\ IsFiniteSet(woken) /\ Cardinality(woken) \in Nat
        /\ Len(m_Queue) \in Nat
    BY WokenFinite, LenProperties DEF TypeOK
  <2>1. ASSUME NEW p \in Producers, PushEnqueue(p) PROVE NoLostWakeup'
    <3>1. Len(m_Queue') = Len(m_Queue) + 1
      BY <2>1, AppendProperties DEF PushEnqueue, TypeOK
    <3>2. CASE sleeping = {} /\ UNCHANGED <<sleeping, woken>>
      BY <2>1, <3>2 DEF PushEnqueue, NoLostWakeup
    <3>3. ASSUME NEW c \in sleeping, sleeping' = sleeping \ {c},
                 woken' = woken \cup {c}
          PROVE  NoLostWakeup'
      <4>1. Cardinality(woken') = Cardinality(woken) + 1
        BY <3>3, <2>0, FS_AddElement DEF TypeOK
      <4> QED
        BY <2>0, <2>1, <3>1, <3>3, <4>1 DEF PushEnqueue, NoLostWakeup
    <3> QED
      BY <2>1, <3>2, <3>3 DEF PushEnqueue, NotifyOne
  <2>2. ASSUME NEW p \in Producers, NEW v \in Values, PushTest(p, v)
        PROVE  NoLostWakeup'
    BY <2>2 DEF PushTest, NoLostWakeup
  <2>3. ASSUME NEW c \in Consumers, WaitAndPop(c) PROVE NoLostWakeup'
    <3>1. /\ Cardinality(woken') >= Cardinality(woken) - 1
          /\ Cardinality(woken') \in Nat
      <4>1. /\ IsFiniteSet(woken \ {c})
            /\ Cardinality(woken \ {c}) = IF c \in woken
                                          THEN Cardinality(woken) - 1
                                          ELSE Cardinality(woken)
        BY <2>0, FS_RemoveElement
      <4>2. Cardinality(woken \ {c}) \in Nat
        BY <4>1, FS_CardinalityType
      <4>3. woken' = woken \ {c}
        BY <2>3 DEF WaitAndPop
      <4> QED
        BY <2>0, <4>1, <4>2, <4>3
    <3>2. CASE PopFront /\ UNCHANGED sleeping
      <4>1. Len(m_Queue') = Len(m_Queue) - 1
        BY <3>2, HeadTailProperties DEF PopFront, TypeOK
      <4>2. /\ sleeping' = sleeping
            /\ m_bTermination' = m_bTermination
        BY <2>3, <3>2 DEF WaitAndPop
      <4>3. sleeping # {} => Len(m_Queue') <= Cardinality(woken')
        BY <2>0, <3>1, <4>1 DEF NoLostWakeup
      <4> QED
        BY <4>2, <4>3 DEF NoLostWakeup
    <3>3. CASE m_Queue = <<>> /\ m_Queue' = m_Queue /\ ~m_bTermination
      BY <2>3, <3>1, <3>3 DEF WaitAndPop, NoLostWakeup
    <3>4. CASE m_Queue = <<>> /\ m_bTermination /\ UNCHANGED sleeping
      BY <2>3, <3>4 DEF WaitAndPop, NoLostWakeup
    <3> QED
      BY <2>3, <3>2, <3>3, <3>4 DEF WaitAndPop
  <2>4. ASSUME NEW c \in Consumers, TryPop(c) PROVE NoLostWakeup'
    <3>1. Len(m_Queue') = Len(m_Queue) - 1
      BY <2>4, HeadTailProperties DEF TryPop, PopFront, TypeOK
    <3>2. sleeping # {} => Len(m_Queue') <= Cardinality(woken)
      BY <2>0, <3>1 DEF NoLostWakeup
    <3> QED
      BY <2>4, <3>2 DEF TryPop, NoLostWakeup
  <2>5. ASSUME NEW c \in Consumers, SpuriousWakeup(c) PROVE NoLostWakeup'
    <3>0. Cardinality(woken \cup {c}) = IF c \in woken THEN Cardinality(woken)
                                       ELSE Cardinality(woken) + 1
      BY <2>0, FS_AddElement
    <3>1. Cardinality(woken') >= Cardinality(woken)
      BY <2>0, <2>5, <3>0 DEF SpuriousWakeup
    <3>2. Cardinality(woken') \in Nat
      BY <2>0, <2>5, FS_AddElement, FS_CardinalityType DEF SpuriousWakeup
    <3> QED
      BY <2>0, <2>5, <3>1, <3>2 DEF SpuriousWakeup, NoLostWakeup
  <2>6. CASE Termination
    BY <2>6 DEF Termination, NotifyAll, NoLostWakeup
  <2>7. CASE UNCHANGED vars
    BY <2>7 DEF vars, NoLostWakeup
  <2> QED
    BY <2>1, <2>2, <2>3, <2>4, <2>5, <2>6, <2>7 DEF Next
<1> QED
  BY <1>1, <1>2, TypeCorrect, PTL DEF Safety

------------------------------------------------------------------------------
(* The producers inside Push can be counted, and one that comes or goes    *)
(* changes the count by one.                                               *)
LEMMA InPushFinite ==
  ASSUME NEW P \in SUBSET Producers
  PROVE  /\ IsFiniteSet(P)
         /\ Cardinality(P) \in Nat
         /\ Cardinality(Producers) \in Nat
         /\ Cardinality(P) <= Cardinality(Producers)
  BY QueueAssumption, FS_Subset, FS_CardinalityType

(* In the exit state at most one element per producer thread still enters: *)
(* the ones whose Push had read the flag before Termination set it.        *)
THEOREM LateArrivalsBounded == Safety => []LateArrivals
<1>1. Init => LateArrivals
  BY DEF Init, LateArrivals
<1>2. TypeOK /\ LateArrivals /\ [Next]_vars => LateArrivals'
  <2> SUFFICES ASSUME TypeOK, LateArrivals, [Next]_vars PROVE LateArrivals'
    OBVIOUS
  <2>0. /\ IsFiniteSet(InPush)
        /\ Cardinality(InPush) \in Nat
        /\ Cardinality(Producers) \in Nat
        /\ Cardinality(InPush) <= Cardinality(Producers)
        /\ late \in Nat
    BY InPushFinite DEF InPush, TypeOK
  <2>1. ASSUME NEW p \in Producers, PushEnqueue(p) PROVE LateArrivals'
    <3>1. InPush' = InPush \ {p} /\ p \in InPush
      BY <2>1 DEF PushEnqueue, InPush, TypeOK
    <3>2. Cardinality(InPush') = Cardinality(InPush) - 1
      BY <2>0, <3>1, FS_RemoveElement
    <3>3. CASE m_bTermination
      <4>1. late' = late + 1 /\ m_bTermination'
        BY <2>1, <3>3 DEF PushEnqueue
      <4>2. late + Cardinality(InPush) <= Cardinality(Producers)
        BY <3>3 DEF LateArrivals
      <4>3. late' + Cardinality(InPush') <= Cardinality(Producers)
        BY <2>0, <3>2, <4>1, <4>2
      <4> QED
        BY <4>1, <4>3 DEF LateArrivals
    <3>4. CASE ~m_bTermination
      BY <2>1, <3>4 DEF PushEnqueue, LateArrivals
    <3> QED
      BY <3>3, <3>4
  <2>2. ASSUME NEW p \in Producers, NEW v \in Values, PushTest(p, v)
        PROVE  LateArrivals'
    BY <2>2 DEF PushTest, LateArrivals
  <2>3. ASSUME NEW c \in Consumers, WaitAndPop(c) PROVE LateArrivals'
    BY <2>3 DEF WaitAndPop, LateArrivals, InPush
  <2>4. ASSUME NEW c \in Consumers, TryPop(c) PROVE LateArrivals'
    BY <2>4 DEF TryPop, LateArrivals, InPush
  <2>5. ASSUME NEW c \in Consumers, SpuriousWakeup(c) PROVE LateArrivals'
    BY <2>5 DEF SpuriousWakeup, LateArrivals, InPush
  <2>6. CASE Termination
    <3>1. InPush' = InPush /\ late' = late /\ m_bTermination'
      BY <2>6 DEF Termination, InPush
    <3>2. late + Cardinality(InPush) <= Cardinality(Producers)
      BY <2>0 DEF LateArrivals
    <3> QED
      BY <3>1, <3>2 DEF LateArrivals
  <2>7. CASE UNCHANGED vars
    BY <2>7 DEF vars, LateArrivals, InPush
  <2> QED
    BY <2>1, <2>2, <2>3, <2>4, <2>5, <2>6, <2>7 DEF Next
<1> QED
  BY <1>1, <1>2, TypeCorrect, PTL DEF Safety

------------------------------------------------------------------------------
(* Every step of the code is a step of the closable FIFO or invisible to   *)
(* it: condition variable and wake-ups are an implementation of blocking.  *)
THEOREM ImplementsAbstractSafety == Safety => Abstract!Safety
<1>1. Init => Abstract!Init
  BY DEF Init, Abstract!Init
<1>2. TypeOK /\ [Next]_vars => [Abstract!Next]_(Abstract!absVars)
  <2> SUFFICES ASSUME TypeOK, Next PROVE Abstract!Next \/ UNCHANGED Abstract!absVars
    BY DEF vars, Abstract!absVars
  <2> USE DEF Abstract!absVars
  <2>1. ASSUME NEW p \in Producers, PushEnqueue(p) PROVE Abstract!Land(p)
    <3>1. sleeping' \cup woken' = sleeping \cup woken
      BY <2>1 DEF PushEnqueue, NotifyOne
    <3> QED
      BY <2>1, <3>1 DEF PushEnqueue, Abstract!Land
  <2>2. ASSUME NEW p \in Producers, NEW v \in Values, PushTest(p, v)
        PROVE  Abstract!Accept(p, v)
    BY <2>2 DEF PushTest, Abstract!Accept
  <2>3. ASSUME NEW c \in Consumers, WaitAndPop(c)
        PROVE  \/ Abstract!Take(c) \/ Abstract!Block(c) \/ Abstract!Refuse(c)
               \/ UNCHANGED Abstract!absVars
    <3>1. CASE PopFront /\ UNCHANGED sleeping
      <4>1. sleeping' \cup woken' = (sleeping \cup woken) \ {c}
        BY <2>3, <3>1 DEF WaitAndPop
      <4>2. Abstract!Take(c)
        BY <2>3, <3>1, <4>1 DEF WaitAndPop, PopFront, Abstract!Take
      <4> QED
        BY <4>2
    <3>2. CASE /\ m_Queue = <<>>
               /\ m_bTermination
               /\ UNCHANGED <<m_Queue, popped, sleeping>>
      <4>1. sleeping' \cup woken' = (sleeping \cup woken) \ {c}
        BY <2>3, <3>2 DEF WaitAndPop
      <4>2. CASE c \in woken
        BY <2>3, <3>2, <4>1, <4>2 DEF WaitAndPop, Abstract!Refuse
      <4>3. CASE c \notin woken
        BY <2>3, <3>2, <4>1, <4>3 DEF WaitAndPop
      <4> QED
        BY <4>2, <4>3
    <3>3. CASE /\ m_Queue = <<>>
               /\ ~m_bTermination
               /\ sleeping' = sleeping \cup {c}
               /\ UNCHANGED <<m_Queue, popped>>
      <4>1. sleeping' \cup woken' = (sleeping \cup woken) \cup {c}
        BY <2>3, <3>3 DEF WaitAndPop
      <4>2. Abstract!Block(c)
        BY <2>3, <3>3, <4>1 DEF WaitAndPop, Abstract!Block
      <4> QED
        BY <4>2
    <3> QED
      BY <2>3, <3>1, <3>2, <3>3 DEF WaitAndPop
  <2>4. ASSUME NEW c \in Consumers, TryPop(c) PROVE Abstract!Take(c)
    <3>1. sleeping' \cup woken' = (sleeping \cup woken) \ {c}
      BY <2>4 DEF TryPop
    <3> QED
      BY <2>4, <3>1 DEF TryPop, PopFront, Abstract!Take
  <2>5. ASSUME NEW c \in Consumers, SpuriousWakeup(c)
        PROVE  UNCHANGED Abstract!absVars
    <3>1. sleeping' \cup woken' = sleeping \cup woken
      BY <2>5 DEF SpuriousWakeup
    <3> QED
      BY <2>5, <3>1 DEF SpuriousWakeup
  <2>6. ASSUME Termination PROVE Abstract!Close
    <3>1. sleeping' \cup woken' = sleeping \cup woken
      BY <2>6 DEF Termination, NotifyAll
    <3> QED
      BY <2>6, <3>1 DEF Termination, Abstract!Close
  <2> QED
    BY <2>1, <2>2, <2>3, <2>4, <2>5, <2>6 DEF Next, Abstract!Next
<1> QED
  BY <1>1, <1>2, TypeCorrect, PTL DEF Safety, Abstract!Safety

------------------------------------------------------------------------------
(* What the fairness of ClosableQueue asks of every state and every step:  *)
(* whenever a blocked taker is to be served or refused, a consumer is awake *)
(* to be, ...                                                              *)
ServerAwake ==
    (m_Queue # <<>> \/ m_bTermination) /\ sleeping \cup woken # {} => woken # {}

(* ... a wake-up stays until its consumer has resumed, whatever the others *)
(* do, and the resumption is the Take or the Refuse that is owed.          *)
WakeupServes(c) ==
    /\ c \in sleeping => c \in sleeping' \cup woken'
    /\ c \in woken => c \in woken' \/ Resume(c)
    /\ Resume(c) /\ m_Queue # <<>> => Abstract!Take(c)
    /\ Resume(c) /\ m_Queue = <<>> /\ m_bTermination => Abstract!Refuse(c)
WakeupsServe == [][\A c \in Consumers : WakeupServes(c)]_vars

(* An item in the queue, or the exit, always finds a consumer awake if one *)
(* has called WaitAndPop and not come back.                                *)
THEOREM BlockedFindServer == Safety => []ServerAwake
<1>1. TypeOK /\ NoLostWakeup => ServerAwake
  <2> SUFFICES ASSUME TypeOK, NoLostWakeup, m_Queue # <<>> \/ m_bTermination, woken = {}
               PROVE  sleeping = {}
    BY DEF ServerAwake
  <2>1. CASE m_bTermination
    BY <2>1 DEF NoLostWakeup
  <2>2. CASE m_Queue # <<>>
    <3>1. Len(m_Queue) \in Nat /\ Len(m_Queue) # 0
      BY <2>2, LenProperties, EmptySeq DEF TypeOK
    <3>2. Cardinality(woken) = 0
      BY FS_EmptySet
    <3> QED
      BY <3>1, <3>2 DEF NoLostWakeup
  <2> QED
    BY <2>1, <2>2
<1> QED
  BY TypeCorrect, WakeupsNotLost, <1>1, PTL

(* No step of another thread undoes a wake-up, and what a woken consumer   *)
(* does is what ClosableQueue owes to it.                                  *)
THEOREM ResumptionsServe == Safety => WakeupsServe
<1>1. ASSUME TypeOK, [Next]_vars, NEW c \in Consumers PROVE WakeupServes(c)
  <2>1. ASSUME NEW p \in Producers, PushEnqueue(p) PROVE WakeupServes(c)
    <3>1. sleeping \cup woken = sleeping' \cup woken' /\ woken \subseteq woken'
      BY <2>1 DEF PushEnqueue, NotifyOne
    <3>2. ~Resume(c)
      BY <2>1 DEF PushEnqueue, Resume, WaitAndPop, TypeOK
    <3> QED
      BY <3>1, <3>2 DEF WakeupServes
  <2>2. ASSUME ~Resume(c), UNCHANGED <<sleeping, woken>> PROVE WakeupServes(c)
    BY <2>2 DEF WakeupServes
  <2>3. ASSUME NEW d \in Consumers, WaitAndPop(d) PROVE WakeupServes(c)
    <3>1. sleeping \subseteq sleeping' /\ woken' = woken \ {d}
      BY <2>3 DEF WaitAndPop
    <3>2. c \in woken => c \in woken' \/ Resume(c)
      BY <2>3, <3>1 DEF Resume
    <3>3. ASSUME Resume(c), m_Queue # <<>> PROVE Abstract!Take(c)
      <4>1. sleeping' \cup woken' = (sleeping \cup woken) \ {c}
        BY <3>3, <2>3 DEF Resume, WaitAndPop
      <4> QED
        BY <3>3, <4>1 DEF Resume, WaitAndPop, PopFront, Abstract!Take
    <3>4. ASSUME Resume(c), m_Queue = <<>>, m_bTermination PROVE Abstract!Refuse(c)
      <4>1. sleeping' \cup woken' = (sleeping \cup woken) \ {c} /\ c \in woken
        BY <3>4 DEF Resume, WaitAndPop, PopFront
      <4> QED
        BY <3>4, <4>1 DEF Resume, WaitAndPop, PopFront, Abstract!Refuse
    <3> QED
      BY <3>1, <3>2, <3>3, <3>4 DEF WakeupServes
  <2>4. CASE \E d \in Consumers : SpuriousWakeup(d) \/ TryPop(d)
    <3>1. /\ sleeping \cup woken = sleeping' \cup woken'
          /\ woken \subseteq woken'
      BY <2>4 DEF SpuriousWakeup, TryPop
    <3>2. Resume(c) => woken' = woken \ {c} /\ c \in woken
      BY DEF Resume, WaitAndPop
    <3> QED
      BY <3>1, <3>2 DEF WakeupServes
  <2>5. CASE Termination
    <3>1. /\ sleeping \cup woken = sleeping' \cup woken'
          /\ woken \subseteq woken'
      BY <2>5 DEF Termination, NotifyAll
    <3>2. Resume(c) => woken' = woken \ {c} /\ c \in woken
      BY DEF Resume, WaitAndPop
    <3> QED
      BY <3>1, <3>2 DEF WakeupServes
  <2>6. CASE \/ \E p \in Producers, v \in Values : PushTest(p, v)
             \/ UNCHANGED vars
    <3>1. UNCHANGED <<sleeping, woken>>
      BY <2>6 DEF PushTest, vars
    <3>2. Resume(c) => woken' = woken \ {c} /\ c \in woken
      BY DEF Resume, WaitAndPop
    <3> QED
      BY <2>2, <3>1, <3>2
  <2> QED
    BY <1>1, <2>1, <2>3, <2>4, <2>5, <2>6 DEF Next
<1>2. TypeOK /\ [Next]_vars => [\A c \in Consumers : WakeupServes(c)]_vars
  BY <1>1
<1> QED
  BY TypeCorrect, <1>2, PTL DEF Safety, WakeupsServe
==============================================================================
