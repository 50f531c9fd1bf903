------------------------------ MODULE Singleton ------------------------------
(***************************************************************************)
(* Singleton<T> of src/Singleton/Singleton.h: a static shared_ptr that     *)
(* GetInstance fills by double-checked locking and DeleteInstance empties. *)
(*                                                                         *)
(* The shared_ptr is not atomic: it is two words, the object pointer and   *)
(* the control block that holds the reference count.  Line 22 writes and   *)
(* line 25 copies both without a common lock, a data race; each copy is    *)
(* therefore two steps, in either order.  A handle that got the pointer    *)
(* but not the control block does not keep the object alive.               *)
(***************************************************************************)
EXTENDS Integers

CONSTANTS Getters,   (* threads that call GetInstance                      *)
          Deleters,  (* threads that call DeleteInstance                   *)
          Nobody,    (* m_Mutex is free                                    *)
          MaxMade,   (* bound: objects constructed                         *)
          MaxDeletes (* bound: DeleteInstance calls that find an object    *)

ASSUME SingletonAssumption ==
    /\ Nobody \notin Getters
    /\ Getters \cap Deleters = {}
    /\ MaxMade \in Nat \ {0}
    /\ MaxDeletes \in Nat

VARIABLES
    ptr, ctrl,   (* the two words of m_pSingleton: 0 or an object          *)
    m_Mutex,     (* its holder                                             *)
    pc,          (* where each thread is                                   *)
    seen,        (* seen[t]: the words of the copy t is making             *)
    made,        (* history: objects constructed so far, also their names  *)
    deletes,     (* history: DeleteInstance calls that found an object     *)
    returned     (* history: getters to whom GetInstance has returned      *)

vars == <<ptr, ctrl, m_Mutex, pc, seen, made, deletes, returned>>

Critical == {"inner", "make", "setptr", "setctrl", "unlock"}
Threads == Getters \cup Deleters
Objects == 0 .. MaxMade
Copy == [ptr : Objects, ctrl : Objects]

(* What the getters hold that are not in the middle of a copy.             *)
Handles == {seen[t] : t \in {u \in returned : pc[u] \notin {"copyptr", "copyctrl"}}}

Go(t, from, to) == pc[t] = from /\ pc' = [pc EXCEPT ![t] = to]

Init ==
    /\ ptr = 0
    /\ ctrl = 0
    /\ m_Mutex = Nobody
    /\ pc = [t \in Threads |-> "idle"]
    /\ seen = [t \in Getters |-> [ptr |-> 0, ctrl |-> 0]]
    /\ made = 0
    /\ deletes = 0
    /\ returned = {}

------------------------------------------------------------------------------
(* Thread t writes both words of m_pSingleton, one after the other: its    *)
(* counter moves to the word that is left to write.                        *)
WriteFirst(t, from, o, restPtr, restCtrl) ==
    \/ Go(t, from, restCtrl) /\ ptr' = o /\ UNCHANGED ctrl
    \/ Go(t, from, restPtr) /\ ctrl' = o /\ UNCHANGED ptr

WriteSecond(t, restPtr, restCtrl, o, to) ==
    \/ Go(t, restCtrl, to) /\ ctrl' = o /\ UNCHANGED ptr
    \/ Go(t, restPtr, to) /\ ptr' = o /\ UNCHANGED ctrl

------------------------------------------------------------------------------
(* GetInstance.                                                            *)

OuterTest(t) ==
    /\ Go(t, "idle", IF ptr # 0 THEN "copy" ELSE "lock")
    /\ UNCHANGED <<ptr, ctrl, m_Mutex, seen, made, deletes, returned>>

(* A plausible slip, for comparison: no lock_guard.                        *)
LockForgotten(t) ==
    /\ Go(t, "lock", "inner")
    /\ UNCHANGED <<ptr, ctrl, m_Mutex, seen, made, deletes, returned>>

Lock(t) ==
    /\ Go(t, "lock", "inner")
    /\ m_Mutex = Nobody
    /\ m_Mutex' = t
    /\ UNCHANGED <<ptr, ctrl, seen, made, deletes, returned>>

(* A plausible slip, for comparison: the pointer is not tested again under *)
(* the lock.                                                               *)
InnerTestForgotten(t) ==
    /\ Go(t, "inner", "make")
    /\ UNCHANGED <<ptr, ctrl, m_Mutex, seen, made, deletes, returned>>

InnerTest(t) ==
    /\ Go(t, "inner", IF ptr = 0 THEN "make" ELSE "unlock")
    /\ UNCHANGED <<ptr, ctrl, m_Mutex, seen, made, deletes, returned>>

Make(t) ==
    /\ WriteFirst(t, "make", made + 1, "setptr", "setctrl")
    /\ made < MaxMade
    /\ made' = made + 1
    /\ UNCHANGED <<m_Mutex, seen, deletes, returned>>

Assign(t) ==
    /\ WriteSecond(t, "setptr", "setctrl", made, "unlock")
    /\ UNCHANGED <<m_Mutex, seen, made, deletes, returned>>

Unlock(t) ==
    /\ Go(t, "unlock", "copy")
    /\ m_Mutex' = Nobody
    /\ UNCHANGED <<ptr, ctrl, seen, made, deletes, returned>>

(* The copy that is returned, of whatever m_pSingleton is by now.          *)
ReadFirst(t) ==
    /\ \/ /\ Go(t, "copy", "copyctrl")
          /\ seen' = [seen EXCEPT ![t].ptr = ptr]
       \/ /\ Go(t, "copy", "copyptr")
          /\ seen' = [seen EXCEPT ![t].ctrl = ctrl]
    /\ UNCHANGED <<ptr, ctrl, m_Mutex, made, deletes, returned>>

ReadSecond(t) ==
    /\ \/ /\ Go(t, "copyctrl", "idle")
          /\ seen' = [seen EXCEPT ![t].ctrl = ctrl]
       \/ /\ Go(t, "copyptr", "idle")
          /\ seen' = [seen EXCEPT ![t].ptr = ptr]
    /\ returned' = returned \cup {t}
    /\ UNCHANGED <<ptr, ctrl, m_Mutex, made, deletes>>

GetInstance(t) ==
    \/ OuterTest(t) \/ Lock(t) \/ InnerTest(t) \/ Make(t) \/ Assign(t)
    \/ Unlock(t) \/ ReadFirst(t) \/ ReadSecond(t)

------------------------------------------------------------------------------
(* DeleteInstance, which takes no lock: reset(), then the assignment of    *)
(* nullptr, each of two words.                                             *)

DeleteTest(d) ==
    /\ Go(d, "idle", "reset")
    /\ ptr # 0
    /\ deletes < MaxDeletes
    /\ deletes' = deletes + 1
    /\ UNCHANGED <<ptr, ctrl, m_Mutex, seen, made, returned>>

DeleteWrite(d) ==
    /\ \/ WriteFirst(d, "reset", 0, "resetptr", "resetctrl")
       \/ WriteSecond(d, "resetptr", "resetctrl", 0, "null")
       \/ WriteFirst(d, "null", 0, "nullptr", "nullctrl")
       \/ WriteSecond(d, "nullptr", "nullctrl", 0, "idle")
    /\ UNCHANGED <<m_Mutex, seen, made, deletes, returned>>

DeleteInstance(d) == DeleteTest(d) \/ DeleteWrite(d)

Next ==
    \/ \E t \in Getters : GetInstance(t)
    \/ \E d \in Deleters : DeleteInstance(d)

Safety == Init /\ [][Next]_vars

------------------------------------------------------------------------------
(* Properties.                                                             *)

(* Words are objects, threads are inside their own operations, and m_Mutex *)
(* is held exactly by the getter that is between lines 18 and 24.          *)
TypeOK ==
    /\ ptr \in Objects
    /\ ctrl \in Objects
    /\ m_Mutex \in Getters \cup {Nobody}
    /\ pc \in [Threads -> {"idle", "lock", "inner", "make", "setptr", "setctrl",
                           "unlock", "copy", "copyctrl", "copyptr",
                           "reset", "resetptr", "resetctrl",
                           "null", "nullptr", "nullctrl"}]
    /\ \A t \in Getters : m_Mutex = t <=> pc[t] \in Critical
    /\ seen \in [Getters -> Copy]
    /\ made \in Objects
    /\ deletes \in 0 .. MaxDeletes
    /\ returned \subseteq Getters

(* Double-checked locking works as long as nobody deletes: T is            *)
(* constructed once, and every caller is given that object, though perhaps *)
(* without a share in its ownership.                                       *)
OneInstance ==
    deletes = 0 => /\ made <= 1
                   /\ \A h \in Handles : h.ptr = 1 /\ h.ctrl \in {0, 1}

(* DeleteInstance empties the pointer twice, in lines 33 and 34, so that   *)
(* one call can throw away two instances, but never more: the number of    *)
(* constructions is bounded by the number of deletions.                    *)
BoundedInstances == made <= 1 + 2 * deletes

(* README.md line 11: the smart pointer and the mutex make the access safe *)
(* for several threads and collect the object automatically.  Every handle *)
(* that is returned then shares the ownership of the object it points to.  *)
HandlesOwn == \A h \in Handles : h.ctrl = h.ptr
==============================================================================
